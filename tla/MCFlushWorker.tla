----------------------------- MODULE MCFlushWorker -----------------------------
(* Values of the constants for the runs of FlushWorker. *)
EXTENDS FlushWorker

MCTypes == <<"mark_price", "index_price", "depth_snapshot">>
MCUpserts == [mark_price |-> <<{"mark"}>>, index_price |-> <<{"index"}>>,
              depth_snapshot |-> <<{"spot"}, {"perp"}>>]
MCMessages == {{"mark", "index"}}
MCDepthKeys == {"spot", "perp"}
MCNone == {}
MCMarkPrice == {"mark_price"}
\* The shorter list for the temporal runs.
MCTwoTypes == <<"mark_price", "depth_snapshot">>
MCMarkOnly == {{"mark"}}
=============================================================================
