-------------------------- MODULE MCDerivativesPipeline --------------------------
(* Values of the constants for the runs of DerivativesPipeline. *)
EXTENDS DerivativesPipeline

MCEvents == [s \in Types |-> IF s = "open_interest" THEN {1, 2} ELSE {1}]
MCRejected == [s \in Types |-> IF s = "index_price" THEN {1} ELSE {}]
MCStarts == {0}
MCEnds == {1, 2}
MCRequests == {<<"open_interest">>}
MCRanges == {<<1, 2>>}
=============================================================================
