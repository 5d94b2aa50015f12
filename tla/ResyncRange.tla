------------------------------- MODULE ResyncRange -------------------------------
(***************************************************************************)
(* apps/run_resync_range.py: _resync_range and _resync_kline, the manual   *)
(* repair of a range given by the operator.                                *)
(***************************************************************************)
EXTENDS KlineStore

CONSTANT ResyncRanges  \* pairs <<--start-ts-ms, --end-ts-ms>>

ASSUME ResyncRangesAssumption == ResyncRanges \subseteq Nat \X Nat

VARIABLE rsy    \* the run: where it stands and its local variables

RsyRun == [pc   : {"idle", "fetch", "persist", "mark"},
           cur  : Nat,
           end  : Nat,
           page : SUBSET Bars,
           asof : Nat]

RsyTypeOK == rsy \in RsyRun

RsyIdle == [pc |-> "idle", cur |-> 0, end |-> 0, page |-> {}, asof |-> 0]

RsyInit == rsy = RsyIdle

-----------------------------------------------------------------------------

\* Without --force a range that ends at or before the position is skipped.
RsyBegin(range, force) ==
    /\ rsy.pc = "idle"
    /\ ~force /\ checkpoint.event # Null => checkpoint.event < range[2]
    /\ range[1] <= range[2]
    /\ rsy' = [RsyIdle EXCEPT !.pc = "fetch", !.cur = range[1], !.end = range[2]]
    /\ UNCHANGED storeVars

RsyFetch ==
    /\ rsy.pc = "fetch"
    /\ LET page == FetchKlines(rsy.cur, rsy.end, now)
       IN  rsy' = IF page = {} THEN RsyIdle
                  ELSE [rsy EXCEPT !.pc = "persist", !.page = page, !.asof = now]
    /\ UNCHANGED storeVars

\* Mutant: an error row that keeps where the run stood.
MutRsyFetchFails ==
    /\ rsy.pc = "fetch"
    /\ Fault
    /\ UpsertCheckpoint("error", rsy.cur, Null)
    /\ rsy' = RsyIdle
    /\ UNCHANGED <<now, table, base>>

RsyFetchFails ==
    /\ rsy.pc = "fetch"
    /\ Fault
    /\ UpsertCheckpoint("error", Null, Null)
    /\ rsy' = RsyIdle
    /\ UNCHANGED <<now, table, base>>

RsyPersist ==
    /\ rsy.pc = "persist"
    /\ UpsertBatch(rsy.page, rsy.asof)
    /\ rsy' = [rsy EXCEPT !.pc = "mark"]
    /\ UNCHANGED <<now, faults, checkpoint, base>>

\* The position becomes the page's last bar even when it was further ahead.
RsyMark ==
    /\ rsy.pc = "mark"
    /\ \E last \in rsy.page :
        /\ IsLast(last, rsy.page)
        /\ UpsertCheckpoint("ok", last, last)
        /\ rsy' = IF Cardinality(rsy.page) < Limit \/ rsy.end < last + 1
                  THEN RsyIdle
                  ELSE [rsy EXCEPT !.pc = "fetch", !.cur = last + 1,
                                   !.page = {}, !.asof = 0]
    /\ UNCHANGED <<now, faults, table, base>>

\* A failed upsert raises past the checkpoint, like a kill of the process.
RsyCrash ==
    /\ rsy.pc # "idle"
    /\ Fault
    /\ rsy' = RsyIdle
    /\ UNCHANGED <<now, table, checkpoint, base>>

RsyLaunch == \E range \in ResyncRanges, force \in BOOLEAN : RsyBegin(range, force)
RsyStep == RsyFetch \/ RsyPersist \/ RsyMark
RsyNext == RsyLaunch \/ RsyStep \/ RsyFetchFails \/ RsyCrash

=============================================================================
