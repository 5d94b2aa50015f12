------------------------------ MODULE RecoverySync ------------------------------
(***************************************************************************)
(* apps/run_recovery_sync.py: run_async and _recover_kline.  A run takes a *)
(* snapshot of the checkpoints with status error and replays each from its *)
(* position, or from the configured start when it has none.                *)
(***************************************************************************)
EXTENDS KlineStore

CONSTANT HistoricalStart  \* config ingestion.historical_start_ts_ms, or Null

ASSUME HistoricalStartAssumption == HistoricalStart \in Timestamp

VARIABLE rec    \* the run: where it stands and its local variables

RecRun == [pc   : {"idle", "fetch", "persist", "mark"},
           cp   : Checkpoint,                            \* the snapshot
           cur  : Nat,
           end  : Nat,
           page : SUBSET Bars,
           asof : Nat,
           last : {"none", "recovered", "still_failing"}] \* the run's report

RecTypeOK == rec \in RecRun

RecDone(report) ==
    [pc |-> "idle", cp |-> [status |-> "none", event |-> Null, open |-> Null],
     cur |-> 0, end |-> 0, page |-> {}, asof |-> 0, last |-> report]

RecInit == rec = RecDone("none")

-----------------------------------------------------------------------------

\* Mutant: no fallback to the configured start.
MutRecStartPoint == checkpoint.event

RecStartPoint ==
    IF checkpoint.event # Null THEN checkpoint.event ELSE HistoricalStart

\* list_by_status("error") returned the stream's row, and it has a start point
\* (without one it is skipped); the range ends at the current time.
RecBegin ==
    /\ rec.pc = "idle"
    /\ checkpoint.status = "error"
    /\ RecStartPoint # Null
    /\ RecStartPoint <= now
    /\ rec' = [RecDone("none") EXCEPT !.pc = "fetch", !.cp = checkpoint,
                                      !.cur = RecStartPoint, !.end = now]
    /\ Rebase(checkpoint.event # Null, RecStartPoint)
    /\ UNCHANGED <<now, faults, table, checkpoint>>

\* The start lies in the future: the loop is not entered, and the checkpoint
\* counts as recovered.
RecBeginEmpty ==
    /\ rec.pc = "idle"
    /\ checkpoint.status = "error"
    /\ RecStartPoint # Null
    /\ RecStartPoint > now
    /\ rec' = RecDone("recovered")
    /\ UNCHANGED storeVars

\* Mutant: an empty page is asked for again.
MutRecFetch ==
    /\ rec.pc = "fetch"
    /\ LET page == FetchKlines(rec.cur, rec.end, now)
       IN  rec' = IF page = {} THEN rec
                  ELSE [rec EXCEPT !.pc = "persist", !.page = page, !.asof = now]
    /\ UNCHANGED storeVars

RecFetch ==
    /\ rec.pc = "fetch"
    /\ LET page == FetchKlines(rec.cur, rec.end, now)
       IN  rec' = IF page = {} THEN RecDone("recovered")
                  ELSE [rec EXCEPT !.pc = "persist", !.page = page, !.asof = now]
    /\ UNCHANGED storeVars

RecPersist ==
    /\ rec.pc = "persist"
    /\ UpsertBatch(rec.page, rec.asof)
    /\ rec' = [rec EXCEPT !.pc = "mark"]
    /\ UNCHANGED <<now, faults, checkpoint, base>>

\* Mutant: the position recorded is the end of the range.
MutRecMark ==
    /\ rec.pc = "mark"
    /\ \E last \in rec.page :
        /\ IsLast(last, rec.page)
        /\ UpsertCheckpoint("ok", rec.end, rec.end)
        /\ rec' = IF Cardinality(rec.page) < Limit \/ rec.end < last + 1
                  THEN RecDone("recovered")
                  ELSE [rec EXCEPT !.pc = "fetch", !.cur = last + 1,
                                   !.page = {}, !.asof = 0]
    /\ UNCHANGED <<now, faults, table, base>>

RecMark ==
    /\ rec.pc = "mark"
    /\ \E last \in rec.page :
        /\ IsLast(last, rec.page)
        /\ UpsertCheckpoint("ok", last, last)
        /\ rec' = IF Cardinality(rec.page) < Limit \/ rec.end < last + 1
                  THEN RecDone("recovered")
                  ELSE [rec EXCEPT !.pc = "fetch", !.cur = last + 1,
                                   !.page = {}, !.asof = 0]
    /\ UNCHANGED <<now, faults, table, base>>

\* Mutant: the position put back is where the run was when it failed.
MutRecFails ==
    /\ rec.pc # "idle"
    /\ Fault
    /\ UpsertCheckpoint("error", rec.cur, rec.cur)
    /\ rec' = RecDone("still_failing")
    /\ UNCHANGED <<now, table, base>>

\* A fetch, a write or the code in between raises: _update_checkpoint_error
\* puts the snapshot's position back, whatever happened since.
RecFails ==
    /\ rec.pc # "idle"
    /\ Fault
    /\ UpsertCheckpoint("error", rec.cp.event, rec.cp.open)
    /\ rec' = RecDone("still_failing")
    /\ UNCHANGED <<now, table, base>>

RecCrash ==
    /\ rec.pc # "idle"
    /\ Fault
    /\ rec' = RecDone("none")
    /\ UNCHANGED <<now, table, checkpoint, base>>

RecLaunch == RecBegin \/ RecBeginEmpty
RecStep == RecFetch \/ RecPersist \/ RecMark
RecNext == RecLaunch \/ RecStep \/ RecFails \/ RecCrash

=============================================================================
