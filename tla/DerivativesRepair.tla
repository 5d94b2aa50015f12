----------------------------- MODULE DerivativesRepair -----------------------------
(***************************************************************************)
(* The derivatives paths of apps/run_recovery_sync.py, which replays the   *)
(* checkpoints that are in error, and of apps/run_resync_range.py, which   *)
(* fetches one data type over a range the operator gives.  Neither knows   *)
(* index prices.                                                           *)
(***************************************************************************)
EXTENDS DerivativesStore

CONSTANTS
    RecoveryMarket,   \* --market-type, by which recovery filters: the command
                      \* line takes spot and perp, a call of run_async any
    HistoricalStart,  \* config ingestion.historical_start_ts_ms, or Null
    ResyncRanges      \* pairs <<--start-ts-ms, --end-ts-ms>>

ASSUME RecoveryAssumption ==
    RecoveryMarket \in Markets /\ HistoricalStart \in Nat \cup {Null}
ASSUME ResyncRangesAssumption == ResyncRanges \subseteq Nat \X Nat

Recoverable == {"mark_price", "open_interest", "funding_rate"}

\* What the command line gives the resync as market type.
ResyncMarket == "perp"

VARIABLES
    rec, recLoop,  \* the recovery run and its paging loop
    rsyLoop        \* the paging loop of the resync, which has nothing else

repairVars == <<rec, recLoop, rsyLoop>>

RecRun == [pc   : {"idle", "run"},
           todo : SUBSET Types,                    \* error checkpoints to come
           snap : [Types -> Nat \cup {Null}],      \* their positions when listed
           end  : Nat]

RecIdle == [pc |-> "idle", todo |-> {}, snap |-> [s \in Types |-> Null], end |-> 0]

RepairTypeOK == rec \in RecRun /\ recLoop \in Loop /\ rsyLoop \in Loop

RepairInit == rec = RecIdle /\ recLoop = NoLoop /\ rsyLoop = NoLoop

-----------------------------------------------------------------------------
(* run_recovery_sync: run_async *)

ErrorCheckpoints ==
    {s \in Recoverable : ledger[RecoveryMarket][s].status = "error"}

\* list_by_status("error") and the filters; a run that finds nothing ends.
RecLaunch ==
    /\ rec.pc = "idle"
    /\ ErrorCheckpoints # {}
    /\ rec' = [pc |-> "run", todo |-> ErrorCheckpoints, end |-> now,
               snap |-> [s \in Types |-> ledger[RecoveryMarket][s].event]]
    /\ UNCHANGED <<storeVars, recLoop, rsyLoop>>

RecStart(s) == IF rec.snap[s] # Null THEN rec.snap[s] ELSE HistoricalStart

\* Open interest is given up at once when its start has left the window.
Unavailable(s) == ~InHistoryRange(s, RecStart(s), rec.end)

RecNextType ==
    /\ rec.pc = "run" /\ recLoop.pc = "next"
    /\ \E s \in rec.todo :
        /\ RecStart(s) # Null
        /\ ~Unavailable(s)
        /\ recLoop' = Enter(s, RecStart(s), rec.end)
        /\ IF RecStart(s) <= rec.end
           THEN Rebase(RecoveryMarket, s, rec.snap[s] # Null, RecStart(s))
           ELSE UNCHANGED base
        /\ rec' = [rec EXCEPT !.todo = @ \ {s}]
    /\ UNCHANGED <<now, faults, rows, ledger, rsyLoop>>

\* _update_checkpoint_error puts the listed position back.
RecError(s) == UpsertCheckpoint(RecoveryMarket, s, "error", rec.snap[s])

RecGivesUp ==
    /\ rec.pc = "run" /\ recLoop.pc = "next"
    /\ \E s \in rec.todo :
        /\ IF RecStart(s) = Null THEN UNCHANGED ledger
           ELSE Unavailable(s) /\ RecError(s)
        /\ rec' = [rec EXCEPT !.todo = @ \ {s}]
    /\ UNCHANGED <<now, faults, rows, base, recLoop, rsyLoop>>

RecReport ==
    /\ rec.pc = "run" /\ recLoop.pc = "next" /\ rec.todo = {}
    /\ rec' = RecIdle
    /\ UNCHANGED <<storeVars, recLoop, rsyLoop>>

RecFails ==
    /\ recLoop.pc # "next"
    /\ Fault
    /\ RecError(recLoop.s)
    /\ recLoop' = NoLoop
    /\ UNCHANGED <<now, rows, base, rec, rsyLoop>>

RecCrash ==
    /\ rec.pc = "run"
    /\ Fault
    /\ rec' = RecIdle
    /\ recLoop' = NoLoop
    /\ UNCHANGED <<now, rows, ledger, base, rsyLoop>>

-----------------------------------------------------------------------------
(* One iteration of a _recover_* function *)

RecFetch(s) ==
    /\ recLoop.pc = "fetch" /\ recLoop.s = s
    /\ \E page \in Answers(s, recLoop.cur, recLoop.end) :
           recLoop' = AfterFetch(recLoop, page)
    /\ UNCHANGED <<storeVars, rec, rsyLoop>>

RecPersist(s) ==
    /\ recLoop.pc = "persist" /\ recLoop.s = s
    /\ UpsertBatch(s, recLoop.page)
    /\ recLoop' = [recLoop EXCEPT !.pc = "mark"]
    /\ UNCHANGED <<now, faults, ledger, base, rec, rsyLoop>>

RecMark(s) ==
    /\ recLoop.pc = "mark" /\ recLoop.s = s
    /\ \E last \in recLoop.page :
        /\ IsLast(last, recLoop.page)
        /\ UpsertCheckpoint(RecoveryMarket, s, "ok", last)
        /\ recLoop' = AfterMark(recLoop, last)
    /\ UNCHANGED <<now, faults, rows, base, rec, rsyLoop>>

RecoverFundingRate ==
    RecFetch("funding_rate") \/ RecPersist("funding_rate") \/ RecMark("funding_rate")

RecoverMarkPrice ==
    RecFetch("mark_price") \/ RecPersist("mark_price") \/ RecMark("mark_price")

RecRefused ==
    /\ recLoop.pc = "fetch" /\ Refused(recLoop.s, recLoop.cur)
    /\ RecError(recLoop.s)
    /\ recLoop' = NoLoop
    /\ UNCHANGED <<now, faults, rows, base, rec, rsyLoop>>

RecoverOpenInterest ==
    \/ ~Refused("open_interest", recLoop.cur) /\ RecFetch("open_interest")
    \/ RecPersist("open_interest")
    \/ RecMark("open_interest")

RecStep ==
    \/ RecNextType \/ RecGivesUp \/ RecReport \/ RecRefused
    \/ RecoverFundingRate \/ RecoverMarkPrice \/ RecoverOpenInterest

-----------------------------------------------------------------------------
(* run_resync_range *)

\* Without --force a range that ends at or before the position is skipped.
RsyBegin(s, range, force) ==
    /\ rsyLoop.pc = "next"
    /\ LET position == ledger[ResyncMarket][s].event
       IN  ~force /\ position # Null => position < range[2]
    /\ InHistoryRange(s, range[1], range[2])
    /\ range[1] <= range[2]
    /\ rsyLoop' = Enter(s, range[1], range[2])
    /\ UNCHANGED <<storeVars, rec, recLoop>>

RsyFetch(s) ==
    /\ rsyLoop.pc = "fetch" /\ rsyLoop.s = s
    /\ \E page \in Answers(s, rsyLoop.cur, rsyLoop.end) :
           rsyLoop' = AfterFetch(rsyLoop, page)
    /\ UNCHANGED <<storeVars, rec, recLoop>>

RsyPersist(s) ==
    /\ rsyLoop.pc = "persist" /\ rsyLoop.s = s
    /\ UpsertBatch(s, rsyLoop.page)
    /\ rsyLoop' = [rsyLoop EXCEPT !.pc = "mark"]
    /\ UNCHANGED <<now, faults, ledger, base, rec, recLoop>>

\* Mutant: the position recorded is the end of the range.
MutRsyMark(s) ==
    /\ rsyLoop.pc = "mark" /\ rsyLoop.s = s
    /\ \E last \in rsyLoop.page :
        /\ IsLast(last, rsyLoop.page)
        /\ UpsertCheckpoint(ResyncMarket, s, "ok", rsyLoop.end)
        /\ rsyLoop' = AfterMark(rsyLoop, last)
    /\ UNCHANGED <<now, faults, rows, base, rec, recLoop>>

RsyMark(s) ==
    /\ rsyLoop.pc = "mark" /\ rsyLoop.s = s
    /\ \E last \in rsyLoop.page :
        /\ IsLast(last, rsyLoop.page)
        /\ UpsertCheckpoint(ResyncMarket, s, "ok", last)
        /\ rsyLoop' = AfterMark(rsyLoop, last)
    /\ UNCHANGED <<now, faults, rows, base, rec, recLoop>>

\* Nothing is caught: a failed call, a refused range and a kill all end the
\* command and leave no trace in the checkpoint.
RsyAborts ==
    /\ rsyLoop' = NoLoop
    /\ UNCHANGED <<now, rows, ledger, base, rec, recLoop>>

RsyFails == rsyLoop.pc # "next" /\ Fault /\ RsyAborts

RsyRefused ==
    /\ rsyLoop.pc = "fetch" /\ Refused(rsyLoop.s, rsyLoop.cur)
    /\ RsyAborts
    /\ UNCHANGED faults

ResyncFundingRate ==
    RsyFetch("funding_rate") \/ RsyPersist("funding_rate") \/ RsyMark("funding_rate")

ResyncMarkPrice ==
    RsyFetch("mark_price") \/ RsyPersist("mark_price") \/ RsyMark("mark_price")

ResyncOpenInterest ==
    \/ ~Refused("open_interest", rsyLoop.cur) /\ RsyFetch("open_interest")
    \/ RsyPersist("open_interest")
    \/ RsyMark("open_interest")

RsyLaunch ==
    \E s \in Recoverable, range \in ResyncRanges, force \in BOOLEAN :
        RsyBegin(s, range, force)

RsyStep == RsyRefused \/ ResyncFundingRate \/ ResyncMarkPrice \/ ResyncOpenInterest

=============================================================================
