--------------------------- MODULE DerivativesPipeline ---------------------------
(***************************************************************************)
(* The three writers of the derivatives tables together.  The historical   *)
(* sync writes its checkpoints under usdt_perpetual.  The recovery reads   *)
(* and writes those of RecoveryMarket: the same rows when run_async is     *)
(* called with that name, as tests/test_recovery_sync.py does, and others  *)
(* for every name the command line accepts.  An operator runs one of the   *)
(* two at a time.  The resync shares the tables, and keeps checkpoint rows *)
(* of its own; it may run beside the others.                               *)
(***************************************************************************)
EXTENDS DerivativesSync, DerivativesRepair

CONSTANT Beside  \* TRUE: a resync may run while another command does

ASSUME BesideAssumption == Beside \in BOOLEAN

vars == <<storeVars, histVars, repairVars>>

TypeOK == StoreTypeOK /\ HistTypeOK /\ RepairTypeOK

Init == StoreInit /\ HistInit /\ RepairInit

MayLaunch ==
    /\ hist.pc = "idle" /\ rec.pc = "idle"
    /\ Beside \/ rsyLoop.pc = "next"

MayResync == Beside \/ (hist.pc = "idle" /\ rec.pc = "idle")

Historical ==
    /\ (MayLaunch /\ HistLaunch) \/ HistStep \/ HistFails \/ HistCrash
    /\ UNCHANGED repairVars

Recovery ==
    /\ (MayLaunch /\ RecLaunch) \/ RecStep \/ RecFails \/ RecCrash
    /\ UNCHANGED histVars

Resync ==
    /\ (MayResync /\ RsyLaunch) \/ RsyStep \/ RsyFails
    /\ UNCHANGED histVars

Clock == Tick /\ UNCHANGED <<histVars, repairVars>>

Next == Historical \/ Recovery \/ Resync \/ Clock

Spec == Init /\ [][Next]_vars

\* A command that is not killed goes on: its event loop has nothing else to run.
FairSpec ==
    /\ Spec
    /\ WF_vars(HistStep /\ UNCHANGED repairVars)
    /\ WF_vars(RecStep /\ UNCHANGED histVars)
    /\ WF_vars(RsyStep /\ UNCHANGED histVars)

\* Recovery is launched again and again while time passes.
RecoveryRelaunched ==
    /\ FairSpec
    /\ WF_vars(Clock)
    /\ SF_vars(MayLaunch /\ RecLaunch /\ UNCHANGED histVars)

-----------------------------------------------------------------------------
(* Properties *)

\* A derivatives checkpoint is safe to resume from: whatever failed, stalled or
\* was killed, each acceptable record from the start of the range up to the
\* position has a row, although a failure in one data type does not stop the
\* others and recovery starts from a point of its own.
GaplessPrefix ==
    \A s \in Types :
        LET position == ledger[HistMarket][s].event
        IN  position # Null => Covered(s, base[HistMarket][s], position + 1)

\* Every checkpoint row, the resync's too, names a record whose row was
\* committed first, or one the validator rejected.
PositionIsStored ==
    \A m \in Markets, s \in Types :
        LET position == ledger[m][s].event
        IN  position # Null =>
                position \in Events[s] /\ (position \in Rejected[s] \/ position \in rows[s])

\* That, and the type invariant.
RecordedInv == TypeOK /\ PositionIsStored

\* A historical run that reports success, and met no stale page, left nothing
\* behind: what was available when it was launched has a row, for each of its
\* data types, from the requested start (or from the range the checkpoint
\* stands for, when that begins later).
SuccessMeansStored ==
    hist.pc = "run" /\ loop.pc = "next" /\ hist.todo = <<>> /\ ~hist.failed /\ ~hist.stalled =>
        \A s \in hist.asked :
            Covered(s, Later(hist.start[s], base[HistMarket][s]),
                       Earlier(hist.end[s], hist.began) + 1)

\* The paging loops end, even when the exchange answers with records from
\* before the start it was given.
CommandsEnd ==
    /\ hist.pc = "run" ~> hist.pc = "idle"
    /\ rec.pc = "run" ~> rec.pc = "idle"
    /\ rsyLoop.pc # "next" ~> rsyLoop.pc = "next"

\* What the README says of recovery: it reads the checkpoints, finds what failed
\* and fetches it.  Launched again and again it should make good every failure
\* of a data type it knows and the exchange still serves.  With a market type
\* the command line accepts it does not: no checkpoint of the sync has that name.
RecoveryClearsErrors ==
    \A s \in Recoverable \ Windowed :
        ledger[HistMarket][s].status = "error" ~> ledger[HistMarket][s].status = "ok"

=============================================================================
