------------------------------ MODULE KlinePipeline ------------------------------
(***************************************************************************)
(* The four writers of a kline stream together: the historical sync, the   *)
(* realtime handler, the recovery sync and the range resync.  They share   *)
(* no lock; each reads and overwrites the same table rows and the same     *)
(* checkpoint row in transactions of its own.                              *)
(***************************************************************************)
EXTENDS HistoricalKlineSync, RealtimeKline, RecoverySync, ResyncRange

CONSTANTS
    Writers,  \* the writers that are deployed
    Serial    \* TRUE: the operator starts a batch command when none is running

ASSUME WritersAssumption == Writers \subseteq {"hist", "rt", "rec", "rsy"}
ASSUME SerialAssumption == Serial \in BOOLEAN

vars == <<storeVars, hist, rtVars, rec, rsy>>

TypeOK == HistTypeOK /\ RtTypeOK /\ RecTypeOK /\ RsyTypeOK

Init == HistInit /\ RtInit /\ RecInit /\ RsyInit

MayLaunch ==
    Serial => hist.pc = "idle" /\ rec.pc = "idle" /\ rsy.pc = "idle"

Historical ==
    /\ "hist" \in Writers
    /\ (HistLaunch /\ MayLaunch) \/ HistStep \/ HistFails
    /\ UNCHANGED <<rtVars, rec, rsy>>

Realtime ==
    /\ "rt" \in Writers
    /\ RtNext
    /\ UNCHANGED <<hist, rec, rsy>>

Recovery ==
    /\ "rec" \in Writers
    /\ (RecLaunch /\ MayLaunch) \/ RecStep \/ RecFails \/ RecCrash
    /\ UNCHANGED <<hist, rtVars, rsy>>

Resync ==
    /\ "rsy" \in Writers
    /\ (RsyLaunch /\ MayLaunch) \/ RsyStep \/ RsyFetchFails \/ RsyCrash
    /\ UNCHANGED <<hist, rtVars, rec>>

Clock == Tick /\ UNCHANGED <<hist, rtVars, rec, rsy>>

Next == Historical \/ Realtime \/ Recovery \/ Resync \/ Clock

Spec == Init /\ [][Next]_vars

\* A batch command that is not killed goes on.
StepsFair ==
    /\ WF_vars(HistStep /\ UNCHANGED <<rtVars, rec, rsy>>)
    /\ WF_vars(RecStep /\ UNCHANGED <<hist, rtVars, rsy>>)
    /\ WF_vars(RsyStep /\ UNCHANGED <<hist, rtVars, rec>>)

FairSpec == Spec /\ StepsFair

\* Recovery is launched again and again while time passes.
RecoveryRelaunched ==
    /\ FairSpec
    /\ WF_vars(Clock)
    /\ SF_vars(RecLaunch /\ MayLaunch /\ UNCHANGED <<hist, rtVars, rsy>>)

-----------------------------------------------------------------------------
(* Properties *)

\* No interleaving or crash lets a checkpoint name a bar whose row was not
\* written before it: each writer commits the rows first.
PositionIsStored ==
    checkpoint.open # Null =>
        /\ checkpoint.open \in Bars
        /\ checkpoint.open \in RejectedBars \/ Stored(checkpoint.open)

\* Both position columns come from one writer's view of one bar: NULL
\* together, or a bar's open timestamp beside its open or close timestamp.
EventBelongsToPosition ==
    IF checkpoint.open = Null THEN checkpoint.event = Null
    ELSE checkpoint.event \in {checkpoint.open, CloseOf(checkpoint.open)}

\* What recovery has to work with: the writers that set status error clear
\* the position, and recovery only ever puts back what it read from such a
\* row, so an error row never has a position, whichever writers race.
ErrorForgetsPosition ==
    checkpoint.status = "error" => checkpoint.event = Null /\ checkpoint.open = Null

\* The checkpoint row as a whole, with the type invariant.
CheckpointInv == TypeOK /\ EventBelongsToPosition /\ ErrorForgetsPosition

\* Every batch command ends whatever the other writers do meanwhile.
CommandsEnd ==
    /\ hist.pc # "idle" ~> hist.pc = "idle"
    /\ rec.pc # "idle" ~> rec.pc = "idle"
    /\ rsy.pc # "idle" ~> rsy.pc = "idle"

\* A failed checkpoint is eventually made good by recovery runs.
RecoveryClearsErrors == checkpoint.status = "error" ~> checkpoint.status = "ok"

=============================================================================
