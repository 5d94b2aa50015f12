------------------------------ MODULE DerivativesSync ------------------------------
(***************************************************************************)
(* apps/run_historical_derivatives_sync.py: run_sync walks through the     *)
(* data types one after another, each with a checkpoint of its own and a   *)
(* failure that stays with the data type it happened in.                   *)
(***************************************************************************)
EXTENDS DerivativesStore

CONSTANTS
    Starts, Ends,  \* values of --start-ts-ms and --end-ts-ms
    Requests       \* values of --data-types besides auto, as sequences

ASSUME RangesAssumption == Starts \subseteq Nat /\ Ends \subseteq Nat
ASSUME RequestsAssumption == Requests \subseteq Seq(Types)

VARIABLES
    hist,    \* the run: where it stands and its local variables
    loop     \* the run's paging loop

histVars == <<hist, loop>>

\* The market type the module writes into every checkpoint.
HistMarket == "usdt_perpetual"

HistRun == [pc      : {"idle", "run"},
            todo    : Seq(Types),          \* data types still to come
            start   : [Types -> Nat],      \* effective range of each data type
            end     : [Types -> Nat],
            asked   : SUBSET Types,        \* data types of this run
            began   : Nat,                 \* when it was launched
            failed  : BOOLEAN,             \* results[key] = -1 for one of them
            stalled : BOOLEAN]             \* history: a stale page was met

NoRange == [s \in Types |-> 0]

HistIdle == [pc |-> "idle", todo |-> <<>>, start |-> NoRange, end |-> NoRange,
             asked |-> {}, began |-> 0, failed |-> FALSE, stalled |-> FALSE]

HistTypeOK == hist \in HistRun /\ loop \in Loop

HistInit == hist = HistIdle /\ loop = NoLoop

-----------------------------------------------------------------------------
(* Which data types, over which ranges *)

BestEffortOrder == <<"mark_price", "index_price", "open_interest", "funding_rate">>

Later(a, b) == IF a > b THEN a ELSE b
Earlier(a, b) == IF a < b THEN a ELSE b

\* compute_open_interest_overlap: the range clipped to [Cutoff, now].
OverlapStart(start) == Later(start, Cutoff)
OverlapEnd(end) == Earlier(end, now)
Overlaps(start, end) == OverlapStart(start) <= OverlapEnd(end)

\* What is available: not open interest, when the range misses its window.
BestEffort(start, end) ==
    IF Overlaps(start, end) THEN BestEffortOrder
    ELSE <<"mark_price", "index_price", "funding_rate">>

AutoRange(start, end) ==
    [start |-> [s \in Types |-> IF s \in Windowed THEN OverlapStart(start) ELSE start],
     end   |-> [s \in Types |-> IF s \in Windowed THEN OverlapEnd(end) ELSE end]]

Launch(todo, range) ==
    /\ hist.pc = "idle"
    /\ hist' = [HistIdle EXCEPT !.pc = "run", !.todo = todo, !.began = now,
                                !.asked = {todo[i] : i \in 1..Len(todo)},
                                !.start = range.start, !.end = range.end]
    /\ UNCHANGED <<storeVars, loop>>

\* --data-types auto.
LaunchAuto(start, end) ==
    /\ start < end
    /\ Launch(BestEffort(start, end), AutoRange(start, end))

\* Data types given by name: all or an argument error.
LaunchExplicit(start, end, request) ==
    /\ start < end
    /\ \A i \in 1..Len(request) : InHistoryRange(request[i], start, end)
    /\ Launch(request, [start |-> [s \in Types |-> start],
                        end   |-> [s \in Types |-> end]])

-----------------------------------------------------------------------------
(* run_sync *)

Position(s) == ledger[HistMarket][s].event

\* A position is resumed from when it lies beyond the requested start.
Resumes(s, start) == Position(s) # Null /\ Position(s) + 1 >= start

ResumePoint(s, start) == IF Resumes(s, start) THEN Position(s) + 1 ELSE start

\* Next data type: its checkpoint is read now, and the loop entered unless
\* there is nothing to sync.
NextType ==
    /\ hist.pc = "run" /\ loop.pc = "next" /\ hist.todo # <<>>
    /\ LET s == Head(hist.todo)
           from == ResumePoint(s, hist.start[s])
       IN  /\ loop' = Enter(s, from, hist.end[s])
           /\ IF from <= hist.end[s]
              THEN Rebase(HistMarket, s, Resumes(s, hist.start[s]), hist.start[s])
              ELSE UNCHANGED base
    /\ hist' = [hist EXCEPT !.todo = Tail(@)]
    /\ UNCHANGED <<now, faults, rows, ledger>>

\* The report: exit code SUCCESS unless a data type failed.
Report ==
    /\ hist.pc = "run" /\ loop.pc = "next" /\ hist.todo = <<>>
    /\ hist' = HistIdle
    /\ UNCHANGED <<storeVars, loop>>

\* Mutant: the failure does not reach the report.
MutRecordError ==
    /\ UpsertCheckpoint(HistMarket, loop.s, "error", Null)
    /\ loop' = NoLoop
    /\ UNCHANGED <<now, rows, base, hist>>

\* Whatever is raised inside the loop: the position is not given, so the row
\* loses it, and the run goes on with the next data type.
RecordError ==
    /\ UpsertCheckpoint(HistMarket, loop.s, "error", Null)
    /\ hist' = [hist EXCEPT !.failed = TRUE]
    /\ loop' = NoLoop
    /\ UNCHANGED <<now, rows, base>>

HistFails ==
    /\ hist.pc = "run" /\ loop.pc # "next"
    /\ Fault
    /\ RecordError

\* The process is killed, or the checkpoint write of RecordError raises.
HistCrash ==
    /\ hist.pc = "run"
    /\ Fault
    /\ hist' = HistIdle
    /\ loop' = NoLoop
    /\ UNCHANGED <<now, rows, ledger, base>>

-----------------------------------------------------------------------------
(* One iteration of a _sync_* function *)

Fetch(s) ==
    /\ loop.pc = "fetch" /\ loop.s = s
    /\ \E page \in Answers(s, loop.cur, loop.end) : loop' = AfterFetch(loop, page)
    /\ UNCHANGED <<storeVars, hist>>

Persist(s) ==
    /\ loop.pc = "persist" /\ loop.s = s
    /\ UpsertBatch(s, loop.page)
    /\ loop' = [loop EXCEPT !.pc = "mark"]
    /\ UNCHANGED <<now, faults, ledger, base, hist>>

\* Mutant: the position recorded is the end of the range.
MutMark(s) ==
    /\ loop.pc = "mark" /\ loop.s = s
    /\ \E last \in loop.page :
        /\ IsLast(last, loop.page)
        /\ UpsertCheckpoint(HistMarket, s, "ok", loop.end)
        /\ loop' = AfterMark(loop, last)
        /\ hist' = [hist EXCEPT !.stalled = @ \/ Stalled(loop, last)]
    /\ UNCHANGED <<now, faults, rows, base>>

\* The position and the next start come from the last record, valid or not.
Mark(s) ==
    /\ loop.pc = "mark" /\ loop.s = s
    /\ \E last \in loop.page :
        /\ IsLast(last, loop.page)
        /\ UpsertCheckpoint(HistMarket, s, "ok", last)
        /\ loop' = AfterMark(loop, last)
        /\ hist' = [hist EXCEPT !.stalled = @ \/ Stalled(loop, last)]
    /\ UNCHANGED <<now, faults, rows, base>>

SyncFundingRate == Fetch("funding_rate") \/ Persist("funding_rate") \/ Mark("funding_rate")
SyncMarkPrice == Fetch("mark_price") \/ Persist("mark_price") \/ Mark("mark_price")
SyncIndexPrice == Fetch("index_price") \/ Persist("index_price") \/ Mark("index_price")

\* The window has moved on since the range was checked or clipped.
OpenInterestRefused ==
    /\ loop.pc = "fetch" /\ Refused(loop.s, loop.cur)
    /\ RecordError
    /\ UNCHANGED faults

SyncOpenInterest ==
    \/ ~Refused("open_interest", loop.cur) /\ Fetch("open_interest")
    \/ Persist("open_interest")
    \/ Mark("open_interest")

HistLaunch ==
    \E start \in Starts, end \in Ends :
        \/ LaunchAuto(start, end)
        \/ \E request \in Requests : LaunchExplicit(start, end, request)

HistStep ==
    \/ NextType \/ Report \/ OpenInterestRefused
    \/ SyncFundingRate \/ SyncMarkPrice \/ SyncIndexPrice \/ SyncOpenInterest

=============================================================================
