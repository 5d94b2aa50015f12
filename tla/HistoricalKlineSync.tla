-------------------------- MODULE HistoricalKlineSync --------------------------
(***************************************************************************)
(* apps/run_historical_klines_sync.py: one run of _sync_symbol_interval    *)
(* after another, each in a process of its own.  A run reads the           *)
(* checkpoint once, then pages through its range; every page is a fetch    *)
(* (an await on the network), a transaction that upserts the rows, and a   *)
(* second transaction that moves the checkpoint.  The run can be killed    *)
(* between any two of them.                                                *)
(***************************************************************************)
EXTENDS KlineStore

CONSTANTS
    Starts,  \* values of --start-ts-ms (or of historical_start_ts_ms)
    Ends,    \* values of --end-ts-ms, besides its default, the current time
    Modes    \* "write", and "dry" when the operator uses --dry-run

ASSUME RangesAssumption == Starts \subseteq Nat /\ Ends \subseteq Nat
ASSUME ModesAssumption == Modes \subseteq {"write", "dry"}

VARIABLE hist    \* the run: where it stands and its local variables

histVars == <<storeVars, hist>>

HistRun == [pc   : {"idle", "fetch", "persist", "mark"},
            mode : {"write", "dry"},   \* --dry-run
            cur  : Nat,                \* current_start
            end  : Nat,                \* end_ts_ms
            page : SUBSET Bars,        \* raw_klines
            asof : Nat]                \* when the exchange answered

HistIdle == [pc |-> "idle", mode |-> "write", cur |-> 0, end |-> 0,
             page |-> {}, asof |-> 0]

HistTypeOK == StoreTypeOK /\ hist \in HistRun

HistInit == StoreInit /\ hist = HistIdle

-----------------------------------------------------------------------------

HistPosition == checkpoint.open

\* The checkpoint overrides an earlier start; a later start overrides it.
HistResumes(start) == HistPosition # Null /\ start <= HistPosition + 1
\* Mutant: the run does not resume.
MutHistStartPoint(start) == start

HistStartPoint(start) ==
    IF HistResumes(start) THEN HistPosition + 1 ELSE start

HistBegin(start, end, mode) ==
    /\ hist.pc = "idle"
    /\ HistStartPoint(start) <= end
    /\ hist' = [HistIdle EXCEPT !.pc = "fetch", !.mode = mode,
                                !.cur = HistStartPoint(start), !.end = end]
    /\ IF mode = "write" THEN Rebase(HistResumes(start), start)
                         ELSE UNCHANGED base
    /\ UNCHANGED <<now, faults, table, checkpoint>>

\* Mutant: an empty page is asked for again.
MutHistFetch ==
    /\ hist.pc = "fetch"
    /\ LET page == FetchKlines(hist.cur, hist.end, now)
       IN  hist' = IF page = {} THEN hist
                   ELSE [hist EXCEPT !.pc = "persist", !.page = page,
                                     !.asof = now]
    /\ UNCHANGED storeVars

HistFetch ==
    /\ hist.pc = "fetch"
    /\ LET page == FetchKlines(hist.cur, hist.end, now)
       IN  hist' = IF page = {} THEN HistIdle
                   ELSE [hist EXCEPT !.pc = "persist", !.page = page,
                                     !.asof = now]
    /\ UNCHANGED storeVars

\* The error row is written in a dry run too, and always without a position.
HistErrorCheckpoint == UpsertCheckpoint("error", Null, Null)

HistFetchFails ==
    /\ hist.pc = "fetch"
    /\ Fault
    /\ HistErrorCheckpoint
    /\ hist' = HistIdle
    /\ UNCHANGED <<now, table, base>>

\* Mutant: the bar in progress is left out of the rows, not of the position.
MutHistPersist ==
    /\ hist.pc = "persist"
    /\ IF hist.mode = "write"
       THEN UpsertBatch({b \in hist.page : IsClosed(b, hist.asof)}, hist.asof)
       ELSE UNCHANGED table
    /\ hist' = [hist EXCEPT !.pc = "mark"]
    /\ UNCHANGED <<now, faults, checkpoint, base>>

HistPersist ==
    /\ hist.pc = "persist"
    /\ IF hist.mode = "write" THEN UpsertBatch(hist.page, hist.asof)
                              ELSE UNCHANGED table
    /\ hist' = [hist EXCEPT !.pc = "mark"]
    /\ UNCHANGED <<now, faults, checkpoint, base>>

HistPersistFails ==
    /\ hist.pc = "persist"
    /\ hist.mode = "write" /\ Accepted(hist.page) # {}
    /\ Fault
    /\ HistErrorCheckpoint
    /\ hist' = HistIdle
    /\ UNCHANGED <<now, table, base>>

\* Mutant: the position recorded is the end of the range.
MutHistMark ==
    /\ hist.pc = "mark"
    /\ \E last \in hist.page :
        /\ IsLast(last, hist.page)
        /\ IF hist.mode = "write" THEN UpsertCheckpoint("ok", hist.end, hist.end)
                                  ELSE UNCHANGED checkpoint
        /\ hist' = IF Cardinality(hist.page) < Limit \/ hist.end < last + 1
                   THEN HistIdle
                   ELSE [hist EXCEPT !.pc = "fetch", !.cur = last + 1,
                                     !.page = {}, !.asof = 0]
    /\ UNCHANGED <<now, faults, table, base>>

\* The rest of the loop's body: the position moves to the page's last bar,
\* rejected or not, and so does the next page's start.
HistMark ==
    /\ hist.pc = "mark"
    /\ \E last \in hist.page :
        /\ IsLast(last, hist.page)
        /\ IF hist.mode = "write" THEN UpsertCheckpoint("ok", last, last)
                                  ELSE UNCHANGED checkpoint
        /\ hist' = IF Cardinality(hist.page) < Limit \/ hist.end < last + 1
                   THEN HistIdle
                   ELSE [hist EXCEPT !.pc = "fetch", !.cur = last + 1,
                                     !.page = {}, !.asof = 0]
    /\ UNCHANGED <<now, faults, table, base>>

\* The process is killed, or an exception no handler of the run turns into a
\* checkpoint ends it: a malformed row, a checkpoint write that fails.
HistCrash ==
    /\ hist.pc # "idle"
    /\ Fault
    /\ hist' = HistIdle
    /\ UNCHANGED <<now, table, checkpoint, base>>

HistStep == HistFetch \/ HistPersist \/ HistMark
HistFails == HistFetchFails \/ HistPersistFails \/ HistCrash

HistLaunch == \E start \in Starts, end \in Ends \cup {now}, mode \in Modes :
                 HistBegin(start, end, mode)

HistNext == HistLaunch \/ HistStep \/ HistFails

\* The stream with historical runs as its only writer.
HistAloneNext ==
    \/ HistNext
    \/ Tick /\ UNCHANGED hist

HistSpec == HistInit /\ [][HistAloneNext]_histVars

\* A run that is not killed goes on: its event loop has nothing else to run.
HistFairSpec == HistSpec /\ WF_histVars(HistStep)

\* An operator who relaunches the sync from the same start for as long as
\* something is left to fetch, on a clock that advances.
Relaunched ==
    /\ SF_histVars(\E start \in Starts : HistBegin(start, now, "write"))
    /\ WF_histVars(Tick /\ UNCHANGED hist)

-----------------------------------------------------------------------------
(* The abstract specification, as implemented by the store *)

StoredBars == {b \in Bars : Stored(b)}

Prefix == INSTANCE KlinePrefix
              WITH stored <- StoredBars, from <- base, mark <- checkpoint.open

\* The sync keeps the promise of KlinePrefix, whatever fails or is killed.
PrefixKept == Prefix!Spec

-----------------------------------------------------------------------------
(* Properties *)

\* The checkpoint of _sync_symbol_interval is safe to resume from: whatever
\* failed or was killed in between, each acceptable bar from the start of the
\* range up to the recorded position has a row, so resuming at position + 1
\* skips nothing.
GaplessPrefix ==
    checkpoint.open # Null => Covered(base, checkpoint.open + 1)

\* While sync and recovery take turns a row taken from a closed bar is never
\* replaced by an in-progress snapshot of it: upsert_batch overwrites
\* unconditionally, and only the order of the fetches protects the row.
FinalRowsStay ==
    [][\A b \in Bars : table[b] = "final" => table'[b] = "final"]_table

\* The position moves back in one way only: to NULL, with status error.
PositionAdvances ==
    [][checkpoint.open # Null /\ checkpoint'.open # checkpoint.open =>
          \/ checkpoint'.status = "error" /\ checkpoint'.open = Null
          \/ checkpoint'.open # Null /\ checkpoint'.open > checkpoint.open]_checkpoint

\* A failed or killed run leaves nothing behind that later runs do not repair:
\* relaunched often enough, the sync stores every acceptable closed bar.
AllClosedBarsStored ==
    Relaunched => \A b \in Bars \ RejectedBars :
                      IsClosed(b, now) /\ (\A s \in Starts : s <= b) ~> Stored(b)

\* The paging loop of a run ends.
RunsEnd == hist.pc # "idle" ~> hist.pc = "idle"

\* The inductive invariant behind the three properties above: what the local
\* variables of the run in progress stand for.
ResumePointCovered ==
    hist.pc # "idle" /\ hist.mode = "write" => Covered(base, hist.cur)

PageIsContiguous ==
    hist.pc \in {"persist", "mark"} =>
        /\ \A c \in hist.page : hist.cur <= c
        /\ \A c \in hist.page, b \in Bars :
               hist.cur <= b /\ b <= c => b \in hist.page

MarkedPageIsStored ==
    hist.pc = "mark" /\ hist.mode = "write" =>
        \A b \in Accepted(hist.page) : Stored(b)

PositionIsBehindTheRun ==
    hist.pc # "idle" /\ hist.mode = "write" /\ checkpoint.open # Null =>
        checkpoint.open < hist.cur

FinalRowsAreClosed ==
    /\ hist.asof <= now
    /\ \A b \in Bars : table[b] = "final" => IsClosed(b, now)
    /\ hist.pc = "persist" =>
          \A b \in hist.page : table[b] = "final" => IsClosed(b, hist.asof)

HistInv ==
    /\ HistTypeOK
    /\ GaplessPrefix
    /\ ResumePointCovered
    /\ PageIsContiguous
    /\ MarkedPageIsStored
    /\ PositionIsBehindTheRun
    /\ FinalRowsAreClosed

=============================================================================
