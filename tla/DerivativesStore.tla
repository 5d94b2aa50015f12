----------------------------- MODULE DerivativesStore -----------------------------
(***************************************************************************)
(* What the derivatives commands of one symbol share: the exchange's       *)
(* history of each data type as time passes, the rows of the perp_* tables *)
(* and the rows of ingest_checkpoints, and the paging loop that every      *)
(* command runs over a data type.  A record is named by its timestamp.     *)
(***************************************************************************)
EXTENDS Integers, FiniteSets, Sequences

CONSTANTS
    Events,    \* Events[s]: timestamps of data type s at the exchange
    Rejected,  \* Rejected[s]: the ones its validator finds invalid
    Limit,     \* rows of one REST page
    Window,    \* how far back open interest is served
    MaxTime,   \* bound on the clock
    MaxFaults, \* bound on failed calls and killed processes
    Null       \* SQL NULL

Types == {"mark_price", "index_price", "open_interest", "funding_rate"}
Windowed == {"open_interest"}

\* The historical sync writes its checkpoints under the first; the command line
\* of the other two commands takes the second and the third.
Markets == {"usdt_perpetual", "spot", "perp"}

ASSUME EventsAssumption ==
    /\ Events \in [Types -> SUBSET Nat]
    /\ \A s \in Types : IsFiniteSet(Events[s])
ASSUME RejectedAssumption == Rejected \in [Types -> SUBSET Nat]
ASSUME LimitAssumption == Limit \in Nat \ {0}
ASSUME BoundsAssumption == Window \in Nat /\ MaxTime \in Nat /\ MaxFaults \in Nat
ASSUME NullAssumption == Null \notin Nat

VARIABLES
    now,     \* the clock
    faults,  \* failures so far, for the bound MaxFaults
    rows,    \* rows[s]: the timestamps the table of s has a row for
    ledger,  \* ledger[m][s]: the ingest_checkpoints row of s under market m
    base     \* history: where the range that ledger[m][s] stands for begins

storeVars == <<now, faults, rows, ledger, base>>

Checkpoint == [status : {"none", "ok", "error"}, event : Nat \cup {Null}]
NoCheckpoint == [status |-> "none", event |-> Null]

StoreTypeOK ==
    /\ now \in Nat
    /\ faults \in Nat
    /\ rows \in [Types -> SUBSET Nat]
    /\ ledger \in [Markets -> [Types -> Checkpoint]]
    /\ base \in [Markets -> [Types -> Nat]]

StoreInit ==
    /\ now = 0
    /\ faults = 0
    /\ rows = [s \in Types |-> {}]
    /\ ledger = [m \in Markets |-> [s \in Types |-> NoCheckpoint]]
    /\ base = [m \in Markets |-> [s \in Types |-> 0]]

Tick ==
    /\ now < MaxTime
    /\ now' = now + 1
    /\ UNCHANGED <<faults, rows, ledger, base>>

Fault ==
    /\ faults < MaxFaults
    /\ faults' = faults + 1

-----------------------------------------------------------------------------
(* The exchange *)

\* The oldest moment open interest is served for.
Cutoff == now - Window

\* HTTP 400: "Binance only exposes the latest 1 month".
Refused(s, from) == s \in Windowed /\ from < Cutoff

\* The first Limit records of the range, oldest first.
FirstPage(s, from, to) ==
    LET avail == {e \in Events[s] : from <= e /\ e <= to /\ e <= now}
    IN  {e \in avail : Cardinality({d \in avail : d < e}) < Limit}

\* "Guard against stale pagination": the loops expect that the exchange may
\* also answer with a record from before the start it was given.
StalePages(s, from) ==
    {{e} : e \in {e \in Events[s] : e < from /\ e <= now
                     /\ \A d \in Events[s] : d < from => d <= e}}

Answers(s, from, to) == {FirstPage(s, from, to)} \cup StalePages(s, from)

\* validate_open_interest_history_range
InHistoryRange(s, from, to) == s \in Windowed => from >= Cutoff /\ to >= Cutoff

-----------------------------------------------------------------------------
(* The database *)

Accepted(s, page) == page \ Rejected[s]

UpsertBatch(s, page) == rows' = [rows EXCEPT ![s] = @ \cup Accepted(s, page)]

\* Every column is overwritten, so a position left out becomes NULL.
UpsertCheckpoint(m, s, status, event) ==
    ledger' = [ledger EXCEPT ![m][s] = [status |-> status, event |-> event]]

\* The history variable: a loop that begins at from extends the range the
\* checkpoint stood for when it continues it, and is a new one otherwise.
Rebase(m, s, continues, from) ==
    base' = [base EXCEPT ![m][s] = IF continues THEN @ ELSE from]

-----------------------------------------------------------------------------
(* The paging loop over one data type, as the local variables of a run *)

Loop == [pc   : {"next", "fetch", "persist", "mark"}, \* "next": not in a loop
         s    : Types,                                 \* the data type
         cur  : Nat,                                   \* current_start
         end  : Nat,                                   \* end_ts_ms
         page : SUBSET Nat]                            \* raw_batch

NoLoop == [pc |-> "next", s |-> "mark_price", cur |-> 0, end |-> 0, page |-> {}]

Enter(s, from, to) ==
    IF from > to THEN NoLoop
    ELSE [NoLoop EXCEPT !.pc = "fetch", !.s = s, !.cur = from, !.end = to]

AfterFetch(loop, page) ==
    IF page = {} THEN NoLoop ELSE [loop EXCEPT !.pc = "persist", !.page = page]

IsLast(last, page) == last \in page /\ \A e \in page : e <= last

\* Mutant: a page from before the start is not noticed.
MutStalled(loop, last) == FALSE

Stalled(loop, last) == last + 1 <= loop.cur

AfterMark(loop, last) ==
    IF Stalled(loop, last) \/ last + 1 > loop.end THEN NoLoop
    ELSE [loop EXCEPT !.pc = "fetch", !.cur = last + 1, !.page = {}]

-----------------------------------------------------------------------------
(* Vocabulary of the properties *)

\* Every acceptable record of [from, to) has a row.
Covered(s, from, to) ==
    \A e \in Events[s] \ Rejected[s] : from <= e /\ e < to => e \in rows[s]

=============================================================================
