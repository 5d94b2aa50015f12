------------------------------ MODULE KlineStore ------------------------------
(***************************************************************************)
(* The state one kline stream (venue, market type, symbol, interval)       *)
(* shares between the processes that fill it: the exchange's bars as time  *)
(* passes, the rows of spot_klines / perp_klines, and the stream's row of  *)
(* ingest_checkpoints.  The processes themselves are modules that extend   *)
(* this one; each runs in an operating-system process of its own, and      *)
(* meets the others only here.                                             *)
(*                                                                         *)
(* A bar is named by its open timestamp.  A bar that opened but has not    *)
(* closed is served by the REST endpoint too, as a snapshot in progress.   *)
(***************************************************************************)
EXTENDS Integers, FiniteSets

CONSTANTS
    Bars,          \* open timestamps of the stream's bars
    Interval,      \* bar duration
    RejectedBars,  \* bars validate_kline finds invalid and cannot repair
    Limit,         \* BATCH_LIMITS[market_type]: rows of one REST page
    MaxTime,       \* bound on the clock
    MaxFaults,     \* bound on failed fetches, failed writes and crashes
    Null           \* SQL NULL

ASSUME BarsAssumption == Bars \subseteq Nat /\ IsFiniteSet(Bars)
ASSUME IntervalAssumption == Interval \in Nat \ {0}
ASSUME LimitAssumption == Limit \in Nat \ {0}
ASSUME BoundsAssumption == MaxTime \in Nat /\ MaxFaults \in Nat
ASSUME NullAssumption == Null \notin Nat

VARIABLES
    now,         \* the exchange's clock
    faults,      \* failures so far, for the bound MaxFaults
    table,       \* table[b]: what the kline table holds for bar b
    checkpoint,  \* the stream's ingest_checkpoints row
    base         \* history: where the range the checkpoint stands for begins

storeVars == <<now, faults, table, checkpoint, base>>

Timestamp == Nat \cup {Null}

\* status "none": the row does not exist yet
Checkpoint == [status : {"none", "ok", "error"},
               event  : Timestamp,    \* last_event_ts_ms
               open   : Timestamp]    \* last_kline_open_ts_ms

StoreTypeOK ==
    /\ now \in Nat
    /\ faults \in Nat
    /\ table \in [Bars -> {"absent", "partial", "final"}]
    /\ checkpoint \in Checkpoint
    /\ base \in Nat

StoreInit ==
    /\ now = 0
    /\ faults = 0
    /\ table = [b \in Bars |-> "absent"]
    /\ checkpoint = [status |-> "none", event |-> Null, open |-> Null]
    /\ base = 0

-----------------------------------------------------------------------------
(* The exchange *)

CloseOf(b) == b + Interval - 1
IsClosed(b, t) == CloseOf(b) < t

\* What a REST answer given at time t holds for bar b.
Content(b, t) == IF IsClosed(b, t) THEN "final" ELSE "partial"

Available(from, to, t) == {b \in Bars : from <= b /\ b <= to /\ b <= t}

\* One page of /klines: the first Limit bars of the range, oldest first.
FetchKlines(from, to, t) ==
    LET avail == Available(from, to, t)
    IN  {b \in avail : Cardinality({c \in avail : c < b}) < Limit}

IsLast(b, page) == b \in page /\ \A c \in page : c <= b

Tick ==
    /\ now < MaxTime
    /\ now' = now + 1
    /\ UNCHANGED <<faults, table, checkpoint, base>>

-----------------------------------------------------------------------------
(* The database *)

Accepted(page) == page \ RejectedBars

\* Mutant: the batch replaces what the table holds.
MutUpsertBatch(page, t) ==
    table' = [b \in Bars |-> IF b \in Accepted(page) THEN Content(b, t)
                                                     ELSE "absent"]

\* Rows holding bar content as served at time t, inserted or overwritten.
UpsertBatch(page, t) ==
    table' = [b \in Bars |-> IF b \in Accepted(page) THEN Content(b, t)
                                                     ELSE table[b]]

\* Every column is overwritten, so a position left out becomes NULL.
UpsertCheckpoint(status, event, open) ==
    checkpoint' = [status |-> status, event |-> event, open |-> open]

Fault ==
    /\ faults < MaxFaults
    /\ faults' = faults + 1

\* The history variable: a run that does not resume from a position starts a
\* new contiguous range, one that does extends the range there was.
Rebase(resumes, start) == base' = IF resumes THEN base ELSE start

-----------------------------------------------------------------------------
(* Vocabulary of the properties *)

Stored(b) == table[b] # "absent"

\* Every acceptable bar of [from, to) has a row.
Covered(from, to) ==
    \A b \in Bars \ RejectedBars : from <= b /\ b < to => Stored(b)

=============================================================================
