------------------------------- MODULE FlushWorker -------------------------------
(***************************************************************************)
(* persistence/flush_worker.py and the realtime handlers that feed it.     *)
(* The handlers write the newest value of a redis_first key to Redis only; *)
(* once per interval the worker reads what it finds there, upserts it into *)
(* MySQL on a thread, and gives the keys a new expiry.                     *)
(*                                                                         *)
(* Time is counted in flush intervals: one Tick per boundary.  Of a value  *)
(* the model keeps whether it is in MySQL, and for how many more           *)
(* boundaries Redis keeps it.                                              *)
(***************************************************************************)
EXTENDS Integers, Sequences, FiniteSets

CONSTANTS
    Types,           \* the redis_first data types, in the order of _handlers
    Upserts,         \* Upserts[t]: the keys of each upsert call of type t, in order
    Messages,        \* the key sets that one derivatives message writes
    DepthKeys,       \* the keys that the depth handler writes
    BrokenTypes,     \* types whose upserts always fail
    DefaultTtl,      \* cache.ttl_seconds, in intervals
    Retention,       \* redis_retention_after_flush_seconds, in intervals
    MaxFaults        \* bound: failures, late flushes, stops and missed boundaries

KeysOf(t) == UNION {Upserts[t][c] : c \in DOMAIN Upserts[t]}
TypeSet == {Types[i] : i \in DOMAIN Types}
Keys == UNION {KeysOf(t) : t \in TypeSet}
BrokenKeys == UNION {KeysOf(t) : t \in BrokenTypes}

\* Each data type has a handler of its own, each key one data type.
ASSUME TypesAssumption ==
    /\ Types \in Seq(TypeSet) /\ Types # <<>>
    /\ \A t \in TypeSet : Upserts[t] \in Seq(SUBSET KeysOf(t))
    /\ \A i, j \in DOMAIN Types : i # j => KeysOf(Types[i]) \cap KeysOf(Types[j]) = {}
    /\ BrokenTypes \subseteq TypeSet /\ DepthKeys \subseteq Keys
    /\ Messages \subseteq SUBSET Keys

\* cache.ttl_seconds is not shorter than the retention (300 and 120 as shipped).
ASSUME TtlAssumption ==
    Retention \in Nat /\ DefaultTtl \in Nat /\ Retention <= DefaultTtl

ASSUME FlushAssumption == MaxFaults \in Nat

VARIABLES
    redis,   \* per key: whether it is there, its TTL, whether its value is in MySQL
    worker,  \* where the loop stands, its type, its upsert call, the keys it
             \* scanned, and those of them not rewritten since
    due,     \* a boundary has passed and its flush has not begun
    faults,
    lost     \* keys a value of which left Redis without reaching MySQL

vars == <<redis, worker, due, faults, lost>>

Entry == [here : BOOLEAN, ttl : 0..DefaultTtl, stored : BOOLEAN]
Absent == [here |-> FALSE, ttl |-> 0, stored |-> FALSE]

PCs == {"down", "sleep", "scan", "upsert", "resume", "draining", "stopping"}
Calls(t) == 1..Len(Upserts[t])

FlTypeOK ==
    /\ redis \in [Keys -> Entry]
    /\ worker \in [pc : PCs, type : DOMAIN Types, call : Nat,
                   keys : SUBSET Keys, fresh : SUBSET Keys]
    /\ due \in BOOLEAN
    /\ faults \in 0..MaxFaults
    /\ lost \subseteq Keys

Asleep == [pc |-> "sleep", type |-> 1, call |-> 0, keys |-> {}, fresh |-> {}]
Down == [Asleep EXCEPT !.pc = "down"]

Init ==
    /\ redis = [k \in Keys |-> Absent]
    /\ worker = Asleep
    /\ due = FALSE /\ faults = 0
    /\ lost = {}

Fault == faults < MaxFaults /\ faults' = faults + 1
WorkerType == Types[worker.type]
InFlight == Upserts[WorkerType][worker.call] \cap worker.fresh

-----------------------------------------------------------------------------
(* Redis and the realtime handlers.                                          *)

\* Mutant: a value lives until the next flush.
MutSetJson(ks, ttl) ==
    redis' = [k \in Keys |-> IF k \in ks THEN [here |-> TRUE, ttl |-> 1, stored |-> FALSE]
                             ELSE redis[k]]

\* set_json: the newest value replaces the previous one and its TTL.
SetJson(ks, ttl) ==
    redis' = [k \in Keys |-> IF k \in ks THEN [here |-> TRUE, ttl |-> ttl, stored |-> FALSE]
                             ELSE redis[k]]

Write(ks, ttl) ==
    /\ worker.pc # "down"
    /\ SetJson(ks, ttl)
    /\ worker' = [worker EXCEPT !.fresh = @ \ ks]
    /\ UNCHANGED <<due, faults, lost>>

\* handle_mark_price_update and handle_open_interest write those values of the
\* message that validate, unless the write fails, which is only logged.  (The
\* funding rate goes to MySQL at once and is not the worker's.)
HandleDerivatives(message) ==
    \E ks \in SUBSET message : ks # {} /\ Write(ks, DefaultTtl)

\* The depth handler sets the retention as the TTL from the start.
HandleDepth(k) == Write({k}, Retention)

RealtimeMessage ==
    \/ \E message \in Messages : HandleDerivatives(message)
    \/ \E k \in DepthKeys : HandleDepth(k)

\* A key with ttl 0 expires at some point of this interval, before the next
\* boundary.
Expire(k) ==
    /\ redis[k].here /\ redis[k].ttl = 0
    /\ redis' = [redis EXCEPT ![k] = Absent]
    /\ lost' = IF redis[k].stored THEN lost ELSE lost \cup {k}
    /\ worker' = [worker EXCEPT !.fresh = @ \ {k}]
    /\ UNCHANGED <<due, faults>>

\* The boundary of an interval.  A flush is over before the next boundary and
\* the process is up; that it is not is a fault, and then the boundary is
\* skipped: the next delay is counted from the time the flush ends.
Tick ==
    /\ \A k \in Keys : redis[k].here => redis[k].ttl > 0
    /\ \/ worker.pc = "sleep" /\ ~due /\ UNCHANGED faults
       \/ ~(worker.pc = "sleep" /\ ~due) /\ Fault
    /\ redis' = [k \in Keys |-> IF redis[k].here THEN [redis[k] EXCEPT !.ttl = @ - 1]
                                ELSE redis[k]]
    /\ due' = (worker.pc = "sleep")
    /\ UNCHANGED <<worker, lost>>

-----------------------------------------------------------------------------
(* The flush.                                                                *)

Wake ==
    /\ worker.pc = "sleep" /\ due
    /\ worker' = [Asleep EXCEPT !.pc = "scan"]
    /\ due' = FALSE
    /\ UNCHANGED <<redis, faults, lost>>

\* The for loop of flush_once.  What is written before the next scan is the
\* same as what is written before this step: nothing is awaited between them.
NextType ==
    IF worker.type < Len(Types)
    THEN [Asleep EXCEPT !.pc = "scan", !.type = worker.type + 1]
    ELSE Asleep

\* The first upsert call from c on that has records.
CallFrom(c, ks) ==
    {d \in Calls(WorkerType) :
        /\ d >= c /\ Upserts[WorkerType][d] \cap ks # {}
        /\ \A e \in Calls(WorkerType) : e >= c /\ e < d => Upserts[WorkerType][e] \cap ks = {}}

\* _scan_keys and the reads, up to the await of the first upsert.
Scan ==
    /\ worker.pc = "scan"
    /\ LET found == {k \in KeysOf(WorkerType) : redis[k].here} IN
       \/ found = {} /\ worker' = NextType
       \/ \E d \in CallFrom(1, found) :
             worker' = [worker EXCEPT !.pc = "upsert", !.keys = found,
                                      !.fresh = found, !.call = d]
    /\ UNCHANGED <<redis, due, faults, lost>>

\* upsert_batch on its thread: one transaction.
Commit(ks) ==
    redis' = [k \in Keys |-> IF k \in ks THEN [redis[k] EXCEPT !.stored = TRUE] ELSE redis[k]]

Upsert ==
    /\ worker.pc = "upsert" /\ WorkerType \notin BrokenTypes
    /\ Commit(InFlight)
    /\ worker' = [worker EXCEPT !.pc = "resume"]
    /\ UNCHANGED <<due, faults, lost>>

\* Mutant: the keys get the flush interval, not the retention, as their TTL.
MutSetTtl(ks) ==
    redis' = [k \in Keys |-> IF k \in ks /\ redis[k].here
                             THEN [redis[k] EXCEPT !.ttl = 1] ELSE redis[k]]

\* expire() for every key that was scanned, rewritten meanwhile or not.
SetTtl(ks) ==
    redis' = [k \in Keys |-> IF k \in ks /\ redis[k].here
                             THEN [redis[k] EXCEPT !.ttl = Retention] ELSE redis[k]]

\* Back in the event loop: the next table, or the expiry of all keys and the
\* next type.  skipped: the keys whose expire() raises, which is only logged.
Resume ==
    /\ worker.pc = "resume"
    /\ \/ /\ \E d \in CallFrom(worker.call + 1, worker.keys) :
                worker' = [worker EXCEPT !.pc = "upsert", !.call = d]
          /\ UNCHANGED <<redis, faults>>
       \/ /\ \A c \in Calls(WorkerType) :
                c > worker.call => Upserts[WorkerType][c] \cap worker.keys = {}
          /\ \E skipped \in SUBSET worker.keys :
                /\ SetTtl(worker.keys \ skipped)
                /\ IF skipped = {} THEN UNCHANGED faults ELSE Fault
          /\ worker' = NextType
    /\ UNCHANGED <<due, lost>>

\* Mutant: the first type that fails ends the cycle.
MutTypeFails == worker' = Asleep

\* The handler of flush_once goes on with the next type.  (It also counts the
\* error.  run_async gives it no quality_repo, so no issue is recorded.)
TypeFails == worker' = NextType

\* Redis does not answer the scan, or MySQL refuses the transaction; earlier
\* calls of the type stay committed, and no key gets a new expiry.
Fails ==
    /\ worker.pc \in {"scan", "upsert"}
    /\ IF worker.pc = "upsert" /\ WorkerType \in BrokenTypes
       THEN UNCHANGED faults ELSE Fault
    /\ TypeFails
    /\ UNCHANGED <<redis, due, lost>>

-----------------------------------------------------------------------------
(* Stop, kill and restart.                                                   *)

\* stop() cancels the task at its await; a thread that is upserting runs on.
\* There is no last flush.
Stop ==
    /\ worker.pc \in {"sleep", "upsert", "resume"}
    /\ Fault
    /\ worker' = [worker EXCEPT !.pc = IF @ = "upsert" THEN "draining" ELSE "stopping"]
    /\ due' = FALSE
    /\ UNCHANGED <<redis, lost>>

\* The thread ends before the process does.
Drain ==
    /\ worker.pc = "draining"
    /\ IF WorkerType \in BrokenTypes THEN UNCHANGED redis ELSE Commit(InFlight)
    /\ worker' = [worker EXCEPT !.pc = "stopping"]
    /\ UNCHANGED <<due, faults, lost>>

Exit ==
    /\ worker.pc = "stopping"
    /\ worker' = Down
    /\ UNCHANGED <<redis, due, faults, lost>>

Kill ==
    /\ worker.pc # "down"
    /\ Fault
    /\ worker' = Down
    /\ due' = FALSE
    /\ UNCHANGED <<redis, lost>>

\* The supervisor starts the process again; the worker waits for the next
\* boundary.
Start ==
    /\ worker.pc = "down"
    /\ worker' = Asleep
    /\ UNCHANGED <<redis, due, faults, lost>>

FlushStep == Wake \/ Scan \/ Upsert \/ Resume \/ Fails
ProcessStep == Drain \/ Exit \/ Start
Next ==
    \/ RealtimeMessage \/ \E k \in Keys : Expire(k)
    \/ Tick \/ FlushStep \/ Stop \/ Kill \/ ProcessStep

Spec == Init /\ [][Next]_vars

\* The event loop runs the worker, Redis expires keys, the supervisor restarts
\* the process, and time passes.  Nothing is assumed of the handlers.
FairSpec ==
    /\ Spec
    /\ WF_vars(FlushStep) /\ WF_vars(ProcessStep) /\ WF_vars(Tick)
    /\ \A k \in Keys : WF_vars(Expire(k))

-----------------------------------------------------------------------------

\* Up to Retention - 2 faults, no value leaves Redis by expiry before it is in
\* MySQL, whichever writes fall between the read of a key, its upsert and its
\* new expiry (flush_once; _flush_data_type).  Values that a newer one replaced
\* are not kept by design; those of BrokenTypes cannot be.
NothingLost == MaxFaults + 2 <= Retention => lost \subseteq BrokenKeys

\* Where the key stands in the current cycle: its type is still to be scanned,
\* or it was read and its upsert is to come.
TypeIsAhead(k) ==
    \/ due
    \/ worker.pc = "scan" /\ \E i \in worker.type..Len(Types) : k \in KeysOf(Types[i])
    \/ worker.pc \in {"upsert", "resume"}
       /\ \E i \in (worker.type + 1)..Len(Types) : k \in KeysOf(Types[i])

UpsertIsAhead(k) ==
    /\ worker.pc \in {"upsert", "resume"} /\ k \in worker.fresh
    /\ \E c \in Calls(WorkerType) :
          /\ k \in Upserts[WorkerType][c]
          /\ c > worker.call \/ (c = worker.call /\ worker.pc = "upsert")

InCycle(k) == TypeIsAhead(k) \/ UpsertIsAhead(k)

\* A value that is not in MySQL has been missed by at most as many cycles as
\* there were faults, not counting the one under way: its TTL covers the rest.
TtlCoversTheFaults ==
    \A k \in Keys \ BrokenKeys : redis[k].here /\ ~redis[k].stored =>
        redis[k].ttl >= Retention - faults - (IF InCycle(k) THEN 1 ELSE 0)

\* Only keys of the type at hand that are still in Redis count as read, and a
\* boundary waits only for a worker that sleeps.
ReadKeysAreThere ==
    /\ worker.fresh \subseteq worker.keys
    /\ worker.keys \subseteq KeysOf(WorkerType)
    /\ \A k \in worker.fresh : redis[k].here
DueOnlyAsleep == due => worker.pc = "sleep"

\* The inductive invariant that NothingLost follows from: the TTL a handler or
\* a flush gives a key (set_json, _flush_data_type) outlasts the cycles that
\* may still fail.
FlInv == FlTypeOK /\ ReadKeysAreThere /\ DueOnlyAsleep /\ TtlCoversTheFaults

\* When the handlers fall silent, what they wrote last reaches MySQL, although
\* other types keep failing and the process is restarted (flush_once, step 2 of
\* its docstring: "continue to next").
Silent == <>[][~RealtimeMessage]_vars
SilentKeyIsFlushed ==
    Silent => \A k \in Keys \ BrokenKeys :
                  (redis[k].here /\ ~redis[k].stored) ~> redis[k].stored

=============================================================================
