---------------------------- MODULE FlushWorkerProofs ----------------------------
(***************************************************************************)
(* Proofs about the flush worker, for every list of data types, set of     *)
(* keys, retention and number of faults.                                   *)
(***************************************************************************)
EXTENDS FlushWorker, TLAPS

\* The types and their upsert calls are indexed from 1 (flush_once walks
\* _handlers, _flush_data_type the tables of a type).
LEMMA TypesAreIndexed ==
    /\ Len(Types) \in Nat \ {0}
    /\ DOMAIN Types = 1..Len(Types)
    /\ \A i \in DOMAIN Types : Types[i] \in TypeSet
    /\ \A t \in TypeSet : Calls(t) \subseteq Nat
  BY TypesAssumption DEF TypeSet, Calls

\* Every key belongs to a type (the scan patterns of _flush_data_type).
LEMMA KeyHasType == \A k \in Keys : \E i \in DOMAIN Types : k \in KeysOf(Types[i])
  BY DEF Keys, TypeSet

\* What each conjunct needs of the state.
LEMMA InitFlInv == Init => FlInv
<1> SUFFICES ASSUME Init PROVE FlInv
  OBVIOUS
<1> USE TypesAreIndexed, TtlAssumption, FlushAssumption DEF Init
<1>1. FlTypeOK
  <2>1. redis \in [Keys -> Entry]
    BY DEF Entry, Absent
  <2>2. 1 \in DOMAIN Types
    OBVIOUS
  <2>3. worker \in [pc : PCs, type : DOMAIN Types, call : Nat,
                    keys : SUBSET Keys, fresh : SUBSET Keys]
    BY <2>2 DEF Asleep, PCs
  <2> QED
    <3>1. due \in BOOLEAN
      OBVIOUS
    <3>2. lost \subseteq Keys
      OBVIOUS
    <3>3. faults \in 0..MaxFaults
      OBVIOUS
    <3> QED
    BY <2>1, <2>3, <3>1, <3>2, <3>3, Zenon DEF FlTypeOK
<1>2. ReadKeysAreThere
  BY DEF ReadKeysAreThere, Asleep
<1>3. DueOnlyAsleep
  BY DEF DueOnlyAsleep
<1>4. TtlCoversTheFaults
  BY DEF TtlCoversTheFaults, Absent
<1> QED
  BY <1>1, <1>2, <1>3, <1>4 DEF FlInv

\* What goes on with the next type is asleep or scanning, and no type lies
\* ahead that did not before.
LEMMA NextTypeFacts ==
  ASSUME FlTypeOK
  PROVE  /\ NextType.pc \in {"sleep", "scan"}
         /\ NextType.type \in DOMAIN Types
         /\ NextType.call = 0 /\ NextType.keys = {} /\ NextType.fresh = {}
         /\ NextType.pc = "scan" => NextType.type = worker.type + 1
         /\ NextType.pc = "sleep" => worker.type = Len(Types)
         /\ NextType \in [pc : PCs, type : DOMAIN Types, call : Nat,
                          keys : SUBSET Keys, fresh : SUBSET Keys]
<1> USE TypesAreIndexed
<1>1. CASE worker.type < Len(Types)
  <2>1. worker.type \in DOMAIN Types
    BY DEF FlTypeOK
  <2>2. worker.type + 1 \in DOMAIN Types
    BY <1>1, <2>1
  <2>3. NextType = [pc |-> "scan", type |-> worker.type + 1, call |-> 0, keys |-> {}, fresh |-> {}]
    BY <1>1 DEF NextType, Asleep
  <2> QED
  BY <2>2, <2>3 DEF PCs
<1>2. CASE ~(worker.type < Len(Types))
  BY <1>2 DEF FlTypeOK, NextType, Asleep, PCs
<1> QED
  BY <1>1, <1>2

\* The TTL of an uncovered value, whichever way it stands in the cycle.
LEMMA TtlBounds ==
  ASSUME FlInv, NEW k \in Keys \ BrokenKeys, redis[k].here, ~redis[k].stored
  PROVE  /\ redis[k].ttl \in Nat /\ faults \in Nat
         /\ redis[k].ttl >= Retention - faults - 1
         /\ ~InCycle(k) => redis[k].ttl >= Retention - faults
<1>1. redis[k].ttl \in Nat /\ faults \in Nat
  BY TtlAssumption, FlushAssumption DEF FlInv, FlTypeOK, Entry
<1>2. redis[k].ttl >= Retention - faults - (IF InCycle(k) THEN 1 ELSE 0)
  BY DEF FlInv, TtlCoversTheFaults
<1> QED
  BY <1>1, <1>2, TtlAssumption

\* A step that leaves a value alone keeps it covered if it is a fault, or if
\* what lay ahead of the value still does.
LEMMA CoverKept ==
  ASSUME FlInv, NEW k \in Keys \ BrokenKeys,
         redis'[k].here, ~redis'[k].stored, redis'[k] = redis[k],
         \/ faults' = faults + 1
         \/ faults' = faults /\ (InCycle(k) => InCycle(k)')
  PROVE  redis'[k].ttl >= Retention - faults' - (IF InCycle(k)' THEN 1 ELSE 0)
<1>1. /\ redis[k].ttl \in Nat /\ faults \in Nat
      /\ redis[k].ttl >= Retention - faults - 1
      /\ ~InCycle(k) => redis[k].ttl >= Retention - faults
  BY TtlBounds
<1>2. CASE faults' = faults + 1
  BY <1>1, <1>2, TtlAssumption
<1>3. CASE faults' = faults /\ (InCycle(k) => InCycle(k)')
  BY <1>1, <1>3, TtlAssumption
<1> QED
  BY <1>2, <1>3

-----------------------------------------------------------------------------
(* One lemma per action. *)

LEMMA WriteInv ==
  ASSUME FlInv, NEW ks \in SUBSET Keys, NEW ttl \in {DefaultTtl, Retention},
         Write(ks, ttl)
  PROVE  FlInv'
<1> USE DEF FlInv, Write, SetJson
<1>0. ttl \in 0..DefaultTtl /\ ttl \in Nat /\ ttl >= Retention
  BY TtlAssumption
<1>1. FlTypeOK'
  <2>1. redis' \in [Keys -> Entry]
    BY <1>0 DEF FlTypeOK, Entry
  <2>2. worker' \in [pc : PCs, type : DOMAIN Types, call : Nat,
                     keys : SUBSET Keys, fresh : SUBSET Keys]
    BY DEF FlTypeOK
  <2> QED
    BY <2>1, <2>2 DEF FlTypeOK
<1>2. ReadKeysAreThere'
  BY DEF FlTypeOK, ReadKeysAreThere, WorkerType
<1>3. DueOnlyAsleep'
  BY DEF FlTypeOK, DueOnlyAsleep
<1>4. TtlCoversTheFaults'
  <2> SUFFICES ASSUME NEW k \in Keys \ BrokenKeys, redis'[k].here, ~redis'[k].stored
               PROVE  redis'[k].ttl >= Retention - faults' - (IF InCycle(k)' THEN 1 ELSE 0)
    BY DEF TtlCoversTheFaults
  <2>1. CASE k \in ks
    <3>1. redis'[k].ttl = ttl
      BY <2>1
    <3>2. faults' \in Nat
      BY FlushAssumption DEF FlTypeOK
    <3> QED
      BY <1>0, <3>1, <3>2, TtlAssumption
  <2>2. CASE k \notin ks
    <3>1. redis'[k] = redis[k] /\ faults' = faults
      BY <2>2
    <3>2. InCycle(k) => InCycle(k)'
      BY <2>2 DEF FlTypeOK, InCycle, TypeIsAhead, UpsertIsAhead, WorkerType
    <3> QED
      BY <3>1, <3>2, CoverKept
  <2> QED
    BY <2>1, <2>2
<1> QED
  BY <1>1, <1>2, <1>3, <1>4

LEMMA RealtimeMessageInv ==
  ASSUME FlInv, RealtimeMessage
  PROVE  FlInv'
<1>1. CASE \E message \in Messages : HandleDerivatives(message)
  BY <1>1, WriteInv, TypesAssumption DEF HandleDerivatives
<1>2. CASE \E k \in DepthKeys : HandleDepth(k)
  <2>1. PICK k \in DepthKeys : Write({k}, Retention)
    BY <1>2 DEF HandleDepth
  <2>2. {k} \in SUBSET Keys
    BY TypesAssumption
  <2> QED
    BY <2>1, <2>2, WriteInv
<1> QED
  BY <1>1, <1>2 DEF RealtimeMessage

LEMMA ExpireInv ==
  ASSUME FlInv, NEW w \in Keys, Expire(w)
  PROVE  FlInv'
<1> USE DEF FlInv, Expire
<1>1. FlTypeOK'
  <2>1. redis' \in [Keys -> Entry]
    BY TtlAssumption DEF FlTypeOK, Entry, Absent
  <2>2. worker' \in [pc : PCs, type : DOMAIN Types, call : Nat,
                     keys : SUBSET Keys, fresh : SUBSET Keys]
    BY DEF FlTypeOK
  <2>3. lost' \subseteq Keys
    BY DEF FlTypeOK
  <2> QED
    BY <2>1, <2>2, <2>3 DEF FlTypeOK
<1>2. ReadKeysAreThere'
  BY DEF FlTypeOK, ReadKeysAreThere, WorkerType
<1>3. DueOnlyAsleep'
  BY DEF FlTypeOK, DueOnlyAsleep
<1>4. TtlCoversTheFaults'
  <2> SUFFICES ASSUME NEW k \in Keys \ BrokenKeys, redis'[k].here, ~redis'[k].stored
               PROVE  redis'[k].ttl >= Retention - faults' - (IF InCycle(k)' THEN 1 ELSE 0)
    BY DEF TtlCoversTheFaults
  <2>1. k # w
    BY DEF FlTypeOK, Absent
  <2>2. redis'[k] = redis[k] /\ faults' = faults
    BY <2>1 DEF FlTypeOK
  <2>3. InCycle(k) => InCycle(k)'
    BY <2>1 DEF FlTypeOK, InCycle, TypeIsAhead, UpsertIsAhead, WorkerType
  <2> QED
    BY <2>2, <2>3, CoverKept
<1> QED
  BY <1>1, <1>2, <1>3, <1>4

LEMMA TickInv ==
  ASSUME FlInv, Tick
  PROVE  FlInv'
<1> USE DEF FlInv, Tick
<1>1. FlTypeOK'
  <2>1. redis' \in [Keys -> Entry]
    BY TtlAssumption DEF FlTypeOK, Entry
  <2>2. faults' \in 0..MaxFaults
    BY FlushAssumption DEF FlTypeOK, Fault
  <2> QED
    BY <2>1, <2>2 DEF FlTypeOK
<1>2. ReadKeysAreThere'
  BY DEF FlTypeOK, ReadKeysAreThere, WorkerType
<1>3. DueOnlyAsleep'
  BY DEF FlTypeOK, DueOnlyAsleep
<1>4. TtlCoversTheFaults'
  <2> SUFFICES ASSUME NEW k \in Keys \ BrokenKeys, redis'[k].here, ~redis'[k].stored
               PROVE  redis'[k].ttl >= Retention - faults' - (IF InCycle(k)' THEN 1 ELSE 0)
    BY DEF TtlCoversTheFaults
  <2>1. redis[k].here /\ ~redis[k].stored /\ redis'[k].ttl = redis[k].ttl - 1
    BY DEF FlTypeOK, Entry
  <2>2. /\ redis[k].ttl \in Nat /\ faults \in Nat
        /\ redis[k].ttl >= Retention - faults - 1
        /\ ~InCycle(k) => redis[k].ttl >= Retention - faults
    BY <2>1, TtlBounds
  <2>3. CASE worker.pc = "sleep" /\ ~due /\ UNCHANGED faults
    <3>1. ~InCycle(k)
      BY <2>3 DEF InCycle, TypeIsAhead, UpsertIsAhead
    <3>2. InCycle(k)'
      BY <2>3 DEF InCycle, TypeIsAhead
    <3> QED
      BY <2>1, <2>2, <2>3, <3>1, <3>2, TtlAssumption
  <2>4. CASE ~(worker.pc = "sleep" /\ ~due) /\ Fault
    <3>1. InCycle(k) => InCycle(k)'
      BY <2>4 DEF InCycle, TypeIsAhead, UpsertIsAhead, DueOnlyAsleep, WorkerType
    <3>2. faults' = faults + 1
      BY <2>4 DEF Fault
    <3> QED
      BY <2>1, <2>2, <3>1, <3>2, TtlAssumption
  <2> QED
    BY <2>3, <2>4
<1> QED
  BY <1>1, <1>2, <1>3, <1>4

LEMMA WakeInv ==
  ASSUME FlInv, Wake
  PROVE  FlInv'
<1> USE DEF FlInv, Wake
<1>1. FlTypeOK'
  <2>1. worker' \in [pc : PCs, type : DOMAIN Types, call : Nat,
                     keys : SUBSET Keys, fresh : SUBSET Keys]
    BY TypesAreIndexed DEF FlTypeOK, Asleep, PCs
  <2> QED
    BY <2>1 DEF FlTypeOK
<1>2. ReadKeysAreThere'
  BY DEF ReadKeysAreThere, Asleep
<1>3. DueOnlyAsleep'
  BY DEF DueOnlyAsleep
<1>4. TtlCoversTheFaults'
  <2> SUFFICES ASSUME NEW k \in Keys \ BrokenKeys, redis'[k].here, ~redis'[k].stored
               PROVE  redis'[k].ttl >= Retention - faults' - (IF InCycle(k)' THEN 1 ELSE 0)
    BY DEF TtlCoversTheFaults
  <2>1. InCycle(k)'
    <3>1. PICK i \in DOMAIN Types : k \in KeysOf(Types[i])
      BY KeyHasType
    <3>2. worker'.pc = "scan" /\ worker'.type = 1
      BY DEF Asleep
    <3>3. i \in worker'.type..Len(Types)
      BY <3>2, TypesAreIndexed
    <3> QED
      BY <3>1, <3>2, <3>3 DEF InCycle, TypeIsAhead
  <2> QED
    BY <2>1, CoverKept
<1> QED
  BY <1>1, <1>2, <1>3, <1>4

LEMMA ScanInv ==
  ASSUME FlInv, Scan
  PROVE  FlInv'
<1> DEFINE found == {k \in KeysOf(WorkerType) : redis[k].here}
<1> USE DEF FlInv
<1>0. WorkerType \in TypeSet /\ found \subseteq Keys
  BY TypesAreIndexed DEF FlTypeOK, WorkerType, Keys
<1>a. CASE found = {} /\ worker' = NextType
  <2>1. FlTypeOK'
    BY <1>a, NextTypeFacts DEF Scan, FlTypeOK
  <2>2. ReadKeysAreThere'
    BY <1>a, NextTypeFacts DEF ReadKeysAreThere
  <2>3. DueOnlyAsleep'
    BY DEF Scan, DueOnlyAsleep
  <2>4. TtlCoversTheFaults'
    <3> SUFFICES ASSUME NEW k \in Keys \ BrokenKeys, redis'[k].here, ~redis'[k].stored
                 PROVE  redis'[k].ttl >= Retention - faults' - (IF InCycle(k)' THEN 1 ELSE 0)
      BY DEF TtlCoversTheFaults
    <3>1. ~due /\ redis' = redis /\ faults' = faults /\ worker.pc = "scan"
      BY DEF Scan, DueOnlyAsleep
    <3>2. ASSUME InCycle(k) PROVE InCycle(k)'
      <4>1. PICK i \in worker.type..Len(Types) : k \in KeysOf(Types[i])
        BY <3>1, <3>2 DEF InCycle, TypeIsAhead, UpsertIsAhead
      <4>2. i # worker.type
        BY <1>a, <4>1, <3>1 DEF WorkerType
      <4>3. worker.type \in Nat /\ i \in (worker.type + 1)..Len(Types)
        BY <4>1, <4>2, TypesAreIndexed DEF FlTypeOK
      <4>4. worker'.pc = "scan" /\ worker'.type = worker.type + 1
        BY <1>a, <4>3, NextTypeFacts, TypesAreIndexed
      <4> QED
        BY <4>1, <4>3, <4>4 DEF InCycle, TypeIsAhead
    <3> QED
      BY <3>1, <3>2, CoverKept
  <2> QED
    BY <2>1, <2>2, <2>3, <2>4
<1>b. ASSUME NEW d \in CallFrom(1, found),
             worker' = [worker EXCEPT !.pc = "upsert", !.keys = found,
                                      !.fresh = found, !.call = d]
      PROVE  FlInv'
  <2>1. FlTypeOK'
    <3>1. d \in Nat
      BY <1>0, TypesAreIndexed DEF CallFrom
    <3>2. worker' \in [pc : PCs, type : DOMAIN Types, call : Nat,
                       keys : SUBSET Keys, fresh : SUBSET Keys]
      BY <1>0, <1>b, <3>1 DEF FlTypeOK, PCs
    <3> QED
      BY <3>2 DEF Scan, FlTypeOK
  <2>2. ReadKeysAreThere'
    BY <1>b DEF Scan, ReadKeysAreThere, FlTypeOK, WorkerType
  <2>3. DueOnlyAsleep'
    BY DEF Scan, DueOnlyAsleep
  <2>4. TtlCoversTheFaults'
    <3> SUFFICES ASSUME NEW k \in Keys \ BrokenKeys, redis'[k].here, ~redis'[k].stored
                 PROVE  redis'[k].ttl >= Retention - faults' - (IF InCycle(k)' THEN 1 ELSE 0)
      BY DEF TtlCoversTheFaults
    <3>1. /\ ~due /\ redis' = redis /\ faults' = faults /\ worker.pc = "scan"
          /\ worker'.pc = "upsert" /\ worker'.type = worker.type
          /\ worker'.fresh = found /\ worker'.call = d /\ WorkerType' = WorkerType
      BY <1>b DEF Scan, DueOnlyAsleep, FlTypeOK, WorkerType
    <3>2. ASSUME InCycle(k) PROVE InCycle(k)'
      <4>1. PICK i \in worker.type..Len(Types) : k \in KeysOf(Types[i])
        BY <3>1, <3>2 DEF InCycle, TypeIsAhead, UpsertIsAhead
      <4>2. CASE i = worker.type
        <5>1. k \in found
          BY <4>1, <4>2, <3>1 DEF WorkerType
        <5>2. PICK c \in DOMAIN Upserts[WorkerType] : k \in Upserts[WorkerType][c]
          BY <5>1 DEF KeysOf
        <5>3. c \in Calls(WorkerType) /\ c \in Nat /\ d \in Nat /\ c >= 1
          BY <1>0, <5>2, TypesAssumption DEF Calls, CallFrom
        <5>4. ~(c < d)
          BY <1>b, <5>1, <5>2, <5>3 DEF CallFrom
        <5>5. c > d \/ c = d
          BY <5>3, <5>4
        <5> QED
          BY <3>1, <5>1, <5>2, <5>3, <5>5 DEF InCycle, UpsertIsAhead
      <4>3. CASE i # worker.type
        <5>1. worker.type \in Nat /\ i \in (worker.type + 1)..Len(Types)
          BY <4>1, <4>3, TypesAreIndexed DEF FlTypeOK
        <5> QED
          BY <3>1, <4>1, <5>1 DEF InCycle, TypeIsAhead
      <4> QED
        BY <4>2, <4>3
    <3> QED
      BY <3>1, <3>2, CoverKept
  <2> QED
    BY <2>1, <2>2, <2>3, <2>4
<1> QED
  BY <1>a, <1>b DEF Scan

LEMMA CommitType ==
  ASSUME FlTypeOK, NEW ks, Commit(ks)
  PROVE  /\ redis' \in [Keys -> Entry]
         /\ \A k \in Keys : redis'[k].here = redis[k].here
         /\ \A k \in Keys : ~redis'[k].stored => k \notin ks /\ redis'[k] = redis[k]
<1>1. redis' \in [Keys -> Entry]
  BY DEF FlTypeOK, Commit, Entry
<1>2. \A k \in Keys : redis'[k].here = redis[k].here
  BY DEF FlTypeOK, Commit, Entry
<1>3. \A k \in Keys : ~redis'[k].stored => k \notin ks /\ redis'[k] = redis[k]
  BY DEF FlTypeOK, Commit, Entry
<1> QED
  BY <1>1, <1>2, <1>3

LEMMA UpsertInv ==
  ASSUME FlInv, Upsert
  PROVE  FlInv'
<1> USE DEF FlInv, Upsert
<1>0. /\ redis' \in [Keys -> Entry]
      /\ \A k \in Keys : redis'[k].here = redis[k].here
      /\ \A k \in Keys : ~redis'[k].stored => k \notin InFlight /\ redis'[k] = redis[k]
  BY CommitType
<1>1. FlTypeOK'
  <2>1. worker' \in [pc : PCs, type : DOMAIN Types, call : Nat,
                     keys : SUBSET Keys, fresh : SUBSET Keys]
    BY DEF FlTypeOK, PCs
  <2> QED
    BY <1>0, <2>1 DEF FlTypeOK
<1>2. ReadKeysAreThere'
  BY <1>0 DEF FlTypeOK, ReadKeysAreThere, WorkerType
<1>3. DueOnlyAsleep'
  BY DEF DueOnlyAsleep
<1>4. TtlCoversTheFaults'
  <2> SUFFICES ASSUME NEW k \in Keys \ BrokenKeys, redis'[k].here, ~redis'[k].stored
               PROVE  redis'[k].ttl >= Retention - faults' - (IF InCycle(k)' THEN 1 ELSE 0)
    BY DEF TtlCoversTheFaults
  <2>1. redis'[k] = redis[k] /\ k \notin InFlight /\ faults' = faults
    BY <1>0
  <2>2. /\ ~due /\ worker'.pc = "resume" /\ worker'.type = worker.type
        /\ worker'.call = worker.call /\ worker'.fresh = worker.fresh
        /\ WorkerType' = WorkerType
    BY DEF DueOnlyAsleep, FlTypeOK, WorkerType
  <2>3. TypeIsAhead(k) => TypeIsAhead(k)'
    BY <2>2 DEF TypeIsAhead
  <2>4. UpsertIsAhead(k) => UpsertIsAhead(k)'
    BY <2>1, <2>2 DEF UpsertIsAhead, InFlight
  <2> QED
    BY <2>1, <2>3, <2>4, CoverKept DEF InCycle
<1> QED
  BY <1>1, <1>2, <1>3, <1>4

\* A key that was just given its TTL outlasts any number of faults.
LEMMA FullTtlCovers ==
  \A r, f \in Nat : \A b : r >= r - f - (IF b THEN 1 ELSE 0)
OBVIOUS

\* What lies ahead of the type at hand still does when the next type begins.
LEMMA NextTypeKeepsAhead ==
  ASSUME FlTypeOK, worker' = NextType, NEW k,
         \E i \in (worker.type + 1)..Len(Types) : k \in KeysOf(Types[i])
  PROVE  InCycle(k)'
<1>1. PICK i \in (worker.type + 1)..Len(Types) : k \in KeysOf(Types[i])
  OBVIOUS
<1>2. worker'.pc = "scan" /\ worker'.type = worker.type + 1
  BY <1>1, NextTypeFacts, TypesAreIndexed DEF FlTypeOK
<1> QED
  BY <1>1, <1>2 DEF InCycle, TypeIsAhead

LEMMA ResumeInv ==
  ASSUME FlInv, Resume
  PROVE  FlInv'
<1> USE DEF FlInv
<1>0. /\ WorkerType \in TypeSet /\ worker.call \in Nat /\ ~due /\ worker.pc = "resume"
      /\ Calls(WorkerType) \subseteq Nat
  BY TypesAreIndexed DEF FlTypeOK, WorkerType, Resume, DueOnlyAsleep
<1>a. ASSUME NEW d \in CallFrom(worker.call + 1, worker.keys),
             worker' = [worker EXCEPT !.pc = "upsert", !.call = d],
             UNCHANGED <<redis, faults>>
      PROVE  FlInv'
  <2>1. FlTypeOK'
    <3>1. d \in Nat
      BY <1>0 DEF CallFrom
    <3>2. worker' \in [pc : PCs, type : DOMAIN Types, call : Nat,
                       keys : SUBSET Keys, fresh : SUBSET Keys]
      BY <1>a, <3>1 DEF FlTypeOK, PCs
    <3> QED
      BY <1>a, <3>2 DEF Resume, FlTypeOK
  <2>2. ReadKeysAreThere'
    BY <1>a DEF ReadKeysAreThere, FlTypeOK, WorkerType
  <2>3. DueOnlyAsleep'
    BY <1>0 DEF Resume, DueOnlyAsleep
  <2>4. TtlCoversTheFaults'
    <3> SUFFICES ASSUME NEW k \in Keys \ BrokenKeys, redis'[k].here, ~redis'[k].stored
                 PROVE  redis'[k].ttl >= Retention - faults' - (IF InCycle(k)' THEN 1 ELSE 0)
      BY DEF TtlCoversTheFaults
    <3>1. /\ worker'.pc = "upsert" /\ worker'.type = worker.type
          /\ worker'.fresh = worker.fresh /\ worker'.call = d /\ WorkerType' = WorkerType
      BY <1>a DEF FlTypeOK, WorkerType
    <3>2. TypeIsAhead(k) => TypeIsAhead(k)'
      BY <1>0, <3>1 DEF TypeIsAhead
    <3>3. ASSUME UpsertIsAhead(k) PROVE UpsertIsAhead(k)'
      <4>1. k \in worker.fresh /\ k \in worker.keys
        BY <3>3 DEF UpsertIsAhead, ReadKeysAreThere
      <4>2. PICK c \in Calls(WorkerType) : k \in Upserts[WorkerType][c] /\ c > worker.call
        BY <1>0, <3>3 DEF UpsertIsAhead
      <4>3. c \in Nat /\ d \in Nat /\ c >= worker.call + 1
        BY <1>0, <4>2 DEF CallFrom
      <4>4. ~(c < d)
        BY <4>1, <4>2, <4>3 DEF CallFrom
      <4>5. c > d \/ c = d
        BY <4>3, <4>4
      <4> QED
        BY <3>1, <4>1, <4>2, <4>5 DEF UpsertIsAhead
    <3> QED
      BY <1>a, <3>2, <3>3, CoverKept DEF InCycle
  <2> QED
    BY <2>1, <2>2, <2>3, <2>4
<1>b. ASSUME \A c \in Calls(WorkerType) :
                 c > worker.call => Upserts[WorkerType][c] \cap worker.keys = {},
             NEW skipped \in SUBSET worker.keys,
             SetTtl(worker.keys \ skipped),
             IF skipped = {} THEN UNCHANGED faults ELSE Fault,
             worker' = NextType
      PROVE  FlInv'
  <2>0. /\ faults' \in 0..MaxFaults /\ faults \in Nat /\ faults' \in Nat
        /\ faults' = faults \/ faults' = faults + 1
    BY <1>b, FlushAssumption DEF FlTypeOK, Fault
  <2>1. FlTypeOK'
    <3>1. redis' \in [Keys -> Entry]
      BY <1>b, TtlAssumption DEF FlTypeOK, Entry, SetTtl
    <3> QED
      BY <2>0, <3>1, <1>b, NextTypeFacts DEF Resume, FlTypeOK
  <2>2. ReadKeysAreThere'
    BY <1>b, NextTypeFacts DEF ReadKeysAreThere
  <2>3. DueOnlyAsleep'
    BY <1>0 DEF Resume, DueOnlyAsleep
  <2>4. TtlCoversTheFaults'
    <3> SUFFICES ASSUME NEW k \in Keys \ BrokenKeys, redis'[k].here, ~redis'[k].stored
                 PROVE  redis'[k].ttl >= Retention - faults' - (IF InCycle(k)' THEN 1 ELSE 0)
      BY DEF TtlCoversTheFaults
    <3>1. CASE k \in worker.keys \ skipped /\ redis[k].here
      <4>1. redis'[k].ttl = Retention
        BY <1>b, <3>1 DEF FlTypeOK, Entry, SetTtl
      <4>2. faults' \in Nat /\ Retention \in Nat
        BY <2>0, TtlAssumption
      <4>4. Retention >= Retention - faults' - (IF InCycle(k)' THEN 1 ELSE 0)
        BY <4>2, FullTtlCovers
      <4> QED
        BY <4>1, <4>4
    <3>2. CASE ~(k \in worker.keys \ skipped /\ redis[k].here)
      <4>1. redis'[k] = redis[k]
        BY <1>b, <3>2 DEF FlTypeOK, SetTtl
      <4>2. CASE skipped # {}
        BY <1>b, <4>1, <4>2, CoverKept DEF Fault
      <4>3. CASE skipped = {}
        <5>1. k \notin worker.keys
          BY <3>2, <4>1, <4>3
        <5>2. ~UpsertIsAhead(k)
          BY <5>1 DEF UpsertIsAhead, ReadKeysAreThere
        <5>3. InCycle(k) => \E i \in (worker.type + 1)..Len(Types) : k \in KeysOf(Types[i])
          BY <1>0, <5>2 DEF InCycle, TypeIsAhead
        <5>4. InCycle(k) => InCycle(k)'
          BY <1>b, <5>3, NextTypeKeepsAhead
        <5> QED
          BY <1>b, <4>1, <4>3, <5>4, CoverKept
      <4> QED
        BY <4>2, <4>3
    <3> QED
      BY <3>1, <3>2
  <2> QED
    BY <2>1, <2>2, <2>3, <2>4
<1> QED
  BY <1>a, <1>b DEF Resume

LEMMA FailsInv ==
  ASSUME FlInv, Fails
  PROVE  FlInv'
<1> USE DEF FlInv
<1>0. /\ worker.pc \in {"scan", "upsert"} /\ redis' = redis /\ worker' = NextType
      /\ ~due /\ due' = due /\ WorkerType \in TypeSet
  BY TypesAreIndexed DEF Fails, TypeFails, FlTypeOK, DueOnlyAsleep, WorkerType
<1>1. FlTypeOK'
  <2>1. faults' \in 0..MaxFaults
    BY FlushAssumption DEF Fails, FlTypeOK, Fault
  <2>2. worker' \in [pc : PCs, type : DOMAIN Types, call : Nat,
                     keys : SUBSET Keys, fresh : SUBSET Keys]
    BY <1>0, NextTypeFacts
  <2> QED
    BY <1>0, <2>1, <2>2 DEF FlTypeOK, Fails
<1>2. ReadKeysAreThere'
  BY <1>0, NextTypeFacts DEF ReadKeysAreThere
<1>3. DueOnlyAsleep'
  BY <1>0 DEF DueOnlyAsleep
<1>4. TtlCoversTheFaults'
  <2> SUFFICES ASSUME NEW k \in Keys \ BrokenKeys, redis'[k].here, ~redis'[k].stored
               PROVE  redis'[k].ttl >= Retention - faults' - (IF InCycle(k)' THEN 1 ELSE 0)
    BY DEF TtlCoversTheFaults
  <2>1. CASE Fault
    BY <1>0, <2>1, CoverKept DEF Fault
  <2>2. CASE worker.pc = "upsert" /\ WorkerType \in BrokenTypes /\ UNCHANGED faults
    <3>1. k \notin KeysOf(WorkerType)
      BY <2>2 DEF BrokenKeys
    <3>2. ~UpsertIsAhead(k)
      BY <3>1 DEF UpsertIsAhead, ReadKeysAreThere
    <3>3. InCycle(k) => \E i \in (worker.type + 1)..Len(Types) : k \in KeysOf(Types[i])
      BY <1>0, <2>2, <3>2 DEF InCycle, TypeIsAhead
    <3>4. InCycle(k) => InCycle(k)'
      BY <1>0, <3>3, NextTypeKeepsAhead
    <3> QED
      BY <1>0, <2>2, <3>4, CoverKept
  <2>3. Fault \/ (worker.pc = "upsert" /\ WorkerType \in BrokenTypes /\ UNCHANGED faults)
    BY DEF Fails
  <2> QED
    BY <2>1, <2>2, <2>3
<1> QED
  BY <1>1, <1>2, <1>3, <1>4

LEMMA StopInv ==
  ASSUME FlInv, Stop
  PROVE  FlInv'
<1> USE DEF FlInv, Stop
<1>1. FlTypeOK'
  <2>1. worker' \in [pc : PCs, type : DOMAIN Types, call : Nat,
                     keys : SUBSET Keys, fresh : SUBSET Keys]
    BY TypesAreIndexed DEF FlTypeOK, PCs
  <2>2. faults' \in 0..MaxFaults
    BY FlushAssumption DEF FlTypeOK, Fault
  <2> QED
    BY <2>1, <2>2 DEF FlTypeOK
<1>2. ReadKeysAreThere'
  BY DEF FlTypeOK, ReadKeysAreThere, WorkerType
<1>3. DueOnlyAsleep'
  BY DEF DueOnlyAsleep
<1>4. TtlCoversTheFaults'
  <2> SUFFICES ASSUME NEW k \in Keys \ BrokenKeys, redis'[k].here, ~redis'[k].stored
               PROVE  redis'[k].ttl >= Retention - faults' - (IF InCycle(k)' THEN 1 ELSE 0)
    BY DEF TtlCoversTheFaults
  <2> QED
    BY CoverKept DEF Fault
<1> QED
  BY <1>1, <1>2, <1>3, <1>4

LEMMA ExitInv ==
  ASSUME FlInv, Exit
  PROVE  FlInv'
<1> USE DEF FlInv, Exit
<1>1. FlTypeOK'
  <2>1. worker' \in [pc : PCs, type : DOMAIN Types, call : Nat,
                     keys : SUBSET Keys, fresh : SUBSET Keys]
    BY TypesAreIndexed DEF FlTypeOK, PCs, Down, Asleep
  <2>2. faults' \in 0..MaxFaults
    BY FlushAssumption DEF FlTypeOK
  <2> QED
    BY <2>1, <2>2 DEF FlTypeOK
<1>2. ReadKeysAreThere'
  BY DEF FlTypeOK, ReadKeysAreThere, WorkerType, Down, Asleep
<1>3. DueOnlyAsleep'
  BY DEF DueOnlyAsleep
<1>4. TtlCoversTheFaults'
  <2> SUFFICES ASSUME NEW k \in Keys \ BrokenKeys, redis'[k].here, ~redis'[k].stored
               PROVE  redis'[k].ttl >= Retention - faults' - (IF InCycle(k)' THEN 1 ELSE 0)
    BY DEF TtlCoversTheFaults
  <2>1. ~InCycle(k)
    BY DEF InCycle, TypeIsAhead, UpsertIsAhead, DueOnlyAsleep
  <2> QED
    BY <2>1, CoverKept
<1> QED
  BY <1>1, <1>2, <1>3, <1>4

LEMMA KillInv ==
  ASSUME FlInv, Kill
  PROVE  FlInv'
<1> USE DEF FlInv, Kill
<1>1. FlTypeOK'
  <2>1. worker' \in [pc : PCs, type : DOMAIN Types, call : Nat,
                     keys : SUBSET Keys, fresh : SUBSET Keys]
    BY TypesAreIndexed DEF FlTypeOK, PCs, Down, Asleep
  <2>2. faults' \in 0..MaxFaults
    BY FlushAssumption DEF FlTypeOK, Fault
  <2> QED
    BY <2>1, <2>2 DEF FlTypeOK
<1>2. ReadKeysAreThere'
  BY DEF FlTypeOK, ReadKeysAreThere, WorkerType, Down, Asleep
<1>3. DueOnlyAsleep'
  BY DEF DueOnlyAsleep
<1>4. TtlCoversTheFaults'
  <2> SUFFICES ASSUME NEW k \in Keys \ BrokenKeys, redis'[k].here, ~redis'[k].stored
               PROVE  redis'[k].ttl >= Retention - faults' - (IF InCycle(k)' THEN 1 ELSE 0)
    BY DEF TtlCoversTheFaults
  <2> QED
    BY CoverKept DEF Fault
<1> QED
  BY <1>1, <1>2, <1>3, <1>4

LEMMA StartInv ==
  ASSUME FlInv, Start
  PROVE  FlInv'
<1> USE DEF FlInv, Start
<1>1. FlTypeOK'
  <2>1. worker' \in [pc : PCs, type : DOMAIN Types, call : Nat,
                     keys : SUBSET Keys, fresh : SUBSET Keys]
    BY TypesAreIndexed DEF FlTypeOK, PCs, Asleep
  <2>2. faults' \in 0..MaxFaults
    BY FlushAssumption DEF FlTypeOK
  <2> QED
    BY <2>1, <2>2 DEF FlTypeOK
<1>2. ReadKeysAreThere'
  BY DEF FlTypeOK, ReadKeysAreThere, WorkerType, Asleep
<1>3. DueOnlyAsleep'
  BY DEF DueOnlyAsleep
<1>4. TtlCoversTheFaults'
  <2> SUFFICES ASSUME NEW k \in Keys \ BrokenKeys, redis'[k].here, ~redis'[k].stored
               PROVE  redis'[k].ttl >= Retention - faults' - (IF InCycle(k)' THEN 1 ELSE 0)
    BY DEF TtlCoversTheFaults
  <2>1. ~InCycle(k)
    BY DEF InCycle, TypeIsAhead, UpsertIsAhead, DueOnlyAsleep
  <2> QED
    BY <2>1, CoverKept
<1> QED
  BY <1>1, <1>2, <1>3, <1>4

LEMMA DrainInv ==
  ASSUME FlInv, Drain
  PROVE  FlInv'
<1> USE DEF FlInv, Drain
<1>0. /\ redis' \in [Keys -> Entry]
      /\ \A k \in Keys : redis'[k].here = redis[k].here
      /\ \A k \in Keys : ~redis'[k].stored => redis'[k] = redis[k]
  <2>1. CASE WorkerType \in BrokenTypes
    BY <2>1 DEF FlTypeOK
  <2>2. CASE WorkerType \notin BrokenTypes
    BY <2>2, CommitType
  <2> QED
    BY <2>1, <2>2
<1>1. FlTypeOK'
  <2>1. worker' \in [pc : PCs, type : DOMAIN Types, call : Nat,
                     keys : SUBSET Keys, fresh : SUBSET Keys]
    BY DEF FlTypeOK, PCs
  <2> QED
    BY <1>0, <2>1 DEF FlTypeOK
<1>2. ReadKeysAreThere'
  BY <1>0 DEF FlTypeOK, ReadKeysAreThere, WorkerType
<1>3. DueOnlyAsleep'
  BY DEF DueOnlyAsleep
<1>4. TtlCoversTheFaults'
  <2> SUFFICES ASSUME NEW k \in Keys \ BrokenKeys, redis'[k].here, ~redis'[k].stored
               PROVE  redis'[k].ttl >= Retention - faults' - (IF InCycle(k)' THEN 1 ELSE 0)
    BY DEF TtlCoversTheFaults
  <2>1. ~InCycle(k)
    BY DEF InCycle, TypeIsAhead, UpsertIsAhead, DueOnlyAsleep
  <2> QED
    BY <1>0, <2>1, CoverKept
<1> QED
  BY <1>1, <1>2, <1>3, <1>4

-----------------------------------------------------------------------------

\* No step of the worker, the handlers, Redis or the process leaves FlInv.
LEMMA FlInvStep == FlInv /\ [Next]_vars => FlInv'
<1> SUFFICES ASSUME FlInv, [Next]_vars PROVE FlInv'
  OBVIOUS
<1>1. CASE RealtimeMessage
  BY <1>1, RealtimeMessageInv
<1>2. ASSUME NEW k \in Keys, Expire(k) PROVE FlInv'
  BY <1>2, ExpireInv
<1>3. CASE FlushStep
  BY <1>3, WakeInv, ScanInv, UpsertInv, ResumeInv, FailsInv DEF FlushStep
<1>4. CASE Tick \/ Stop \/ Kill \/ ProcessStep
  BY <1>4, TickInv, StopInv, KillInv, DrainInv, ExitInv, StartInv DEF ProcessStep
<1>5. CASE UNCHANGED vars
  BY <1>5 DEF vars, FlInv, FlTypeOK, ReadKeysAreThere, DueOnlyAsleep,
     TtlCoversTheFaults, InCycle, TypeIsAhead, UpsertIsAhead, WorkerType
<1> QED
  BY <1>1, <1>2, <1>3, <1>4, <1>5 DEF Next

\* flush_once, its restarts and the handlers keep FlInv: in particular the TTL
\* of a value that is not in MySQL covers the cycles that may still fail.
THEOREM FlushInvariant == Spec => []FlInv
  BY InitFlInv, FlInvStep, PTL DEF Spec

\* The types of the flush worker's state hold in every reachable state.
THEOREM FlushTypeCorrect == Spec => []FlTypeOK
<1>1. FlInv => FlTypeOK
  BY DEF FlInv
<1> QED
  BY <1>1, FlushInvariant, PTL

\* A key that expires (Redis, after set_json or expire) does so unstored only
\* when its type is broken, as long as faults stay below the retention.
LEMMA NothingLostStep == FlInv /\ NothingLost /\ [Next]_vars => NothingLost'
<1> SUFFICES ASSUME FlInv, NothingLost, [Next]_vars, MaxFaults + 2 <= Retention
             PROVE  lost' \subseteq BrokenKeys
  BY DEF NothingLost
<1>1. lost \subseteq BrokenKeys
  BY DEF NothingLost
<1>2. CASE UNCHANGED lost
  BY <1>1, <1>2
<1>3. ASSUME NEW k \in Keys, Expire(k) PROVE lost' \subseteq BrokenKeys
  <2>1. CASE redis[k].stored \/ k \in BrokenKeys
    BY <1>1, <1>3, <2>1 DEF Expire
  <2>2. CASE ~redis[k].stored /\ k \notin BrokenKeys
    <3>1. redis[k].here /\ redis[k].ttl = 0
      BY <1>3 DEF Expire
    <3>2. faults \in Nat /\ 0 >= Retention - faults - 1
      BY <2>2, <3>1, TtlBounds
    <3>3. faults <= MaxFaults /\ MaxFaults \in Nat
      BY FlushAssumption DEF FlInv, FlTypeOK
    <3> QED
      BY <3>2, <3>3, TtlAssumption
  <2> QED
    BY <2>1, <2>2
<1>4. CASE RealtimeMessage
  BY <1>2, <1>4 DEF RealtimeMessage, HandleDerivatives, HandleDepth, Write
<1>5. CASE Tick \/ FlushStep \/ Stop \/ Kill \/ ProcessStep \/ UNCHANGED vars
  BY <1>2, <1>5 DEF Tick, FlushStep, Wake, Scan, Upsert, Resume, Fails, Stop, Kill,
     ProcessStep, Drain, Exit, Start, vars
<1> QED
  BY <1>3, <1>4, <1>5 DEF Next

\* No value of the realtime handlers leaves Redis before flush_once has put it
\* into MySQL, as long as there are at most Retention - 2 faults.
THEOREM FlushLosesNothing == Spec => []NothingLost
<1>1. Init => NothingLost
  BY DEF Init, NothingLost
<1> QED
  BY <1>1, NothingLostStep, FlushInvariant, PTL DEF Spec
=============================================================================
