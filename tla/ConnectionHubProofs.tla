-------------------------- MODULE ConnectionHubProofs --------------------------
(***************************************************************************)
(* Proofs about the WebSocket server, for every number of clients, calls   *)
(* of broadcast, routes and requests: the registry and the subscriptions,  *)
(* the limit on connections, and whom a broadcast may miss.                *)
(***************************************************************************)
EXTENDS ConnectionHub, FiniteSetTheorems, TLAPS

USE HubAssumption

\* A bounded set of naturals has a smallest element, what Min is worth in a proof: from
\* the well-foundedness of strict inclusion, where k stands for the interval 0..k.
LEMMA MinIsSmallest ==
    ASSUME NEW n \in Nat, NEW S \in SUBSET (0..n), S # {}
    PROVE  Min(S) \in S /\ \A k \in S : Min(S) <= k
<1> DEFINE T == {0..k : k \in S}
           R == StrictSubsetOrdering(0..n)
<1>1. IsFiniteSet(0..n)
  BY FS_Interval
<1>2. IsWellFoundedOn(R, FiniteSubsetsOf(0..n))
  BY <1>1, FS_StrictSubsetOrderingWellFounded
<1>3. T \subseteq FiniteSubsetsOf(0..n) /\ T # {}
  <2>1. ASSUME NEW k \in S PROVE 0..k \in SUBSET (0..n)
    OBVIOUS
  <2>2. FiniteSubsetsOf(0..n) = SUBSET (0..n)
    BY <1>1, FS_FiniteSubsetsOfFinite
  <2>3. T \subseteq SUBSET (0..n) /\ T # {}
    BY <2>1
  <2> QED
    BY <2>2, <2>3
<1> HIDE DEF R
<1>4. PICK x \in T : \A y \in T : ~(<<y, x>> \in R)
  BY <1>2, <1>3, WFMin
<1>5. PICK m \in S : x = 0..m
  OBVIOUS
<1>6. ASSUME NEW k \in S, k < m PROVE FALSE
  <2>1. 0..k \in T /\ 0..k \in SUBSET (0..n) /\ 0..m \in SUBSET (0..n)
    OBVIOUS
  <2>2. 0..k \subseteq 0..m /\ m \in 0..m /\ m \notin 0..k
    BY <1>6
  <2> QED
    BY <1>4, <1>5, <2>1, <2>2 DEF R, StrictSubsetOrdering
<1>7. m \in S /\ \A k \in S : m <= k
  BY <1>6
<1> QED
  BY <1>7 DEF Min

-----------------------------------------------------------------------------
(* The inductive invariant.                                                *)

CastRecord == [pc : {"idle", "sending", "over"}, key : Keys, pos : Nat, left : Nat,
               size : Nat, stale : SUBSET Clients, owed : SUBSET Clients]

\* A registered client has one entry; those with an entry have been accepted.
OrderInv ==
    /\ \A i, j \in DOMAIN order : order[i] = order[j] => i = j
    /\ \A i \in DOMAIN order : handler[order[i]] \notin {"new", "accepting"}
    /\ \A c \in connections : \E i \in DOMAIN order : order[i] = c

TopicsInv ==
    \A c \in Clients : /\ IsFiniteSet(topics[c])
                       /\ Cardinality(topics[c]) <= MaxSubscriptions
                       /\ \A t \in topics[c] : ~Invalid(t)

\* While accept() calls do not overlap, whoever is let in finds room.
LimitInv ==
    ~overlapped =>
        /\ Cardinality(connections) <= MaxConnections
        /\ \A c, d \in Clients : handler[c] = "accepting" /\ handler[d] = "accepting"
                                    => c = d
        /\ (\E c \in Clients : handler[c] = "accepting")
              => Cardinality(connections) < MaxConnections

\* A broadcast that owes its message runs over the registry it started with: it
\* has the entries left that it still has to visit, and those it owes among them.
Owes(x, ord, conns, tops) ==
    /\ Cardinality(conns) = x.size
    /\ Cardinality({k \in (x.pos + 1)..Len(ord) : ord[k] \in conns}) <= x.left
    /\ \A c \in x.owed : /\ c \in conns /\ x.key \in tops[c]
                         /\ \E k \in DOMAIN ord : x.pos <= k /\ ord[k] = c

CastOK(x, ord, conns, tops, open) ==
    /\ x.pc = "sending" => x.pos \in DOMAIN ord
    /\ x.pc # "sending" => x.owed = {}
    /\ x.stale \cap open = {}
    /\ x.owed # {} => Owes(x, ord, conns, tops)

CastInv == \A b \in Casts : CastOK(cast[b], order, connections, topics, up)

HubIInv ==
    HubTypeOK /\ RegisteredWhileServed /\ OrderInv /\ TopicsInv /\ LimitInv /\ CastInv

-----------------------------------------------------------------------------
(* Sets of positions.                                                      *)

LEMMA PositionsAreFinite ==
    ASSUME NEW n \in Nat, NEW S \in SUBSET (1..n)
    PROVE  IsFiniteSet(S) /\ Cardinality(S) \in Nat
<1>1. IsFiniteSet(1..n)
  BY FS_Interval
<1>2. IsFiniteSet(S)
  BY <1>1, FS_Subset
<1> QED
  BY <1>2, FS_CardinalityType

LEMMA ConnectionsAreFinite ==
    ASSUME NEW conns \in SUBSET Clients
    PROVE  /\ IsFiniteSet(conns) /\ Cardinality(conns) \in Nat
           /\ \A gone : Cardinality(conns \ gone) <= Cardinality(conns)
<1>1. IsFiniteSet(conns)
  BY FS_Subset
<1>2. ASSUME NEW gone PROVE Cardinality(conns \ gone) <= Cardinality(conns)
  <2>1. conns \ gone \in SUBSET conns
    OBVIOUS
  <2> QED
    BY <1>1, <2>1, FS_Subset
<1>3. Cardinality(conns) \in Nat
  BY <1>1, FS_CardinalityType
<1> QED
  BY <1>1, <1>2, <1>3

-----------------------------------------------------------------------------
(* What other coroutines do to a broadcast.                                *)

\* Connections close and topics are added: nothing is owed that was not.
LEMMA CastStable ==
    ASSUME NEW x, NEW ord, NEW conns, NEW tops, NEW tops2, NEW open,
           NEW open2 \in SUBSET open, CastOK(x, ord, conns, tops, open),
           \A c \in x.owed : x.key \in tops2[c]
    PROVE  CastOK(x, ord, conns, tops2, open2)
BY DEF CastOK, Owes

\* The registry changes.
LEMMA CastChanged ==
    ASSUME NEW f \in [Casts -> CastRecord], NEW b \in Casts,
           NEW ord, NEW conns, NEW tops, NEW open,
           CastOK(f[b], ord, conns, tops, open),
           NEW ord2, DOMAIN ord \subseteq DOMAIN ord2, NEW conns2, NEW tops2,
           NEW open2 \in SUBSET open
    PROVE  /\ Changed(f) \in [Casts -> CastRecord]
           /\ CastOK(Changed(f)[b], ord2, conns2, tops2, open2)
<1>1. Changed(f) \in [Casts -> CastRecord]
  BY DEF Changed, CastRecord
<1>2. CASE f[b].pc = "sending"
  <2>1. Changed(f)[b] = [f[b] EXCEPT !.owed = {}]
    BY <1>2 DEF Changed
  <2> QED
    BY <1>1, <1>2, <2>1 DEF CastOK, CastRecord
<1>3. CASE f[b].pc # "sending"
  <2>1. Changed(f)[b] = f[b]
    BY <1>3 DEF Changed
  <2> QED
    BY <1>1, <1>3, <2>1 DEF CastOK, CastRecord
<1> QED
  BY <1>2, <1>3

-----------------------------------------------------------------------------
(* The loop of a broadcast.                                                *)

\* What a step of a broadcast does to the rest: it may only throw out clients
\* whose connection is closed.
LEMMA StaleThrownOut ==
    ASSUME HubIInv, NEW gone, gone \cap up = {}, connections' = connections \ gone,
           UNCHANGED <<handler, up, topics, order, overlapped>>
    PROVE  RegisteredWhileServed' /\ OrderInv' /\ TopicsInv' /\ LimitInv'
<1> USE DEF HubIInv, HubTypeOK
<1>1. RegisteredWhileServed'
  BY DEF RegisteredWhileServed
<1>2. OrderInv'
  BY DEF OrderInv
<1>3. TopicsInv'
  BY DEF TopicsInv, Invalid
<1>4. LimitInv'
  <2>1. /\ Cardinality(connections) \in Nat /\ Cardinality(connections') \in Nat
        /\ Cardinality(connections') <= Cardinality(connections)
    <3>1. connections \in SUBSET Clients /\ connections' \in SUBSET Clients
      OBVIOUS
    <3> QED
      BY <3>1, ConnectionsAreFinite
  <2> QED
    BY <2>1 DEF LimitInv
<1> QED
  BY <1>1, <1>2, <1>3, <1>4

\* it, an iterator of broadcast b, is about to look for its next client.
LEMMA AdvanceKeeps ==
    ASSUME HubIInv, NEW b \in Casts, NEW it \in CastRecord, it.pc = "sending",
           it.pos \in 0..Len(order), it.stale \cap up = {},
           it.owed # {} =>
              /\ Cardinality(connections) = it.size
              /\ Cardinality(LiveAfter(it.pos)) <= it.left
              /\ \A c \in it.owed : /\ c \in connections /\ it.key \in topics[c]
                                    /\ \E k \in LiveAfter(it.pos) : order[k] = c,
           Advance(b, it), UNCHANGED <<handler, up, topics, order, overlapped>>
    PROVE  HubIInv'
<1> DEFINE todo == LiveAfter(it.pos)
           wanted == {k \in todo : it.key \in topics[order[k]]}
           passed == IF wanted = {} THEN todo ELSE {k \in todo : k <= Min(wanted)}
           raises == \/ Cardinality(connections) # it.size
                     \/ Cardinality(passed) > it.left
           next == [it EXCEPT !.pos = Min(wanted), !.left = @ - Cardinality(passed)]
           ended == [cast EXCEPT ![b] = Over(it)]
<1>0. /\ Len(order) \in Nat /\ DOMAIN order = 1..Len(order) /\ it.pos \in Nat
      /\ cast \in [Casts -> CastRecord]
      /\ \A a \in Casts : CastOK(cast[a], order, connections, topics, up)
  BY DEF HubIInv, HubTypeOK, CastInv, CastRecord
<1>1. /\ todo \in SUBSET (1..Len(order)) /\ wanted \in SUBSET (1..Len(order))
      /\ passed \in SUBSET todo
  BY <1>0 DEF LiveAfter
<1>2. /\ IsFiniteSet(todo) /\ Cardinality(todo) \in Nat
      /\ IsFiniteSet(passed) /\ Cardinality(passed) \in Nat
      /\ Cardinality(passed) <= Cardinality(todo)
  BY <1>0, <1>1, PositionsAreFinite, FS_Subset
<1> HIDE DEF wanted, passed
<1>3. raises => it.owed = {}
  BY <1>2 DEF CastRecord
<1>4. wanted = {} => it.owed = {}
  BY DEF wanted
<1>5. ASSUME it.owed = {}
      PROVE  /\ ended \in [Casts -> CastRecord]
             /\ \A a \in Casts : CastOK(ended[a], order, connections, topics, up)
  <2>1. /\ Over(it) \in CastRecord
        /\ CastOK(Over(it), order, connections, topics, up)
    <3>1. StreamStatusKey \in Keys
      BY DEF Keys
    <3>2. Unstarted \in CastRecord /\ Unstarted.stale = {}
      BY <3>1 DEF Unstarted, CastRecord
    <3>3. /\ Over(it) \in CastRecord /\ Over(it).pc = "over"
          /\ Over(it).owed = {} /\ Over(it).stale = {}
      BY <1>5, <3>2 DEF Over, CastRecord
    <3> QED
      BY <3>3 DEF CastOK
  <2> QED
    BY <1>0, <2>1
<1>6. CASE raises /\ cast' = ended /\ UNCHANGED connections
  <2>1. HubTypeOK' /\ CastInv'
    BY <1>3, <1>5, <1>6 DEF HubIInv, HubTypeOK, CastInv, CastRecord
  <2>2. connections' = connections \ {}
    BY <1>6
  <2> QED
    BY <2>1, <2>2, StaleThrownOut DEF HubIInv
<1>7. CASE ~raises /\ wanted # {} /\ cast' = [cast EXCEPT ![b] = next] /\ UNCHANGED connections
  <2>1. Min(wanted) \in wanted /\ \A k \in wanted : Min(wanted) <= k
    BY <1>0, <1>1, <1>7, MinIsSmallest
  <2>2. Min(wanted) \in todo /\ Min(wanted) \in 1..Len(order) /\ it.pos <= Min(wanted)
    BY <1>0, <1>1, <2>1 DEF wanted, LiveAfter
  <2>3. next \in CastRecord
    <3>1. it.left - Cardinality(passed) \in Nat
      BY <1>2, <1>7 DEF CastRecord
    <3>2. Min(wanted) \in Nat
      BY <1>0, <2>2
    <3> QED
      BY <3>1, <3>2 DEF CastRecord
  <2>4. ASSUME it.owed # {} PROVE Owes(next, order, connections, topics)
    <3>1. {k \in (Min(wanted) + 1)..Len(order) : order[k] \in connections} = todo \ passed
      BY <1>0, <1>7, <2>2 DEF passed, LiveAfter
    <3>2. Cardinality(todo \ passed) = Cardinality(todo) - Cardinality(passed)
      <4>1. todo \cap passed = passed
        BY <1>1
      <4>2. Cardinality(todo \ passed) = Cardinality(todo) - Cardinality(todo \cap passed)
        BY <1>2, FS_Difference
      <4> QED
        BY <4>1, <4>2
    <3>3. \A c \in it.owed : /\ c \in connections /\ it.key \in topics[c]
                             /\ \E k \in DOMAIN order : Min(wanted) <= k /\ order[k] = c
      BY <1>0, <1>1, <2>1, <2>4 DEF wanted
    <3>4. /\ next.pos = Min(wanted) /\ next.left = it.left - Cardinality(passed)
          /\ next.size = it.size /\ next.key = it.key /\ next.owed = it.owed
      BY DEF CastRecord
    <3>5. Cardinality(todo \ passed) <= next.left
      BY <1>2, <2>4, <3>2, <3>4 DEF CastRecord
    <3> QED
      BY ZenonT(30), <2>4, <3>1, <3>3, <3>4, <3>5 DEF Owes
  <2>5. CastOK(next, order, connections, topics, up)
    BY <1>0, <2>2, <2>4 DEF CastOK, CastRecord
  <2>6. HubTypeOK' /\ CastInv'
    BY <1>0, <1>7, <2>3, <2>5 DEF HubIInv, HubTypeOK, CastInv, CastRecord
  <2>7. connections' = connections \ {}
    BY <1>7
  <2> QED
    BY <2>6, <2>7, StaleThrownOut DEF HubIInv
<1>8. CASE wanted = {} /\ Unregister(it.stale, ended)
  <2>1. connections' = connections \ it.stale
    BY <1>8 DEF Unregister
  <2>2. CASE it.stale \cap connections = {}
    <3>1. cast' = ended /\ connections' = connections
      BY <1>8, <2>2 DEF Unregister
    <3> QED
      BY <1>4, <1>5, <1>8, <2>1, <3>1, StaleThrownOut
         DEF HubIInv, HubTypeOK, CastInv, CastRecord
  <2>3. CASE it.stale \cap connections # {}
    <3>1. cast' = Changed(ended)
      BY <1>8, <2>3 DEF Unregister
    <3>2. /\ cast' \in [Casts -> CastRecord]
          /\ \A a \in Casts : CastOK(cast'[a], order, connections', topics, up)
      <4>1. /\ ended \in [Casts -> CastRecord]
            /\ \A a \in Casts : CastOK(ended[a], order, connections, topics, up)
        BY <1>4, <1>5, <1>8
      <4> HIDE DEF ended
      <4>2. ASSUME NEW a \in Casts
            PROVE  /\ Changed(ended) \in [Casts -> CastRecord]
                   /\ CastOK(Changed(ended)[a], order, connections', topics, up)
        BY <4>1, CastChanged
      <4> QED
        BY <3>1, <4>2 DEF Changed
    <3> QED
      BY <2>1, <3>2, StaleThrownOut DEF HubIInv, HubTypeOK, CastInv, CastRecord
  <2> QED
    BY <2>2, <2>3
<1> QED
  BY <1>6, <1>7, <1>8 DEF Advance, wanted, passed

-----------------------------------------------------------------------------
(* What the steps of the endpoints share.                                  *)

\* No client is let in, and none joins the registry.
LEMMA LimitKept ==
    ASSUME HubTypeOK, LimitInv, connections' \subseteq connections, overlapped' = overlapped,
           \A c \in Clients : handler'[c] = "accepting" => handler[c] = "accepting"
    PROVE  LimitInv'
<1>1. connections \in SUBSET Clients /\ connections' \in SUBSET Clients
  BY DEF HubTypeOK
<1>2. /\ Cardinality(connections) \in Nat /\ Cardinality(connections') \in Nat
      /\ Cardinality(connections') <= Cardinality(connections)
  BY <1>1, ConnectionsAreFinite, FS_Subset
<1> QED
  BY <1>2 DEF LimitInv

\* The registry and the broadcasts stay; connections close, topics are added.
LEMMA CastsKept ==
    ASSUME CastInv, UNCHANGED <<order, connections, cast>>, up' \subseteq up,
           HubTypeOK, \A c \in Clients : topics[c] \subseteq topics'[c]
    PROVE  CastInv'
<1> SUFFICES ASSUME NEW b \in Casts
             PROVE  CastOK(cast[b], order, connections, topics', up')
  BY DEF CastInv
<1>1. CastOK(cast[b], order, connections, topics, up) /\ cast[b].owed \in SUBSET Clients
  BY DEF CastInv, HubTypeOK
<1>2. ASSUME NEW c \in cast[b].owed PROVE cast[b].key \in topics'[c]
  BY <1>1, <1>2 DEF CastOK, Owes
<1> QED
  BY <1>1, <1>2, CastStable

\* An endpoint that serves its client ends.
LEMMA LeaveKeeps ==
    ASSUME HubIInv, NEW c \in Clients, handler[c] \in Serving, Leave(c)
    PROVE  HubIInv'
<1> USE DEF HubIInv, HubTypeOK
<1>1. /\ handler' = [handler EXCEPT ![c] = "gone"] /\ up' = up \ {c}
      /\ topics' = [topics EXCEPT ![c] = {}] /\ connections' = connections \ {c}
      /\ UNCHANGED <<order, overlapped>>
  BY DEF Leave, Unregister
<1>2. RegisteredWhileServed'
  BY <1>1 DEF RegisteredWhileServed, Serving
<1>3. OrderInv'
  BY <1>1 DEF OrderInv
<1>4. TopicsInv'
  BY <1>1, FS_EmptySet DEF TopicsInv, Invalid
<1>5. LimitInv'
  BY <1>1, LimitKept
<1>6. cast \in [Casts -> CastRecord]
  BY DEF CastRecord
<1>7. cast' \in [Casts -> CastRecord] /\ CastInv'
  <2>1. CASE c \in connections
    <3>1. cast' = Changed(cast)
      BY <2>1 DEF Leave, Unregister
    <3>2. ASSUME NEW b \in Casts
          PROVE  /\ Changed(cast) \in [Casts -> CastRecord]
                 /\ CastOK(Changed(cast)[b], order, connections', topics', up')
      <4>1. CastOK(cast[b], order, connections, topics, up) /\ up' \in SUBSET up
        BY <1>1 DEF CastInv
      <4> QED
        BY <1>6, <4>1, CastChanged
    <3>3. CASE Casts = {}
      BY <3>1, <3>3 DEF Changed, CastInv
    <3> QED
      BY <1>1, <3>1, <3>2, <3>3 DEF CastInv
  <2>2. CASE c \notin connections
    <3>1. cast' = cast /\ connections' = connections
      BY <1>1, <2>2 DEF Leave, Unregister
    <3>2. ASSUME NEW b \in Casts
          PROVE  CastOK(cast[b], order, connections, topics', up')
      <4>1. CastOK(cast[b], order, connections, topics, up) /\ up' \in SUBSET up
        BY <1>1 DEF CastInv
      <4>2. \A d \in cast[b].owed : cast[b].key \in topics'[d]
        BY <1>1, <2>2, <4>1 DEF CastOK, Owes
      <4> QED
        BY <4>1, <4>2, CastStable
    <3> QED
      BY <1>1, <1>6, <3>1, <3>2 DEF CastInv
  <2> QED
    BY <2>1, <2>2
<1>8. HubTypeOK'
  BY <1>1, <1>7 DEF CastRecord
<1> QED
  BY <1>2, <1>3, <1>4, <1>5, <1>7, <1>8

-----------------------------------------------------------------------------
(* The steps.                                                              *)

LEMMA InitHubInv == Init => HubIInv
<1> SUFFICES ASSUME Init PROVE HubIInv
  OBVIOUS
<1> USE DEF Init
<1>1. StreamStatusKey \in Keys
  BY DEF Keys
<1>2. Unstarted \in CastRecord /\ Unstarted.stale = {} /\ Unstarted.owed = {}
      /\ Unstarted.pc = "idle"
  BY <1>1 DEF Unstarted, CastRecord
<1>3. HubTypeOK
  <2>1. cast \in [Casts -> CastRecord]
    BY <1>2
  <2>2. /\ handler \in [Clients -> {"new", "accepting", "gone"} \cup Serving]
        /\ topics \in [Clients -> SUBSET Topics] /\ order \in Seq(Clients)
    OBVIOUS
  <2> QED
    BY <2>1, <2>2 DEF HubTypeOK, CastRecord
<1>4. RegisteredWhileServed /\ OrderInv
  BY DEF RegisteredWhileServed, OrderInv, Serving
<1>5. TopicsInv /\ LimitInv
  BY FS_EmptySet DEF TopicsInv, LimitInv
<1>6. CastInv
  BY <1>2 DEF CastInv, CastOK
<1> QED
  BY <1>3, <1>4, <1>5, <1>6 DEF HubIInv

\* The steps that change neither the registry nor the broadcasts.
LEMMA EndpointKeeps ==
    ASSUME HubIInv, NEW c \in Clients,
           Refuse(c) \/ Admit(c) \/ AcceptFails(c) \/ Answered(c) \/ Drop(c)
    PROVE  HubIInv'
<1> USE DEF HubIInv, HubTypeOK
<1>1. /\ \E s \in {"accepting", "receiving", "gone"} :
            handler' = [handler EXCEPT ![c] = s] \/ handler' = handler
      /\ up' \subseteq up /\ overlapped' \in BOOLEAN
      /\ UNCHANGED <<topics, order, connections, cast>>
  BY DEF Refuse, Admit, AcceptFails, Answered, Drop
<1>2. HubTypeOK'
  BY <1>1 DEF Serving
<1>3. RegisteredWhileServed'
  BY DEF RegisteredWhileServed, Refuse, Admit, AcceptFails, Answered, Drop, Serving
<1>4. OrderInv'
  BY DEF OrderInv, Refuse, Admit, AcceptFails, Answered, Drop
<1>5. TopicsInv'
  BY <1>1 DEF TopicsInv, Invalid
<1>6. CastInv'
  BY <1>1, CastsKept
<1>7. LimitInv'
  <2>1. CASE Admit(c)
    <3>1. Cardinality(connections) \in Nat
      BY ConnectionsAreFinite
    <3>2. /\ handler' = [handler EXCEPT ![c] = "accepting"] /\ connections' = connections
          /\ Cardinality(connections) < MaxConnections
      BY <2>1, <3>1 DEF Admit, IsFull
    <3>4. ~overlapped' => ~overlapped /\ \A d \in Clients : handler[d] # "accepting"
      BY <2>1, Zenon DEF Admit
    <3>3. ASSUME ~overlapped', NEW a \in Clients, NEW d \in Clients,
                 handler'[a] = "accepting", handler'[d] = "accepting"
          PROVE  a = d
      BY <3>2, <3>3, <3>4
    <3> QED
      BY <3>1, <3>2, <3>3, <3>4 DEF LimitInv
  <2>2. CASE Refuse(c) \/ AcceptFails(c) \/ Answered(c) \/ Drop(c)
    BY <2>2, LimitKept DEF Refuse, AcceptFails, Answered, Drop
  <2> QED
    BY <2>1, <2>2
<1> QED
  BY <1>2, <1>3, <1>4, <1>5, <1>6, <1>7

LEMMA AcceptedKeeps ==
    ASSUME HubIInv, NEW c \in Clients, Accepted(c) PROVE HubIInv'
<1> USE DEF HubIInv, HubTypeOK
<1>1. /\ handler[c] = "accepting" /\ handler' = [handler EXCEPT ![c] = "receiving"]
      /\ order' = Append(order, c) /\ connections' = connections \cup {c}
      /\ cast' = Changed(cast) /\ UNCHANGED <<up, topics, overlapped>>
  BY DEF Accepted, Register
<1>2. /\ Len(order) \in Nat /\ DOMAIN order = 1..Len(order)
      /\ order' \in Seq(Clients) /\ DOMAIN order' = 1..Len(order) + 1
      /\ \A i \in DOMAIN order : order'[i] = order[i]
      /\ order'[Len(order) + 1] = c
  BY <1>1
<1>3. \A i \in DOMAIN order : order[i] # c
  BY <1>1 DEF OrderInv
<1>4. RegisteredWhileServed'
  BY <1>1 DEF RegisteredWhileServed, Serving
<1>5. OrderInv'
  <2>1. \A i \in DOMAIN order' : i \in DOMAIN order \/ i = Len(order) + 1
    BY <1>2
  <2>2. \A i, j \in DOMAIN order' : order'[i] = order'[j] => i = j
    BY <1>2, <1>3, <2>1 DEF OrderInv
  <2>3. \A i \in DOMAIN order' : handler'[order'[i]] \notin {"new", "accepting"}
    BY <1>1, <1>2, <1>3, <2>1 DEF OrderInv
  <2>4. ASSUME NEW d \in connections' PROVE \E i \in DOMAIN order' : order'[i] = d
    <3>1. CASE d = c
      <4>1. Len(order) + 1 \in DOMAIN order' /\ order'[Len(order) + 1] = d
        BY <1>2, <3>1
      <4> QED
        BY <4>1
    <3>2. CASE d \in connections
      <4>1. PICK i \in DOMAIN order : order[i] = d
        BY <3>2 DEF OrderInv
      <4>2. i \in DOMAIN order' /\ order'[i] = d
        BY <1>2, <4>1
      <4> QED
        BY <4>2
    <3> QED
      BY <1>1, <3>1, <3>2
  <2> QED
    BY <2>2, <2>3, <2>4 DEF OrderInv
<1>6. TopicsInv'
  BY <1>1 DEF TopicsInv, Invalid
<1>7. LimitInv'
  <2>1. IsFiniteSet(connections) /\ Cardinality(connections) \in Nat
    BY ConnectionsAreFinite
  <2>2. Cardinality(connections \cup {c})
          = IF c \in connections THEN Cardinality(connections) ELSE Cardinality(connections) + 1
    BY <2>1, FS_AddElement
  <2>3. /\ Cardinality(connections') \in Nat
        /\ Cardinality(connections') <= Cardinality(connections) + 1
    BY <1>1, <2>1, <2>2
  <2>4. ASSUME ~overlapped
        PROVE  /\ Cardinality(connections) < MaxConnections
               /\ \A d \in Clients : handler'[d] # "accepting"
    BY <1>1, <2>4 DEF LimitInv
  <2> QED
    BY <1>1, <2>1, <2>3, <2>4 DEF LimitInv
<1>8. cast \in [Casts -> CastRecord]
  BY DEF CastRecord
<1>9. ASSUME NEW b \in Casts
      PROVE  /\ cast' \in [Casts -> CastRecord]
             /\ CastOK(cast'[b], order', connections', topics', up')
  <2>1. /\ CastOK(cast[b], order, connections, topics, up) /\ up' \in SUBSET up
        /\ DOMAIN order \subseteq DOMAIN order'
    BY <1>1, <1>2 DEF CastInv
  <2>2. /\ Changed(cast) \in [Casts -> CastRecord]
        /\ CastOK(Changed(cast)[b], order', connections', topics', up')
    BY <1>8, <2>1, CastChanged
  <2> QED
    BY <1>1, <2>2
<1>10. HubTypeOK'
  <2>1. cast' \in [Casts -> CastRecord]
    <3>1. CASE Casts = {}
      BY <1>1, <3>1 DEF Changed
    <3> QED
      BY <1>9, <3>1
  <2> QED
    BY <1>1, <1>2, <2>1 DEF CastRecord, Serving
<1> QED
  BY <1>4, <1>5, <1>6, <1>7, <1>9, <1>10 DEF CastInv

\* A request names finitely many topics, and a valid one only valid topics.
LEMMA RequestTopics ==
    ASSUME NEW r \in Requests, NEW c \in Clients, HubTypeOK
    PROVE  /\ Len(r.topics) \in Nat /\ DOMAIN r.topics = 1..Len(r.topics)
           /\ \A k \in DOMAIN r.topics : r.topics[k] \in Topics
           /\ IsValid(r) => \A k \in DOMAIN r.topics : ~Invalid(r.topics[k])
           /\ NewAt(c, r) \in SUBSET (DOMAIN r.topics)
           /\ IsFiniteSet({r.topics[k] : k \in NewAt(c, r)})
           /\ Cardinality({r.topics[k] : k \in NewAt(c, r)}) <= Cardinality(NewAt(c, r))
           /\ Cardinality({r.topics[k] : k \in NewAt(c, r)}) \in Nat
           /\ Cardinality(NewAt(c, r)) \in Nat
<1> DEFINE new == {r.topics[k] : k \in NewAt(c, r)}
           name == [k \in NewAt(c, r) |-> r.topics[k]]
           bad == {k \in DOMAIN r.topics : Invalid(r.topics[k])}
<1>1. /\ Len(r.topics) \in Nat /\ DOMAIN r.topics = 1..Len(r.topics)
      /\ \A k \in DOMAIN r.topics : r.topics[k] \in Topics
  BY DEF HubTypeOK
<1>2. IsValid(r) => \A k \in DOMAIN r.topics : ~Invalid(r.topics[k])
  <2>1. bad # {} => Min(bad) \in bad
    <3>1. bad \in SUBSET (0..Len(r.topics))
      BY <1>1
    <3> QED
      BY <1>1, <3>1, MinIsSmallest
  <2>2. bad # {} => Min(bad) # 0
    BY <1>1, <2>1
  <2> QED
    BY <2>2 DEF IsValid, FirstInvalid
<1>3. NewAt(c, r) \in SUBSET (DOMAIN r.topics)
  BY DEF NewAt
<1>4. IsFiniteSet(NewAt(c, r)) /\ Cardinality(NewAt(c, r)) \in Nat
  BY <1>1, <1>3, PositionsAreFinite
<1>5. name \in Surjection(NewAt(c, r), new)
  BY DEF Surjection
<1>6. IsFiniteSet(new) /\ Cardinality(new) <= Cardinality(NewAt(c, r))
  BY <1>4, <1>5, FS_Surjection
<1>7. Cardinality(new) \in Nat
  BY <1>6, FS_CardinalityType
<1> QED
  BY <1>1, <1>2, <1>3, <1>4, <1>6, <1>7

LEMMA ReceiveKeeps ==
    ASSUME HubIInv, NEW c \in Clients, Receive(c) PROVE HubIInv'
<1> USE DEF HubIInv, HubTypeOK
<1>0. handler[c] = "receiving"
  BY DEF Receive
<1>1. PICK r \in Requests : Subscribe(c, r) \/ NoChange(c, r) \/ Unsubscribe(c, r) \/ Crash(c, r)
  BY DEF Receive
<1>2. CASE Crash(c, r)
  BY <1>0, <1>2, LeaveKeeps DEF Crash, Serving
\* The other answers keep the registry.
<1>3. ASSUME ToAnswer(c), HubTypeOK', TopicsInv', CastInv'
      PROVE  HubIInv'
  <2>1. handler' = [handler EXCEPT ![c] = "answering"]
        /\ UNCHANGED <<up, order, connections, overlapped>>
    BY <1>3 DEF ToAnswer
  <2>2. RegisteredWhileServed' /\ OrderInv'
    BY <1>0, <2>1 DEF RegisteredWhileServed, OrderInv, Serving
  <2>3. LimitInv'
    BY <2>1, LimitKept
  <2> QED
    BY <1>3, <2>2, <2>3
<1>4. CASE NoChange(c, r)
  <2>1. ToAnswer(c) /\ UNCHANGED <<topics, cast>>
    BY <1>4 DEF NoChange
  <2>2. HubTypeOK'
    BY <2>1 DEF ToAnswer, Serving
  <2>3. TopicsInv' /\ CastInv'
    BY <2>1, CastsKept DEF ToAnswer, TopicsInv, Invalid
  <2> QED
    BY <1>3, <2>1, <2>2, <2>3
<1>5. CASE Subscribe(c, r)
  <2> DEFINE new == {r.topics[k] : k \in NewAt(c, r)}
  <2>1. /\ ToAnswer(c) /\ topics' = [topics EXCEPT ![c] = @ \cup new] /\ cast' = cast
        /\ IsValid(r) /\ Fits(c, r)
    BY <1>5 DEF Subscribe
  <2>2. new \subseteq Topics /\ \A t \in new : ~Invalid(t)
    <3>1. /\ NewAt(c, r) \in SUBSET (DOMAIN r.topics)
          /\ \A k \in DOMAIN r.topics : r.topics[k] \in Topics /\ ~Invalid(r.topics[k])
      BY <2>1, RequestTopics
    <3> QED
      BY <3>1
  <2>3. HubTypeOK'
    BY <2>1, <2>2 DEF ToAnswer, Serving
  <2>4. CastInv'
    BY <2>1, CastsKept DEF ToAnswer
  <2>5. IsFiniteSet(topics[c]) /\ Cardinality(topics[c]) \in Nat
    BY FS_CardinalityType DEF TopicsInv
  <2>6. IsFiniteSet(new) /\ Cardinality(new) \in Nat /\ Cardinality(NewAt(c, r)) \in Nat
        /\ Cardinality(new) <= Cardinality(NewAt(c, r))
    BY RequestTopics
  <2> HIDE DEF new
  <2>7. /\ IsFiniteSet(topics[c] \cup new)
        /\ Cardinality(topics[c] \cup new)
             = Cardinality(topics[c]) + Cardinality(new) - Cardinality(topics[c] \cap new)
    BY <2>5, <2>6, FS_Union
  <2>8. Cardinality(topics[c] \cap new) \in Nat
    BY <2>5, FS_Subset, FS_CardinalityType
  <2>9. Cardinality(topics[c] \cup new) <= MaxSubscriptions
    BY <2>1, <2>5, <2>6, <2>7, <2>8 DEF Fits
  <2>10. TopicsInv'
    BY <2>1, <2>2, <2>7, <2>9 DEF TopicsInv, Invalid
  <2> QED
    BY <1>3, <2>1, <2>3, <2>4, <2>10
<1>6. CASE Unsubscribe(c, r)
  <2> DEFINE removed == {r.topics[k] : k \in DOMAIN r.topics}
  <2>1. /\ ToAnswer(c) /\ topics' = [topics EXCEPT ![c] = @ \ removed]
        /\ cast' = [b \in Casts |-> IF cast[b].key \in removed
                                    THEN [cast[b] EXCEPT !.owed = @ \ {c}] ELSE cast[b]]
    BY <1>6 DEF Unsubscribe
  <2> HIDE DEF removed
  <2>2. cast \in [Casts -> CastRecord]
    BY DEF CastRecord
  <2>3. cast' \in [Casts -> CastRecord]
    BY ZenonT(30), <2>1, <2>2 DEF CastRecord
  <2>4. HubTypeOK'
    BY <2>1, <2>3 DEF ToAnswer, Serving, CastRecord
  <2>5. TopicsInv'
    <3>1. topics[c] \ removed \in SUBSET topics[c]
      OBVIOUS
    <3>2. /\ IsFiniteSet(topics[c]) /\ Cardinality(topics[c]) \in Nat
          /\ Cardinality(topics[c]) <= MaxSubscriptions
      BY FS_CardinalityType DEF TopicsInv
    <3>3. /\ IsFiniteSet(topics[c] \ removed)
          /\ Cardinality(topics[c] \ removed) <= Cardinality(topics[c])
      BY <3>1, <3>2, FS_Subset
    <3>4. Cardinality(topics[c] \ removed) \in Nat
      BY <3>3, FS_CardinalityType
    <3>5. Cardinality(topics[c] \ removed) <= MaxSubscriptions
      BY <3>2, <3>3, <3>4
    <3> QED
      BY <2>1, <3>3, <3>5 DEF TopicsInv, Invalid
  <2>6. CastInv'
    <3> SUFFICES ASSUME NEW b \in Casts
                 PROVE  CastOK(cast'[b], order, connections, topics', up)
      BY <2>1 DEF CastInv, ToAnswer
    <3>1. CastOK(cast[b], order, connections, topics, up) /\ cast[b] \in CastRecord
      BY <2>2 DEF CastInv
    <3>2. CASE cast[b].key \in removed
      <4>1. cast'[b] = [cast[b] EXCEPT !.owed = @ \ {c}]
        BY <2>1, <3>2
      <4>2. /\ cast'[b].pc = cast[b].pc /\ cast'[b].pos = cast[b].pos
            /\ cast'[b].size = cast[b].size /\ cast'[b].left = cast[b].left
            /\ cast'[b].key = cast[b].key /\ cast'[b].stale = cast[b].stale
            /\ cast'[b].owed = cast[b].owed \ {c}
        BY <3>1, <4>1 DEF CastRecord
      <4>3. \A d \in cast'[b].owed : topics'[d] = topics[d]
        BY <2>1, <3>1, <4>2 DEF CastRecord
      <4> QED
        BY <3>1, <4>2, <4>3 DEF CastOK, Owes
    <3>3. CASE cast[b].key \notin removed
      <4>1. cast'[b] = cast[b]
        BY <2>1, <3>3
      <4>2. \A d \in cast[b].owed : cast[b].key \in topics'[d]
        BY <2>1, <3>1, <3>3 DEF CastOK, Owes, CastRecord
      <4> QED
        BY <3>1, <4>1, <4>2, CastStable
    <3> QED
      BY <3>2, <3>3
  <2> QED
    BY <1>3, <2>1, <2>4, <2>5, <2>6
<1> QED
  BY <1>1, <1>2, <1>4, <1>5, <1>6

LEMMA PublishKeeps ==
    ASSUME HubIInv, NEW b \in Casts, Publish(b) PROVE HubIInv'
<1>1. PICK key \in Keys : Broadcast(b, key)
  BY DEF Publish, publish_kline, publish_marketdata, publish_quality_event,
     publish_stream_status, Keys
<1> DEFINE n == Cardinality(connections)
           owed == {c \in connections : key \in topics[c]}
           it == [Unstarted EXCEPT !.pc = "sending", !.key = key, !.left = n, !.size = n,
                                   !.owed = owed]
<1>2. /\ IsFiniteSet(connections) /\ n \in Nat /\ owed \in SUBSET Clients
      /\ Len(order) \in Nat /\ DOMAIN order = 1..Len(order)
  BY ConnectionsAreFinite DEF HubIInv, HubTypeOK
<1>3. /\ it \in CastRecord /\ it.pc = "sending" /\ it.pos = 0 /\ it.stale = {}
      /\ it.left = n /\ it.size = n /\ it.key = key /\ it.owed = owed
  <2>1. Unstarted.pos = 0 /\ Unstarted.stale = {} /\ StreamStatusKey \in Keys
    BY DEF Unstarted, Keys
  <2>2. Unstarted \in CastRecord
    BY <2>1 DEF Unstarted, CastRecord
  <2> QED
    BY <1>2, <2>1, <2>2 DEF CastRecord
\* The entries to visit are the registered clients, each once.
<1>4. Cardinality(LiveAfter(0)) <= n
  <2> DEFINE entry == [k \in LiveAfter(0) |-> order[k]]
  <2>1. LiveAfter(0) \subseteq DOMAIN order /\ \A k \in LiveAfter(0) : order[k] \in connections
    BY <1>2 DEF LiveAfter
  <2>2. \A i, j \in LiveAfter(0) : order[i] = order[j] => i = j
    BY <2>1 DEF HubIInv, OrderInv
  <2>3. entry \in Injection(LiveAfter(0), connections)
    <3>1. entry \in [LiveAfter(0) -> connections]
      BY <2>1
    <3>2. \A i, j \in LiveAfter(0) : entry[i] = entry[j] => i = j
      BY <2>2
    <3> QED
      BY <3>1, <3>2 DEF Injection, IsInjective
  <2> QED
    BY <1>2, <2>3, FS_Injection
<1>5. \A c \in owed : /\ c \in connections /\ key \in topics[c]
                      /\ \E k \in LiveAfter(0) : order[k] = c
  <2> SUFFICES ASSUME NEW c \in owed PROVE \E k \in LiveAfter(0) : order[k] = c
    OBVIOUS
  <2>1. PICK k \in DOMAIN order : order[k] = c
    BY DEF HubIInv, OrderInv
  <2> QED
    BY <1>2, <2>1 DEF LiveAfter
<1>6. Advance(b, it) /\ UNCHANGED <<handler, up, topics, order, overlapped>>
  BY <1>1 DEF Broadcast
<1>7. it.owed # {} =>
        /\ Cardinality(connections) = it.size
        /\ Cardinality(LiveAfter(it.pos)) <= it.left
        /\ \A c \in it.owed : /\ c \in connections /\ it.key \in topics[c]
                              /\ \E k \in LiveAfter(it.pos) : order[k] = c
  BY <1>3, <1>4, <1>5
<1>8. it.pos \in 0..Len(order) /\ it.stale \cap up = {}
  BY <1>2, <1>3
<1> HIDE DEF it, owed, n
<1> QED
  BY <1>3, <1>6, <1>7, <1>8, AdvanceKeeps

\* The send of broadcast b has returned, or raised and marked its client stale.
LEMMA SendKeeps ==
    ASSUME HubIInv, NEW b \in Casts, Sent(b) \/ SendFails(b) PROVE HubIInv'
<1> DEFINE x == cast[b]
           v == Visiting(b)
           sent == [x EXCEPT !.owed = @ \ {v}]
           failed == [x EXCEPT !.owed = @ \ {v}, !.stale = @ \cup {v}]
<1>1. /\ x \in CastRecord /\ x.pc = "sending" /\ CastOK(x, order, connections, topics, up)
      /\ Len(order) \in Nat /\ DOMAIN order = 1..Len(order)
      /\ x.pos \in DOMAIN order /\ v = order[x.pos] /\ v \in Clients
      /\ UNCHANGED <<handler, up, topics, order, overlapped>>
  BY DEF HubIInv, HubTypeOK, CastInv, CastOK, CastRecord, Sent, SendFails, Visiting
\* What is still owed comes after the entry just visited.
<1>2. ASSUME x.owed # {}, NEW c \in x.owed \ {v}
      PROVE  /\ c \in connections /\ x.key \in topics[c]
             /\ \E k \in LiveAfter(x.pos) : order[k] = c
  <2>1. PICK k \in DOMAIN order : x.pos <= k /\ order[k] = c
    BY <1>1, <1>2 DEF CastOK, Owes
  <2>2. c \in connections /\ x.key \in topics[c]
    BY <1>1, <1>2 DEF CastOK, Owes
  <2>3. k # x.pos
    BY <1>1, <1>2, <2>1
  <2>4. k \in LiveAfter(x.pos)
    BY <1>1, <2>1, <2>2, <2>3 DEF LiveAfter
  <2> QED
    BY <2>1, <2>2, <2>4
<1>3. x.owed # {} => /\ Cardinality(connections) = x.size
                     /\ Cardinality(LiveAfter(x.pos)) <= x.left
  BY <1>1 DEF CastOK, Owes, LiveAfter
<1>4. CASE Sent(b)
  <2>1. Advance(b, sent)
    BY <1>4 DEF Sent
  <2>2. /\ sent \in CastRecord /\ sent.pc = "sending" /\ sent.pos = x.pos
        /\ sent.stale = x.stale /\ sent.owed = x.owed \ {v} /\ sent.left = x.left
        /\ sent.size = x.size /\ sent.key = x.key
    BY <1>1 DEF CastRecord
  <2>3. sent.pos \in 0..Len(order) /\ sent.stale \cap up = {}
    BY <1>1, <2>2 DEF CastOK
  <2>4. sent.owed # {} =>
          /\ Cardinality(connections) = sent.size
          /\ Cardinality(LiveAfter(sent.pos)) <= sent.left
          /\ \A c \in sent.owed : /\ c \in connections /\ sent.key \in topics[c]
                                  /\ \E k \in LiveAfter(sent.pos) : order[k] = c
    BY <1>2, <1>3, <2>2
  <2> HIDE DEF sent
  <2> QED
    BY <1>1, <2>1, <2>2, <2>3, <2>4, AdvanceKeeps
<1>5. CASE SendFails(b)
  <2>1. Advance(b, failed) /\ v \notin up
    BY <1>5 DEF SendFails
  <2>2. /\ failed \in CastRecord /\ failed.pc = "sending" /\ failed.pos = x.pos
        /\ failed.stale = x.stale \cup {v} /\ failed.owed = x.owed \ {v}
        /\ failed.left = x.left /\ failed.size = x.size /\ failed.key = x.key
    BY <1>1 DEF CastRecord
  <2>3. failed.pos \in 0..Len(order) /\ failed.stale \cap up = {}
    BY <1>1, <2>1, <2>2 DEF CastOK
  <2>4. failed.owed # {} =>
          /\ Cardinality(connections) = failed.size
          /\ Cardinality(LiveAfter(failed.pos)) <= failed.left
          /\ \A c \in failed.owed : /\ c \in connections /\ failed.key \in topics[c]
                                    /\ \E k \in LiveAfter(failed.pos) : order[k] = c
    BY <1>2, <1>3, <2>2
  <2> HIDE DEF failed
  <2> QED
    BY <1>1, <2>1, <2>2, <2>3, <2>4, AdvanceKeeps
<1> QED
  BY <1>4, <1>5

LEMMA StutterKeeps == HubIInv /\ UNCHANGED vars => HubIInv'
BY DEF vars, HubIInv, HubTypeOK, RegisteredWhileServed, OrderInv, TopicsInv, Invalid,
       LimitInv, CastInv

-----------------------------------------------------------------------------
(* The theorems.                                                           *)

\* The inductive invariant of the server holds in every reachable state.
THEOREM HubInvariant == Spec => []HubIInv
<1>1. HubIInv /\ [Next]_vars => HubIInv'
  <2> SUFFICES ASSUME HubIInv, Next PROVE HubIInv'
    BY StutterKeeps
  <2>1. ASSUME NEW c \in Clients,
               \/ Refuse(c) \/ Admit(c) \/ Accepted(c) \/ AcceptFails(c)
               \/ Receive(c) \/ Answered(c) \/ AnswerFails(c)
               \/ Disconnect(c) \/ Drop(c)
        PROVE  HubIInv'
    <3>1. CASE AnswerFails(c) \/ Disconnect(c)
      BY <3>1, LeaveKeeps DEF AnswerFails, Disconnect, Serving
    <3> QED
      BY <2>1, <3>1, EndpointKeeps, AcceptedKeeps, ReceiveKeeps
  <2>2. ASSUME NEW b \in Casts, Publish(b) \/ Sent(b) \/ SendFails(b)
        PROVE  HubIInv'
    BY <2>2, PublishKeeps, SendKeeps
  <2> QED
    BY <2>1, <2>2 DEF Next
<1> QED
  BY InitHubInv, <1>1, PTL DEF Spec

\* An open client that is served is in the registry and nobody else is, except
\* clients on their way out; and the subscriptions of a connection are valid and
\* within their limit (hub.register/unregister, SubscriptionManager.subscribe).
THEOREM HubIsConsistent == Spec => []HubInv
<1>1. HubIInv => HubInv
  BY DEF HubIInv, HubInv, TopicsInv, SubscriptionsWithinLimit
<1> QED
  BY HubInvariant, <1>1, PTL

\* max_connections is only passed by clients whose accept() calls overlap
\* (websocket_endpoint checks is_full() before it awaits accept()).
THEOREM LimitHoldsUnlessOverlapped == Spec => []LimitUnlessOverlapped
<1>1. HubIInv => LimitUnlessOverlapped
  BY DEF HubIInv, LimitInv, LimitUnlessOverlapped
<1> QED
  BY HubInvariant, <1>1, PTL

\* A broadcast robs no registered subscriber of its message unless the registry
\* changes during one of its sends (the loop of hub.broadcast over the live dict).
THEOREM CastsReachSubscribers == Spec => []CutShortByChangeOnly
<1>1. HubIInv => CutShortByChangeOnly
  BY DEF HubIInv, CastInv, CastOK, CutShortByChangeOnly
<1> QED
  BY HubInvariant, <1>1, PTL
================================================================================
