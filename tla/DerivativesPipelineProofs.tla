--------------------- MODULE DerivativesPipelineProofs ---------------------
(***************************************************************************)
(* Proofs about the three derivatives commands together: a position that a *)
(* checkpoint records never runs ahead of the rows, the rows up to it      *)
(* leave out nothing of the range it stands for, and a run that reports    *)
(* success has stored what it was asked for, whether a resync runs beside  *)
(* or not.  What the paging loop does to its own locals is stated once,    *)
(* over explicit rows, and used for each of the commands.                  *)
(***************************************************************************)
EXTENDS DerivativesPipeline, FiniteSetTheorems, TLAPS

\* A finite set of numbers has a smallest one: from the well-foundedness of strict
\* inclusion, of the elements up to k.
LEMMA SmallestExists ==
    ASSUME NEW S \in SUBSET Nat, IsFiniteSet(S), S # {}
    PROVE  \E m \in S : \A k \in S : m <= k
<1> DEFINE low(k) == {j \in S : j <= k}
           T == {low(k) : k \in S}
           R == StrictSubsetOrdering(S)
<1>1. IsWellFoundedOn(R, SUBSET S)
  BY FS_StrictSubsetOrderingWellFounded, FS_FiniteSubsetsOfFinite
<1>2. T \subseteq SUBSET S /\ T # {}
  OBVIOUS
<1> HIDE DEF R
<1>3. PICK x \in T : \A y \in T : ~(<<y, x>> \in R)
  BY <1>1, <1>2, WFMin
<1>4. PICK m \in S : x = low(m)
  OBVIOUS
<1>5. ASSUME NEW k \in S, k < m PROVE FALSE
  <2>1. k \in Nat /\ m \in Nat /\ \A j \in S : j \in Nat
    OBVIOUS
  <2>2. low(k) \in T /\ low(k) \in SUBSET S /\ low(m) \in SUBSET S
    OBVIOUS
  <2>3. m \in low(m) /\ m \notin low(k)
    BY <1>5, <2>1
  <2>4. \A j \in low(k) : j \in low(m)
    BY <1>5, <2>1
  <2> HIDE DEF low
  <2> QED
    BY <1>3, <1>4, <2>2, <2>3, <2>4 DEF R, StrictSubsetOrdering
<1> QED
  BY <1>5

USE EventsAssumption, RejectedAssumption, LimitAssumption, BoundsAssumption,
    NullAssumption, RangesAssumption, RequestsAssumption, RecoveryAssumption,
    ResyncRangesAssumption, BesideAssumption

-----------------------------------------------------------------------------
(* The inductive invariant.                                                *)

\* A position that may be recorded for s when the rows are r.
Recorded(s, p, r) == p \in Events[s] /\ (p \in Rejected[s] \/ p \in r[s])

StoreInv ==
    /\ StoreTypeOK
    /\ \A m \in Markets, s \in Types :
          ledger[m][s].event # Null => Recorded(s, ledger[m][s].event, rows)

\* What a loop is about to record has its rows.
LoopInv(l, r) ==
    /\ l \in Loop
    /\ l.page \subseteq Events[l.s]
    /\ l.pc = "mark" => Accepted(l.s, l.page) \subseteq r[l.s]

HistInv == hist \in HistRun /\ LoopInv(loop, rows)

\* Recovery puts the positions of its snapshot back.
SnapInv(run, r) ==
    /\ run \in RecRun
    /\ \A s \in Types : run.snap[s] # Null => Recorded(s, run.snap[s], r)

RecInv == SnapInv(rec, rows) /\ LoopInv(recLoop, rows)
RsyInv == LoopInv(rsyLoop, rows)

DerivativesInv == StoreInv /\ HistInv /\ RecInv /\ RsyInv

-----------------------------------------------------------------------------
(* The rows only grow, and that disturbs nobody.                           *)

Grows(r, q) == \A s \in Types : r[s] \subseteq q[s]

LEMMA LoopKeeps ==
    ASSUME NEW l, NEW r, NEW q, LoopInv(l, r), Grows(r, q)
    PROVE  LoopInv(l, q)
BY DEF LoopInv, Grows, Loop

LEMMA SnapKeeps ==
    ASSUME NEW run, NEW r, NEW q, SnapInv(run, r), Grows(r, q)
    PROVE  SnapInv(run, q)
BY DEF SnapInv, Grows, Recorded

LEMMA OthersKeep ==
    ASSUME Grows(rows, rows')
    PROVE  /\ HistInv /\ UNCHANGED histVars => HistInv'
           /\ RecInv /\ UNCHANGED <<rec, recLoop>> => RecInv'
           /\ RsyInv /\ UNCHANGED rsyLoop => RsyInv'
<1>1. HistInv /\ UNCHANGED histVars => HistInv'
  BY LoopKeeps DEF HistInv, histVars
<1>2. RecInv /\ UNCHANGED <<rec, recLoop>> => RecInv'
  BY LoopKeeps, SnapKeeps DEF RecInv
<1>3. RsyInv /\ UNCHANGED rsyLoop => RsyInv'
  BY LoopKeeps DEF RsyInv
<1> QED
  BY <1>1, <1>2, <1>3

-----------------------------------------------------------------------------
(* The store.                                                              *)

ClocksOK ==
    now' \in Nat /\ faults' \in Nat /\ base' \in [Markets -> [Types -> Nat]]

LEMMA StoreKeeps ==
    ASSUME StoreInv, ClocksOK, UNCHANGED <<rows, ledger>>
    PROVE  StoreInv' /\ Grows(rows, rows')
BY DEF StoreInv, StoreTypeOK, ClocksOK, Grows

LEMMA SameClocks == StoreTypeOK /\ UNCHANGED <<now, faults, base>> => ClocksOK
BY DEF StoreTypeOK, ClocksOK

LEMMA FaultClocks == StoreTypeOK /\ Fault /\ UNCHANGED <<now, base>> => ClocksOK
BY DEF StoreTypeOK, ClocksOK, Fault

LEMMA RebaseClocks ==
    ASSUME StoreTypeOK, UNCHANGED <<now, faults>>, NEW m \in Markets, NEW s \in Types,
           NEW continues \in BOOLEAN, NEW from \in Nat, Rebase(m, s, continues, from)
    PROVE  ClocksOK
BY DEF StoreTypeOK, ClocksOK, Rebase

LEMMA RowsAdded ==
    ASSUME StoreInv, NEW s \in Types, NEW page \in SUBSET Events[s], UpsertBatch(s, page),
           UNCHANGED <<now, faults, ledger, base>>
    PROVE  StoreInv' /\ Grows(rows, rows') /\ Accepted(s, page) \subseteq rows'[s]
<1>1. Accepted(s, page) \in SUBSET Nat
  BY DEF Accepted
<1>2. rows' \in [Types -> SUBSET Nat] /\ Grows(rows, rows')
      /\ Accepted(s, page) \subseteq rows'[s]
  BY <1>1 DEF UpsertBatch, StoreInv, StoreTypeOK, Grows
<1>3. StoreTypeOK'
  BY <1>2 DEF StoreInv, StoreTypeOK
<1>4. ASSUME NEW m \in Markets, NEW d \in Types, ledger'[m][d].event # Null
      PROVE  Recorded(d, ledger'[m][d].event, rows')
  BY <1>2, <1>4 DEF StoreInv, Recorded, Grows
<1> QED
  BY <1>2, <1>3, <1>4 DEF StoreInv

LEMMA PositionRecorded ==
    ASSUME StoreInv, ClocksOK, rows' = rows, NEW m \in Markets, NEW s \in Types,
           NEW status \in {"ok", "error"}, NEW event,
           event = Null \/ Recorded(s, event, rows),
           UpsertCheckpoint(m, s, status, event)
    PROVE  StoreInv' /\ Grows(rows, rows')
<1>1. event \in Nat \cup {Null}
  BY DEF Recorded
<1>2. [status |-> status, event |-> event] \in Checkpoint
  BY <1>1 DEF Checkpoint
<1>3. ledger' \in [Markets -> [Types -> Checkpoint]]
  BY <1>2 DEF UpsertCheckpoint, StoreInv, StoreTypeOK
<1>4. StoreTypeOK'
  BY <1>3 DEF StoreInv, StoreTypeOK, ClocksOK
<1>5. ASSUME NEW n \in Markets, NEW d \in Types, ledger'[n][d].event # Null
      PROVE  Recorded(d, ledger'[n][d].event, rows')
  <2>1. CASE n = m /\ d = s
    <3>1. ledger'[n][d].event = event
      BY <2>1 DEF UpsertCheckpoint, StoreInv, StoreTypeOK
    <3> QED
      BY <2>1, <3>1, <1>5
  <2>2. CASE ~(n = m /\ d = s)
    <3>1. ledger'[n][d] = ledger[n][d]
      BY <2>2 DEF UpsertCheckpoint, StoreInv, StoreTypeOK
    <3> QED
      BY <3>1, <1>5 DEF StoreInv
  <2> QED
    BY <2>1, <2>2
<1> QED
  BY <1>4, <1>5 DEF StoreInv, Grows

-----------------------------------------------------------------------------
(* The paging loop.                                                        *)

LEMMA NoLoopInv == ASSUME NEW r PROVE LoopInv(NoLoop, r)
BY DEF LoopInv, NoLoop, Loop, Types

LEMMA EnterInv ==
    ASSUME NEW s \in Types, NEW from \in Nat, NEW to \in Nat, NEW r
    PROVE  LoopInv(Enter(s, from, to), r)
<1> DEFINE l == [NoLoop EXCEPT !.pc = "fetch", !.s = s, !.cur = from, !.end = to]
<1>1. l \in Loop
  BY DEF NoLoop, Loop
<1>2. l.pc = "fetch" /\ l.page = {}
  BY DEF NoLoop
<1>3. LoopInv(l, r)
  <2> HIDE DEF l
  <2> QED
    BY <1>1, <1>2 DEF LoopInv
<1> QED
  BY <1>3, NoLoopInv DEF Enter

LEMMA AnswersAreEvents ==
    ASSUME NEW s \in Types, NEW from \in Nat, NEW to \in Nat,
           NEW page \in Answers(s, from, to)
    PROVE  page \subseteq Events[s]
BY DEF Answers, FirstPage, StalePages

LEMMA FetchedInv ==
    ASSUME NEW l, NEW r, LoopInv(l, r), NEW page \in Answers(l.s, l.cur, l.end)
    PROVE  LoopInv(AfterFetch(l, page), r)
<1>1. l.s \in Types /\ l.cur \in Nat /\ l.end \in Nat
  BY DEF LoopInv, Loop
<1>2. page \subseteq Events[l.s] /\ page \in SUBSET Nat
  BY <1>1, AnswersAreEvents
<1> DEFINE n == [l EXCEPT !.pc = "persist", !.page = page]
<1>3. n \in Loop
  BY <1>2 DEF LoopInv, Loop
<1>4. n.pc = "persist" /\ n.s = l.s /\ n.page = page
  BY DEF LoopInv, Loop
<1>5. LoopInv(n, r)
  BY <1>2, <1>3, <1>4 DEF LoopInv
<1> QED
  BY <1>5, NoLoopInv DEF AfterFetch

LEMMA PersistedInv ==
    ASSUME NEW l, NEW r, NEW q, LoopInv(l, r), Accepted(l.s, l.page) \subseteq q[l.s]
    PROVE  LoopInv([l EXCEPT !.pc = "mark"], q)
<1> DEFINE n == [l EXCEPT !.pc = "mark"]
<1>1. n \in Loop /\ n.s = l.s /\ n.page = l.page
  BY DEF LoopInv, Loop
<1> QED
  BY <1>1 DEF LoopInv

LEMMA MarkedInv ==
    ASSUME NEW l, NEW r, LoopInv(l, r), l.pc = "mark", NEW last \in l.page
    PROVE  LoopInv(AfterMark(l, last), r) /\ Recorded(l.s, last, r)
<1>1. last \in Events[l.s] /\ l.s \in Types
  BY DEF LoopInv, Loop
<1>2. last + 1 \in Nat /\ {} \in SUBSET Nat
  BY <1>1
<1> DEFINE n == [l EXCEPT !.pc = "fetch", !.cur = last + 1, !.page = {}]
<1>3. n \in Loop
  BY <1>2 DEF LoopInv, Loop
<1>4. n.pc = "fetch" /\ n.s = l.s /\ n.page = {}
  BY DEF LoopInv, Loop
<1>5. LoopInv(n, r)
  BY <1>3, <1>4 DEF LoopInv
<1>6. LoopInv(AfterMark(l, last), r)
  BY <1>5, NoLoopInv DEF AfterMark
<1>7. Recorded(l.s, last, r)
  BY <1>1 DEF LoopInv, Accepted, Recorded
<1> QED
  BY <1>6, <1>7

-----------------------------------------------------------------------------
(* The historical sync.                                                    *)

LEMMA MarketsKnown ==
    HistMarket \in Markets /\ ResyncMarket \in Markets /\ RecoveryMarket \in Markets
    /\ Recoverable \subseteq Types
BY DEF HistMarket, ResyncMarket, Markets, Recoverable, Types

LEMMA IdleRun == HistIdle \in HistRun
<1>1. <<>> \in Seq(Types)
  OBVIOUS
<1> QED
  BY <1>1 DEF HistIdle, HistRun, NoRange

LEMMA LaunchInv ==
    ASSUME DerivativesInv, NEW todo \in Seq(Types), NEW start \in [Types -> Nat],
           NEW end \in [Types -> Nat], Launch(todo, [start |-> start, end |-> end])
    PROVE  StoreInv' /\ HistInv' /\ Grows(rows, rows')
<1>1. hist' = [pc |-> "run", todo |-> todo, start |-> start, end |-> end,
               asked |-> {todo[i] : i \in 1..Len(todo)}, began |-> now,
               failed |-> FALSE, stalled |-> FALSE]
  BY DEF Launch, HistIdle
<1>2. {todo[i] : i \in 1..Len(todo)} \in SUBSET Types /\ now \in Nat
  BY DEF DerivativesInv, StoreInv, StoreTypeOK
<1>3. hist' \in HistRun
  BY <1>1, <1>2 DEF HistRun
<1>4. UNCHANGED <<storeVars, loop>>
  BY DEF Launch
<1>5. StoreInv' /\ Grows(rows, rows')
  BY <1>4, SameClocks, StoreKeeps DEF DerivativesInv, StoreInv, storeVars
<1> QED
  BY <1>3, <1>4, <1>5 DEF DerivativesInv, HistInv, storeVars

LEMMA HistLaunchInv ==
    ASSUME DerivativesInv, HistLaunch
    PROVE  StoreInv' /\ HistInv' /\ Grows(rows, rows')
<1>1. PICK start \in Starts, end \in Ends :
          LaunchAuto(start, end) \/ \E request \in Requests : LaunchExplicit(start, end, request)
  BY DEF HistLaunch
<1>2. start \in Nat /\ end \in Nat /\ now \in Nat /\ Window \in Nat
  BY DEF DerivativesInv, StoreInv, StoreTypeOK
<1>3. CASE LaunchAuto(start, end)
  <2>1. OverlapStart(start) \in Nat /\ OverlapEnd(end) \in Nat
    BY <1>2 DEF OverlapStart, OverlapEnd, Later, Earlier, Cutoff
  <2> DEFINE starts == [s \in Types |-> IF s \in Windowed THEN OverlapStart(start) ELSE start]
             ends == [s \in Types |-> IF s \in Windowed THEN OverlapEnd(end) ELSE end]
  <2>2. starts \in [Types -> Nat] /\ ends \in [Types -> Nat]
    BY <1>2, <2>1
  <2>3. BestEffort(start, end) \in Seq(Types)
    <3>1. BestEffortOrder \in Seq(Types)
      BY DEF BestEffortOrder, Types
    <3>2. <<"mark_price", "index_price", "funding_rate">> \in Seq(Types)
      BY DEF Types
    <3> QED
      BY <3>1, <3>2 DEF BestEffort
  <2>4. Launch(BestEffort(start, end), [start |-> starts, end |-> ends])
    BY <1>3 DEF LaunchAuto, AutoRange
  <2> QED
    BY <2>2, <2>3, <2>4, LaunchInv
<1>4. CASE \E request \in Requests : LaunchExplicit(start, end, request)
  <2>1. PICK request \in Requests : LaunchExplicit(start, end, request)
    BY <1>4
  <2> DEFINE starts == [s \in Types |-> start]
             ends == [s \in Types |-> end]
  <2>2. starts \in [Types -> Nat] /\ ends \in [Types -> Nat] /\ request \in Seq(Types)
    BY <1>2
  <2>3. Launch(request, [start |-> starts, end |-> ends])
    BY <2>1 DEF LaunchExplicit
  <2> QED
    BY <2>2, <2>3, LaunchInv
<1> QED
  BY <1>1, <1>3, <1>4

LEMMA NextTypeInv ==
    ASSUME DerivativesInv, NextType
    PROVE  StoreInv' /\ HistInv' /\ Grows(rows, rows')
<1> DEFINE s == Head(hist.todo)
           from == ResumePoint(s, hist.start[s])
<1>1. hist \in HistRun /\ StoreTypeOK /\ HistMarket \in Markets
  BY MarketsKnown DEF DerivativesInv, HistInv, StoreInv
<1>2. hist.todo \in Seq(Types) /\ hist.todo # <<>>
  BY <1>1 DEF NextType, HistRun
<1>3. s \in Types /\ Tail(hist.todo) \in Seq(Types)
  BY <1>2
<1>4. hist.start[s] \in Nat /\ hist.end[s] \in Nat
  BY <1>1, <1>3 DEF HistRun
<1>5. Position(s) \in Nat \cup {Null}
  BY <1>1, <1>3 DEF Position, StoreTypeOK, Checkpoint
<1>6. from \in Nat
  BY <1>4, <1>5 DEF ResumePoint, Resumes
<1>7. loop' = Enter(s, from, hist.end[s])
  BY DEF NextType
<1>8. LoopInv(loop', rows)
  BY <1>3, <1>4, <1>6, <1>7, EnterInv
<1>9. hist' \in HistRun
  <2>1. hist' = [hist EXCEPT !.todo = Tail(hist.todo)]
    BY DEF NextType
  <2> QED
    BY <1>1, <1>3, <2>1 DEF HistRun
<1>10. ClocksOK
  <2>1. Resumes(s, hist.start[s]) \in BOOLEAN
    BY DEF Resumes
  <2>2. UNCHANGED <<now, faults>>
        /\ (UNCHANGED base \/ Rebase(HistMarket, s, Resumes(s, hist.start[s]), hist.start[s]))
    BY DEF NextType
  <2> QED
    BY <1>1, <1>3, <1>4, <2>1, <2>2, RebaseClocks, SameClocks
<1>11. StoreInv' /\ Grows(rows, rows') /\ rows' = rows
  BY <1>10, StoreKeeps DEF DerivativesInv, NextType
<1> QED
  BY <1>8, <1>9, <1>11 DEF HistInv

LEMMA RecordErrorInv ==
    ASSUME DerivativesInv, RecordError, ClocksOK
    PROVE  StoreInv' /\ HistInv' /\ Grows(rows, rows')
<1>1. hist \in HistRun /\ loop.s \in Types
  BY DEF DerivativesInv, HistInv, LoopInv, Loop
<1>2. StoreInv /\ rows' = rows /\ UpsertCheckpoint(HistMarket, loop.s, "error", Null)
  BY DEF DerivativesInv, RecordError
<1>3. StoreInv' /\ Grows(rows, rows')
  BY <1>1, <1>2, MarketsKnown, PositionRecorded
<1>4. hist' \in HistRun /\ loop' = NoLoop
  BY <1>1 DEF RecordError, HistRun
<1> QED
  BY <1>2, <1>3, <1>4, NoLoopInv DEF HistInv

LEMMA PageInv ==
    ASSUME DerivativesInv, NEW s \in Types, Fetch(s) \/ Persist(s) \/ Mark(s)
    PROVE  StoreInv' /\ HistInv' /\ Grows(rows, rows')
<1>0. StoreInv /\ StoreTypeOK /\ hist \in HistRun /\ LoopInv(loop, rows) /\ loop \in Loop
  BY DEF DerivativesInv, StoreInv, HistInv, LoopInv
<1>1. CASE Fetch(s)
  <2>1. PICK page \in Answers(loop.s, loop.cur, loop.end) : loop' = AfterFetch(loop, page)
    BY <1>1 DEF Fetch
  <2>2. LoopInv(loop', rows)
    BY <1>0, <2>1, FetchedInv
  <2>3. UNCHANGED <<storeVars, hist>>
    BY <1>1 DEF Fetch
  <2>4. StoreInv' /\ Grows(rows, rows')
    BY <1>0, <2>3, SameClocks, StoreKeeps DEF storeVars
  <2> QED
    BY <1>0, <2>2, <2>3, <2>4 DEF HistInv, storeVars
<1>2. CASE Persist(s)
  <2>1. loop.s = s /\ loop.page \in SUBSET Events[s] /\ UpsertBatch(s, loop.page)
        /\ loop' = [loop EXCEPT !.pc = "mark"] /\ UNCHANGED <<now, faults, ledger, base, hist>>
    BY <1>0, <1>2 DEF Persist, LoopInv
  <2>2. StoreInv' /\ Grows(rows, rows') /\ Accepted(s, loop.page) \subseteq rows'[s]
    BY <1>0, <2>1, RowsAdded
  <2>3. LoopInv(loop', rows')
    BY <1>0, <2>1, <2>2, PersistedInv
  <2> QED
    BY <1>0, <2>1, <2>2, <2>3 DEF HistInv
<1>3. CASE Mark(s)
  <2>1. PICK last \in loop.page :
            /\ UpsertCheckpoint(HistMarket, s, "ok", last)
            /\ loop' = AfterMark(loop, last)
            /\ hist' = [hist EXCEPT !.stalled = @ \/ Stalled(loop, last)]
    BY <1>3 DEF Mark
  <2>2. loop.pc = "mark" /\ loop.s = s /\ UNCHANGED <<now, faults, rows, base>>
    BY <1>3 DEF Mark
  <2>3. LoopInv(loop', rows) /\ Recorded(s, last, rows)
    BY <1>0, <2>1, <2>2, MarkedInv
  <2>4. StoreInv' /\ Grows(rows, rows')
    BY <1>0, <2>1, <2>2, <2>3, MarketsKnown, SameClocks, PositionRecorded
  <2>5. hist' \in HistRun
    <3>1. (hist.stalled \/ Stalled(loop, last)) \in BOOLEAN
      OBVIOUS
    <3> QED
      BY <1>0, <2>1, <3>1 DEF HistRun
  <2> QED
    BY <2>2, <2>3, <2>4, <2>5 DEF HistInv
<1> QED
  BY <1>1, <1>2, <1>3

LEMMA HistoricalInv == DerivativesInv /\ Historical => DerivativesInv'
<1> SUFFICES ASSUME DerivativesInv, Historical PROVE DerivativesInv'
  OBVIOUS
<1>0. StoreInv /\ StoreTypeOK /\ HistInv /\ RecInv /\ RsyInv
      /\ UNCHANGED <<rec, recLoop, rsyLoop>>
  BY DEF DerivativesInv, StoreInv, Historical, repairVars
<1>1. ASSUME StoreInv' /\ HistInv' /\ Grows(rows, rows') PROVE DerivativesInv'
  BY <1>0, <1>1, OthersKeep DEF DerivativesInv
<1>2. CASE HistLaunch
  BY <1>1, <1>2, HistLaunchInv
<1>3. CASE NextType
  BY <1>1, <1>3, NextTypeInv
<1>4. CASE Report
  <2>1. UNCHANGED <<storeVars, loop>> /\ hist' = HistIdle
    BY <1>4 DEF Report
  <2>2. StoreInv' /\ Grows(rows, rows')
    BY <1>0, <2>1, SameClocks, StoreKeeps DEF storeVars
  <2> QED
    BY <1>0, <1>1, <2>1, <2>2, IdleRun DEF HistInv, storeVars
<1>5. CASE OpenInterestRefused
  BY <1>0, <1>1, <1>5, SameClocks, RecordErrorInv DEF OpenInterestRefused, RecordError
<1>6. CASE SyncFundingRate \/ SyncMarkPrice \/ SyncIndexPrice \/ SyncOpenInterest
  <2>1. PICK s \in Types : Fetch(s) \/ Persist(s) \/ Mark(s)
    BY <1>6 DEF SyncFundingRate, SyncMarkPrice, SyncIndexPrice, SyncOpenInterest, Types
  <2> QED
    BY <1>1, <2>1, PageInv
<1>7. CASE HistFails
  BY <1>0, <1>1, <1>7, FaultClocks, RecordErrorInv DEF HistFails, RecordError
<1>8. CASE HistCrash
  <2>1. hist' = HistIdle /\ loop' = NoLoop /\ UNCHANGED <<now, rows, ledger, base>> /\ Fault
    BY <1>8 DEF HistCrash
  <2>2. StoreInv' /\ Grows(rows, rows')
    BY <1>0, <2>1, FaultClocks, StoreKeeps
  <2> QED
    BY <1>1, <2>1, <2>2, IdleRun, NoLoopInv DEF HistInv
<1> QED
  BY <1>2, <1>3, <1>4, <1>5, <1>6, <1>7, <1>8 DEF Historical, HistStep

-----------------------------------------------------------------------------
(* The recovery.                                                           *)

LEMMA IdleSnap == ASSUME NEW r PROVE SnapInv(RecIdle, r)
BY DEF RecIdle, RecRun, SnapInv

\* Whatever recovery puts back for a data type is Null or of a stored record.
LEMMA SnapRecorded ==
    ASSUME RecInv, NEW s \in Types
    PROVE  rec.snap[s] = Null \/ Recorded(s, rec.snap[s], rows)
BY DEF RecInv, SnapInv

LEMMA RecLaunchInv ==
    ASSUME DerivativesInv, RecLaunch
    PROVE  StoreInv' /\ RecInv' /\ Grows(rows, rows')
<1>1. StoreInv /\ StoreTypeOK /\ RecInv /\ UNCHANGED <<storeVars, recLoop>>
  BY DEF DerivativesInv, StoreInv, RecLaunch
<1>2. StoreInv' /\ Grows(rows, rows')
  BY <1>1, SameClocks, StoreKeeps DEF storeVars
<1> DEFINE snap == [s \in Types |-> ledger[RecoveryMarket][s].event]
<1>3. rec' = [pc |-> "run", todo |-> ErrorCheckpoints, end |-> now, snap |-> snap]
  BY DEF RecLaunch
<1>4. snap \in [Types -> Nat \cup {Null}]
  BY <1>1, MarketsKnown DEF StoreTypeOK, Checkpoint
<1>5. ErrorCheckpoints \in SUBSET Types /\ now \in Nat
  BY <1>1, MarketsKnown DEF ErrorCheckpoints, StoreTypeOK
<1>6. rec' \in RecRun
  BY <1>3, <1>4, <1>5 DEF RecRun
<1>7. \A s \in Types : rec'.snap[s] # Null => Recorded(s, rec'.snap[s], rows)
  BY <1>1, <1>3, MarketsKnown DEF StoreInv
<1> QED
  BY <1>1, <1>2, <1>6, <1>7 DEF RecInv, SnapInv, storeVars

\* A data type is ticked off; the snapshot stays.
LEMMA TickedOff ==
    ASSUME RecInv, NEW s, rec' = [rec EXCEPT !.todo = @ \ {s}]
    PROVE  SnapInv(rec', rows)
<1>1. rec \in RecRun
  BY DEF RecInv, SnapInv
<1>2. rec' \in RecRun /\ rec'.snap = rec.snap
  BY <1>1 DEF RecRun
<1> QED
  BY <1>2 DEF RecInv, SnapInv

LEMMA RecNextTypeInv ==
    ASSUME DerivativesInv, RecNextType
    PROVE  StoreInv' /\ RecInv' /\ Grows(rows, rows')
<1>1. StoreInv /\ StoreTypeOK /\ RecInv /\ rec \in RecRun
  BY DEF DerivativesInv, StoreInv, RecInv, SnapInv
<1>2. PICK s \in rec.todo :
          /\ RecStart(s) # Null
          /\ recLoop' = Enter(s, RecStart(s), rec.end)
          /\ \/ Rebase(RecoveryMarket, s, rec.snap[s] # Null, RecStart(s))
             \/ UNCHANGED base
          /\ rec' = [rec EXCEPT !.todo = @ \ {s}]
  BY DEF RecNextType
<1>3. s \in Types /\ rec.end \in Nat /\ rec.snap[s] \in Nat \cup {Null}
  BY <1>1 DEF RecRun
<1>4. RecStart(s) \in Nat
  BY <1>2, <1>3 DEF RecStart
<1>5. LoopInv(recLoop', rows)
  BY <1>2, <1>3, <1>4, EnterInv
<1>6. UNCHANGED <<now, faults, rows, ledger>>
  BY DEF RecNextType
<1>7. ClocksOK
  BY <1>1, <1>2, <1>3, <1>4, <1>6, MarketsKnown, SameClocks, RebaseClocks
<1>8. StoreInv' /\ Grows(rows, rows')
  BY <1>1, <1>6, <1>7, StoreKeeps
<1>9. SnapInv(rec', rows)
  BY <1>1, <1>2, TickedOff
<1> QED
  BY <1>5, <1>6, <1>8, <1>9 DEF RecInv

LEMMA RecGivesUpInv ==
    ASSUME DerivativesInv, RecGivesUp
    PROVE  StoreInv' /\ RecInv' /\ Grows(rows, rows')
<1>1. StoreInv /\ StoreTypeOK /\ RecInv /\ rec \in RecRun
  BY DEF DerivativesInv, StoreInv, RecInv, SnapInv
<1>2. PICK s \in rec.todo :
          /\ UNCHANGED ledger \/ RecError(s)
          /\ rec' = [rec EXCEPT !.todo = @ \ {s}]
  BY DEF RecGivesUp
<1>3. s \in Types
  BY <1>1 DEF RecRun
<1>4. UNCHANGED <<now, faults, rows, base, recLoop>>
  BY DEF RecGivesUp
<1>5. ClocksOK
  BY <1>1, <1>4, SameClocks
<1>6. StoreInv' /\ Grows(rows, rows')
  <2>1. CASE UNCHANGED ledger
    BY <1>1, <1>4, <1>5, <2>1, StoreKeeps
  <2>2. CASE RecError(s)
    BY <1>1, <1>3, <1>4, <1>5, <2>2, MarketsKnown, SnapRecorded, PositionRecorded
    DEF RecError
  <2> QED
    BY <1>2, <2>1, <2>2
<1>7. SnapInv(rec', rows)
  BY <1>1, <1>2, TickedOff
<1> QED
  BY <1>1, <1>4, <1>6, <1>7 DEF RecInv

\* A failed or refused loop: RecFails and RecRefused.
LEMMA RecErrorInv ==
    ASSUME DerivativesInv, RecError(recLoop.s), recLoop' = NoLoop, ClocksOK,
           UNCHANGED <<rows, rec>>
    PROVE  StoreInv' /\ RecInv' /\ Grows(rows, rows')
<1>1. StoreInv /\ RecInv /\ recLoop.s \in Types
  BY DEF DerivativesInv, RecInv, LoopInv, Loop
<1>2. StoreInv' /\ Grows(rows, rows')
  BY <1>1, MarketsKnown, SnapRecorded, PositionRecorded DEF RecError
<1> QED
  BY <1>1, <1>2, NoLoopInv DEF RecInv

LEMMA RecPageInv ==
    ASSUME DerivativesInv, NEW s \in Types, RecFetch(s) \/ RecPersist(s) \/ RecMark(s)
    PROVE  StoreInv' /\ RecInv' /\ Grows(rows, rows')
<1>0. StoreInv /\ StoreTypeOK /\ SnapInv(rec, rows) /\ LoopInv(recLoop, rows)
  BY DEF DerivativesInv, StoreInv, RecInv
<1>1. CASE RecFetch(s)
  <2>1. PICK page \in Answers(recLoop.s, recLoop.cur, recLoop.end) :
            recLoop' = AfterFetch(recLoop, page)
    BY <1>1 DEF RecFetch
  <2>2. LoopInv(recLoop', rows)
    BY <1>0, <2>1, FetchedInv
  <2>3. UNCHANGED <<storeVars, rec>>
    BY <1>1 DEF RecFetch
  <2>4. StoreInv' /\ Grows(rows, rows')
    BY <1>0, <2>3, SameClocks, StoreKeeps DEF storeVars
  <2> QED
    BY <1>0, <2>2, <2>3, <2>4 DEF RecInv, storeVars
<1>2. CASE RecPersist(s)
  <2>1. /\ recLoop.s = s /\ recLoop.page \in SUBSET Events[s]
        /\ UpsertBatch(s, recLoop.page) /\ recLoop' = [recLoop EXCEPT !.pc = "mark"]
        /\ UNCHANGED <<now, faults, ledger, base, rec>>
    BY <1>0, <1>2 DEF RecPersist, LoopInv
  <2>2. StoreInv' /\ Grows(rows, rows') /\ Accepted(s, recLoop.page) \subseteq rows'[s]
    BY <1>0, <2>1, RowsAdded
  <2>3. LoopInv(recLoop', rows') /\ SnapInv(rec', rows')
    BY <1>0, <2>1, <2>2, PersistedInv, SnapKeeps
  <2> QED
    BY <2>2, <2>3 DEF RecInv
<1>3. CASE RecMark(s)
  <2>1. PICK last \in recLoop.page :
            /\ UpsertCheckpoint(RecoveryMarket, s, "ok", last)
            /\ recLoop' = AfterMark(recLoop, last)
    BY <1>3 DEF RecMark
  <2>2. recLoop.pc = "mark" /\ recLoop.s = s /\ UNCHANGED <<now, faults, rows, base, rec>>
    BY <1>3 DEF RecMark
  <2>3. LoopInv(recLoop', rows) /\ Recorded(s, last, rows)
    BY <1>0, <2>1, <2>2, MarkedInv
  <2>4. StoreInv' /\ Grows(rows, rows')
    BY <1>0, <2>1, <2>2, <2>3, MarketsKnown, SameClocks, PositionRecorded
  <2> QED
    BY <1>0, <2>2, <2>3, <2>4 DEF RecInv
<1> QED
  BY <1>1, <1>2, <1>3

LEMMA RecoveryInv == DerivativesInv /\ Recovery => DerivativesInv'
<1> SUFFICES ASSUME DerivativesInv, Recovery PROVE DerivativesInv'
  OBVIOUS
<1>0. StoreInv /\ StoreTypeOK /\ HistInv /\ RecInv /\ RsyInv
      /\ UNCHANGED histVars /\ UNCHANGED rsyLoop
  BY DEF DerivativesInv, StoreInv, Recovery, RecLaunch, RecStep, RecNextType, RecGivesUp,
     RecReport, RecRefused, RecoverFundingRate, RecoverMarkPrice, RecoverOpenInterest,
     RecFetch, RecPersist, RecMark, RecFails, RecCrash
<1>1. ASSUME StoreInv' /\ RecInv' /\ Grows(rows, rows') PROVE DerivativesInv'
  BY <1>0, <1>1, OthersKeep DEF DerivativesInv
<1>2. CASE RecLaunch
  BY <1>1, <1>2, RecLaunchInv
<1>3. CASE RecNextType
  BY <1>1, <1>3, RecNextTypeInv
<1>4. CASE RecGivesUp
  BY <1>1, <1>4, RecGivesUpInv
<1>5. CASE RecReport
  <2>1. UNCHANGED <<storeVars, recLoop>> /\ rec' = RecIdle
    BY <1>5 DEF RecReport
  <2>2. StoreInv' /\ Grows(rows, rows')
    BY <1>0, <2>1, SameClocks, StoreKeeps DEF storeVars
  <2> QED
    BY <1>0, <1>1, <2>1, <2>2, IdleSnap DEF RecInv, storeVars
<1>6. CASE RecRefused
  BY <1>0, <1>1, <1>6, SameClocks, RecErrorInv DEF RecRefused
<1>7. CASE RecoverFundingRate \/ RecoverMarkPrice \/ RecoverOpenInterest
  <2>1. PICK s \in Types : RecFetch(s) \/ RecPersist(s) \/ RecMark(s)
    BY <1>7 DEF RecoverFundingRate, RecoverMarkPrice, RecoverOpenInterest, Types
  <2> QED
    BY <1>1, <2>1, RecPageInv
<1>8. CASE RecFails
  BY <1>0, <1>1, <1>8, FaultClocks, RecErrorInv DEF RecFails
<1>9. CASE RecCrash
  <2>1. rec' = RecIdle /\ recLoop' = NoLoop /\ UNCHANGED <<now, rows, ledger, base>> /\ Fault
    BY <1>9 DEF RecCrash
  <2>2. StoreInv' /\ Grows(rows, rows')
    BY <1>0, <2>1, FaultClocks, StoreKeeps
  <2> QED
    BY <1>1, <2>1, <2>2, IdleSnap, NoLoopInv DEF RecInv
<1> QED
  BY <1>2, <1>3, <1>4, <1>5, <1>6, <1>7, <1>8, <1>9 DEF Recovery, RecStep

-----------------------------------------------------------------------------
(* The range resync.                                                       *)

LEMMA RsyPageInv ==
    ASSUME DerivativesInv, NEW s \in Types, RsyFetch(s) \/ RsyPersist(s) \/ RsyMark(s)
    PROVE  StoreInv' /\ RsyInv' /\ Grows(rows, rows')
<1>0. StoreInv /\ StoreTypeOK /\ LoopInv(rsyLoop, rows)
  BY DEF DerivativesInv, StoreInv, RsyInv
<1>1. CASE RsyFetch(s)
  <2>1. PICK page \in Answers(rsyLoop.s, rsyLoop.cur, rsyLoop.end) :
            rsyLoop' = AfterFetch(rsyLoop, page)
    BY <1>1 DEF RsyFetch
  <2>2. LoopInv(rsyLoop', rows)
    BY <1>0, <2>1, FetchedInv
  <2>3. UNCHANGED storeVars
    BY <1>1 DEF RsyFetch
  <2>4. StoreInv' /\ Grows(rows, rows')
    BY <1>0, <2>3, SameClocks, StoreKeeps DEF storeVars
  <2> QED
    BY <2>2, <2>3, <2>4 DEF RsyInv, storeVars
<1>2. CASE RsyPersist(s)
  <2>1. /\ rsyLoop.s = s /\ rsyLoop.page \in SUBSET Events[s]
        /\ UpsertBatch(s, rsyLoop.page) /\ rsyLoop' = [rsyLoop EXCEPT !.pc = "mark"]
        /\ UNCHANGED <<now, faults, ledger, base>>
    BY <1>0, <1>2 DEF RsyPersist, LoopInv
  <2>2. StoreInv' /\ Grows(rows, rows') /\ Accepted(s, rsyLoop.page) \subseteq rows'[s]
    BY <1>0, <2>1, RowsAdded
  <2>3. LoopInv(rsyLoop', rows')
    BY <1>0, <2>1, <2>2, PersistedInv
  <2> QED
    BY <2>2, <2>3 DEF RsyInv
<1>3. CASE RsyMark(s)
  <2>1. PICK last \in rsyLoop.page :
            /\ UpsertCheckpoint(ResyncMarket, s, "ok", last)
            /\ rsyLoop' = AfterMark(rsyLoop, last)
    BY <1>3 DEF RsyMark
  <2>2. rsyLoop.pc = "mark" /\ rsyLoop.s = s /\ UNCHANGED <<now, faults, rows, base>>
    BY <1>3 DEF RsyMark
  <2>3. LoopInv(rsyLoop', rows) /\ Recorded(s, last, rows)
    BY <1>0, <2>1, <2>2, MarkedInv
  <2>4. StoreInv' /\ Grows(rows, rows')
    BY <1>0, <2>1, <2>2, <2>3, MarketsKnown, SameClocks, PositionRecorded
  <2> QED
    BY <2>2, <2>3, <2>4 DEF RsyInv
<1> QED
  BY <1>1, <1>2, <1>3

LEMMA ResyncInv == DerivativesInv /\ Resync => DerivativesInv'
<1> SUFFICES ASSUME DerivativesInv, Resync PROVE DerivativesInv'
  OBVIOUS
<1>0. StoreInv /\ StoreTypeOK /\ HistInv /\ RecInv /\ RsyInv
      /\ UNCHANGED histVars /\ UNCHANGED <<rec, recLoop>>
  BY DEF DerivativesInv, StoreInv, Resync, RsyLaunch, RsyBegin, RsyStep, RsyRefused, RsyFails,
     RsyAborts, ResyncFundingRate, ResyncMarkPrice, ResyncOpenInterest, RsyFetch,
     RsyPersist, RsyMark
<1>1. ASSUME StoreInv' /\ RsyInv' /\ Grows(rows, rows') PROVE DerivativesInv'
  BY <1>0, <1>1, OthersKeep DEF DerivativesInv
<1>2. CASE RsyLaunch
  <2>1. PICK s \in Recoverable, range \in ResyncRanges, force \in BOOLEAN :
            RsyBegin(s, range, force)
    BY <1>2 DEF RsyLaunch
  <2>2. s \in Types /\ range[1] \in Nat /\ range[2] \in Nat
    BY MarketsKnown
  <2>3. rsyLoop' = Enter(s, range[1], range[2]) /\ UNCHANGED storeVars
    BY <2>1 DEF RsyBegin
  <2>4. LoopInv(rsyLoop', rows)
    BY <2>2, <2>3, EnterInv
  <2>5. StoreInv' /\ Grows(rows, rows')
    BY <1>0, <2>3, SameClocks, StoreKeeps DEF storeVars
  <2> QED
    BY <1>1, <2>3, <2>4, <2>5 DEF RsyInv, storeVars
<1>3. CASE RsyRefused \/ RsyFails
  <2>1. rsyLoop' = NoLoop /\ UNCHANGED <<now, rows, ledger, base>>
        /\ (UNCHANGED faults \/ Fault)
    BY <1>3 DEF RsyRefused, RsyFails, RsyAborts
  <2>2. StoreInv' /\ Grows(rows, rows')
    BY <1>0, <2>1, FaultClocks, SameClocks, StoreKeeps
  <2> QED
    BY <1>1, <2>1, <2>2, NoLoopInv DEF RsyInv
<1>4. CASE ResyncFundingRate \/ ResyncMarkPrice \/ ResyncOpenInterest
  <2>1. PICK s \in Types : RsyFetch(s) \/ RsyPersist(s) \/ RsyMark(s)
    BY <1>4 DEF ResyncFundingRate, ResyncMarkPrice, ResyncOpenInterest, Types
  <2> QED
    BY <1>1, <2>1, RsyPageInv
<1> QED
  BY <1>2, <1>3, <1>4 DEF Resync, RsyStep

-----------------------------------------------------------------------------
(* The theorems.                                                           *)

LEMMA InitInv == Init => DerivativesInv
<1> SUFFICES ASSUME Init PROVE DerivativesInv
  OBVIOUS
<1>1. StoreInv
  BY DEF Init, StoreInit, StoreInv, StoreTypeOK, Checkpoint, NoCheckpoint
<1>2. HistInv
  BY IdleRun, NoLoopInv DEF Init, HistInit, HistInv
<1>3. RecInv /\ RsyInv
  BY IdleSnap, NoLoopInv DEF Init, RepairInit, RecInv, RsyInv
<1> QED
  BY <1>1, <1>2, <1>3 DEF DerivativesInv

LEMMA ClockInv == DerivativesInv /\ Clock => DerivativesInv'
<1> SUFFICES ASSUME DerivativesInv, Clock PROVE DerivativesInv'
  OBVIOUS
<1>1. ClocksOK /\ UNCHANGED <<rows, ledger>>
  BY DEF Clock, Tick, DerivativesInv, StoreInv, StoreTypeOK, ClocksOK
<1>2. StoreInv' /\ Grows(rows, rows')
  BY <1>1, StoreKeeps DEF DerivativesInv
<1> QED
  BY <1>2, OthersKeep DEF Clock, DerivativesInv, repairVars

LEMMA StutterInv == DerivativesInv /\ UNCHANGED vars => DerivativesInv'
<1> SUFFICES ASSUME DerivativesInv, UNCHANGED vars PROVE DerivativesInv'
  OBVIOUS
<1>1. StoreInv' /\ Grows(rows, rows')
  BY SameClocks, StoreKeeps DEF vars, storeVars, DerivativesInv, StoreInv
<1> QED
  BY <1>1, OthersKeep DEF vars, DerivativesInv, repairVars

\* The inductive invariant: what each command is about to record, or to put back,
\* has its rows, whichever other command writes meanwhile.
THEOREM DerivativesInvariant == Spec => []DerivativesInv
<1>1. DerivativesInv /\ [Next]_vars => DerivativesInv'
  BY HistoricalInv, RecoveryInv, ResyncInv, ClockInv, StutterInv DEF Next
<1> QED
  BY <1>1, InitInv, PTL DEF Spec

\* Every checkpoint row of the derivatives commands names a record whose row was
\* committed first, or one the validator rejected.
THEOREM DerivativesRecorded == Spec => []RecordedInv
<1>1. DerivativesInv => TypeOK
  BY DEF DerivativesInv, StoreInv, HistInv, RecInv, RsyInv, SnapInv, LoopInv, TypeOK,
     HistTypeOK, RepairTypeOK
<1>2. DerivativesInv => PositionIsStored
  BY DEF DerivativesInv, StoreInv, PositionIsStored, Recorded
<1>3. DerivativesInv => RecordedInv
  BY <1>1, <1>2 DEF RecordedInv
<1> QED
  BY <1>3, DerivativesInvariant, PTL

-----------------------------------------------------------------------------
(* A checkpoint of the historical sync's market is safe to resume from.    *)

\* Every acceptable record of [lo, hi) has a row when the rows are r.
CoveredBy(r, s, lo, hi) ==
    \A e \in Events[s] \ Rejected[s] : lo <= e /\ e < hi => e \in r[s]

\* A loop over a range that begins at b[l.s]: all of it is stored up to where the loop
\* stands, and the page in hand leaves out nothing between that and its records.
LoopGapless(l, b, r) ==
    l.pc # "next" =>
        /\ CoveredBy(r, l.s, b[l.s], l.cur)
        /\ \A e \in l.page, d \in Events[l.s] : l.cur <= d /\ d <= e => d \in l.page

\* The historical sync and the recovery take turns, and have a loop only while they run.
Turns ==
    /\ hist.pc = "idle" \/ rec.pc = "idle"
    /\ hist.pc = "idle" => loop.pc = "next"
    /\ rec.pc = "idle" => rec = RecIdle /\ recLoop.pc = "next"

\* A recovery of the historical sync's own market: what it listed is what the checkpoint
\* still says of each data type to come, and safe to put back for any.
RecoveryGapless(run, l, cps, b, r) ==
    /\ LoopGapless(l, b, r)
    /\ l.pc # "next" => l.s \notin run.todo
    /\ \A s \in run.todo : cps[s].event = run.snap[s]
    /\ \A s \in Types : run.snap[s] # Null => CoveredBy(r, s, b[s], run.snap[s] + 1)

GaplessInv ==
    /\ GaplessPrefix /\ Turns
    /\ LoopGapless(loop, base[HistMarket], rows)
    /\ RecoveryMarket = HistMarket =>
          RecoveryGapless(rec, recLoop, ledger[HistMarket], base[HistMarket], rows)

\* The data types a run is done with: not to come, and not in the loop.
DoneWith(run, l) ==
    {s \in run.asked : /\ \A i \in 1..Len(run.todo) : run.todo[i] # s
                       /\ l.pc # "next" => l.s # s}

\* What the range of a data type was, when the run began.
Asked(run, b, r, s) ==
    CoveredBy(r, s, Later(run.start[s], b[s]), Earlier(run.end[s], run.began) + 1)

SuccessInv ==
    hist.pc = "run" =>
        /\ hist.began <= now
        /\ loop.pc # "next" => loop.end = hist.end[loop.s]
        /\ ~hist.failed /\ ~hist.stalled =>
              \A s \in DoneWith(hist, loop) : Asked(hist, base[HistMarket], rows, s)

-----------------------------------------------------------------------------
(* Pages and covered ranges.                                               *)

LEMMA StaysCovered ==
    ASSUME NEW r, NEW q, Grows(r, q), NEW s \in Types, NEW lo, NEW hi, CoveredBy(r, s, lo, hi)
    PROVE  CoveredBy(q, s, lo, hi)
BY DEF CoveredBy, Grows

\* A set of records that is not empty has a first one.
LEMMA FirstExists ==
    ASSUME NEW s \in Types, NEW S \in SUBSET Events[s], S # {}
    PROVE  \E m \in S : {d \in S : d < m} = {}
<1>1. IsFiniteSet(S) /\ S \in SUBSET Nat
  BY FS_Subset
<1>2. PICK m \in S : \A k \in S : m <= k
  BY <1>1, SmallestExists
<1>3. \A k \in S : ~(k < m)
  BY <1>1, <1>2
<1> QED
  BY <1>3

\* A page leaves out no record between its start and the ones it holds, and an empty
\* page means that there are none.
LEMMA AnswersAreGapless ==
    ASSUME NEW s \in Types, NEW from \in Nat, NEW to \in Nat, now \in Nat,
           NEW page \in Answers(s, from, to)
    PROVE  /\ \A e \in page, d \in Events[s] : from <= d /\ d <= e => d \in page
           /\ page = {} => \A d \in Events[s] : ~(from <= d /\ d <= to /\ d <= now)
<1> DEFINE avail == {e \in Events[s] : from <= e /\ e <= to /\ e <= now}
           below(e) == {d \in avail : d < e}
<1>1. avail \in SUBSET Events[s] /\ IsFiniteSet(avail) /\ Events[s] \subseteq Nat
  BY FS_Subset
<1>2. CASE page = FirstPage(s, from, to)
  <2>1. page = {e \in avail : Cardinality(below(e)) < Limit}
    BY <1>2 DEF FirstPage
  <2>2. ASSUME NEW e \in page, NEW d \in Events[s], from <= d, d <= e PROVE d \in page
    <3>1. e \in avail /\ e \in Nat /\ d \in Nat /\ e <= to /\ e <= now
      BY <1>1, <2>1
    <3>2. d \in avail
      BY <2>2, <3>1
    <3>3. \A j \in below(d) : j \in below(e)
      <4>1. \A j \in avail : j \in Nat
        BY <1>1
      <4> QED
        BY <2>2, <3>1, <4>1
    <3>4. IsFiniteSet(below(e)) /\ IsFiniteSet(below(d))
      BY <1>1, FS_Subset
    <3> HIDE DEF below
    <3>5. Cardinality(below(d)) <= Cardinality(below(e))
      BY <3>3, <3>4, FS_Subset
    <3>6. Cardinality(below(d)) \in Nat /\ Cardinality(below(e)) \in Nat
      BY <3>4, FS_CardinalityType
    <3> QED
      BY <2>1, <3>2, <3>5, <3>6
  <2>3. ASSUME avail # {} PROVE page # {}
    <3>1. PICK m \in avail : below(m) = {}
      BY <1>1, <2>3, FirstExists
    <3>2. Cardinality(below(m)) = 0
      BY <3>1, FS_EmptySet
    <3>3. Limit > 0
      OBVIOUS
    <3> HIDE DEF below, avail
    <3> QED
      BY <2>1, <3>2, <3>3
  <2> QED
    BY <2>2, <2>3
<1>3. CASE page \in StalePages(s, from)
  <2>1. PICK e \in Events[s] : e < from /\ page = {e}
    BY <1>3 DEF StalePages
  <2>2. ASSUME NEW d \in Events[s], from <= d, d <= e PROVE FALSE
    <3>1. d \in Nat /\ e \in Nat
      BY <1>1
    <3> QED
      BY <2>1, <2>2, <3>1
  <2> QED
    BY <2>1, <2>2
<1> QED
  BY <1>2, <1>3 DEF Answers

-----------------------------------------------------------------------------
(* The paging loop leaves nothing out.                                     *)

LEMMA NoLoopGapless == ASSUME NEW b, NEW r PROVE LoopGapless(NoLoop, b, r)
BY DEF LoopGapless, NoLoop

LEMMA GaplessKeeps ==
    ASSUME NEW l, NEW b, NEW r, NEW q, Grows(r, q), LoopInv(l, r), LoopGapless(l, b, r)
    PROVE  LoopGapless(l, b, q)
BY StaysCovered DEF LoopGapless, LoopInv, Loop

LEMMA EnterGapless ==
    ASSUME NEW s \in Types, NEW from \in Nat, NEW to \in Nat, NEW b, NEW r,
           from <= to => CoveredBy(r, s, b[s], from)
    PROVE  LoopGapless(Enter(s, from, to), b, r)
<1>1. CASE from > to
  BY <1>1, NoLoopGapless DEF Enter
<1>2. CASE ~(from > to)
  <2>1. PICK l : l = Enter(s, from, to)
    OBVIOUS
  <2>2. l.s = s /\ l.cur = from /\ l.page = {}
    BY <1>2, <2>1 DEF Enter, NoLoop
  <2> QED
    BY <1>2, <2>1, <2>2 DEF LoopGapless
<1> QED
  BY <1>1, <1>2

LEMMA FetchedGapless ==
    ASSUME NEW l, NEW b, NEW r, LoopInv(l, r), LoopGapless(l, b, r), l.pc = "fetch",
           now \in Nat, NEW page \in Answers(l.s, l.cur, l.end)
    PROVE  LoopGapless(AfterFetch(l, page), b, r)
<1>1. l \in Loop /\ l.s \in Types /\ l.cur \in Nat /\ l.end \in Nat
  BY DEF LoopInv, Loop
<1>2. CASE page = {}
  BY <1>2, NoLoopGapless DEF AfterFetch
<1>3. CASE page # {}
  <2>1. PICK n : n = AfterFetch(l, page)
    OBVIOUS
  <2>2. n.s = l.s /\ n.cur = l.cur /\ n.page = page
    BY <1>1, <1>3, <2>1 DEF AfterFetch, Loop
  <2>3. CoveredBy(r, l.s, b[l.s], l.cur)
    BY DEF LoopGapless
  <2>4. \A e \in page, d \in Events[l.s] : l.cur <= d /\ d <= e => d \in page
    BY <1>1, AnswersAreGapless
  <2> QED
    BY <2>1, <2>2, <2>3, <2>4 DEF LoopGapless
<1> QED
  BY <1>2, <1>3

LEMMA PersistedGapless ==
    ASSUME NEW l, NEW b, NEW r, NEW q, Grows(r, q), LoopInv(l, r), LoopGapless(l, b, r),
           l.pc = "persist"
    PROVE  LoopGapless([l EXCEPT !.pc = "mark"], b, q)
<1>1. PICK n : n = [l EXCEPT !.pc = "mark"]
  OBVIOUS
<1>2. n.s = l.s /\ n.cur = l.cur /\ n.page = l.page /\ l.pc # "next"
  BY <1>1 DEF LoopInv, Loop
<1>3. LoopGapless(l, b, q)
  BY GaplessKeeps
<1> QED
  BY <1>1, <1>2, <1>3 DEF LoopGapless

\* What is recorded is the end of a range that is complete, and the loop goes on there.
LEMMA MarkedGapless ==
    ASSUME NEW l, NEW b, NEW r, LoopInv(l, r), LoopGapless(l, b, r), l.pc = "mark",
           b[l.s] \in Nat, NEW last, IsLast(last, l.page)
    PROVE  /\ last \in Nat /\ CoveredBy(r, l.s, b[l.s], last + 1)
           /\ LoopGapless(AfterMark(l, last), b, r)
<1>1. /\ l \in Loop /\ l.s \in Types /\ l.cur \in Nat
      /\ last \in Events[l.s] /\ Events[l.s] \subseteq Nat
      /\ l.page \ Rejected[l.s] \subseteq r[l.s]
  BY DEF LoopInv, Loop, IsLast, Accepted
<1>2. CoveredBy(r, l.s, b[l.s], last + 1)
  <2> SUFFICES ASSUME NEW e \in Events[l.s] \ Rejected[l.s], b[l.s] <= e, e < last + 1
               PROVE  e \in r[l.s]
    BY DEF CoveredBy
  <2>1. e \in Nat /\ last \in Nat
    BY <1>1
  <2>2. CASE e < l.cur
    BY <2>2 DEF LoopGapless, CoveredBy
  <2>3. CASE l.cur <= e
    <3>1. e <= last /\ last \in l.page
      BY <2>1 DEF IsLast
    <3>2. e \in l.page
      BY <2>3, <3>1 DEF LoopGapless
    <3> QED
      BY <1>1, <3>2
  <2> QED
    BY <1>1, <2>1, <2>2, <2>3
<1>3. LoopGapless(AfterMark(l, last), b, r)
  <2>1. PICK n : n = AfterMark(l, last)
    OBVIOUS
  <2>2. CASE n = NoLoop
    BY <2>1, <2>2, NoLoopGapless
  <2>3. CASE n = [l EXCEPT !.pc = "fetch", !.cur = last + 1, !.page = {}]
    <3>1. n.s = l.s /\ n.cur = last + 1 /\ n.page = {}
      BY <1>1, <2>3 DEF Loop
    <3> QED
      BY <1>2, <2>1, <3>1 DEF LoopGapless
  <2> QED
    BY <2>1, <2>2, <2>3 DEF AfterMark
<1> QED
  BY <1>1, <1>2, <1>3

-----------------------------------------------------------------------------
(* The checkpoints of the historical sync's market.                        *)

LEMMA PrefixMeans ==
    /\ GaplessPrefix <=>
          \A s \in Types : ledger[HistMarket][s].event # Null =>
              CoveredBy(rows, s, base[HistMarket][s], ledger[HistMarket][s].event + 1)
    /\ GaplessPrefix' <=>
          \A s \in Types : ledger'[HistMarket][s].event # Null =>
              CoveredBy(rows', s, base'[HistMarket][s], ledger'[HistMarket][s].event + 1)
BY DEF GaplessPrefix, Covered, CoveredBy

LEMMA GrownPrefix ==
    ASSUME GaplessPrefix, Grows(rows, rows'), ledger'[HistMarket] = ledger[HistMarket],
           base'[HistMarket] = base[HistMarket]
    PROVE  GaplessPrefix'
BY PrefixMeans, StaysCovered

\* One row of one market is written, the others stay.
LEMMA UpsertedRow ==
    ASSUME StoreTypeOK, NEW m \in Markets, NEW s \in Types, NEW status, NEW event,
           UpsertCheckpoint(m, s, status, event)
    PROVE  /\ m # HistMarket => ledger'[HistMarket] = ledger[HistMarket]
           /\ m = HistMarket =>
                 /\ ledger'[m][s].event = event
                 /\ \A d \in Types \ {s} : ledger'[m][d] = ledger[m][d]
BY MarketsKnown DEF UpsertCheckpoint, StoreTypeOK

LEMMA RecordedPrefix ==
    ASSUME StoreTypeOK, GaplessPrefix, UNCHANGED <<rows, base>>,
           NEW s \in Types, NEW status, NEW event, UpsertCheckpoint(HistMarket, s, status, event),
           event # Null => CoveredBy(rows, s, base[HistMarket][s], event + 1)
    PROVE  GaplessPrefix'
<1>1. /\ ledger'[HistMarket][s].event = event
      /\ \A d \in Types \ {s} : ledger'[HistMarket][d] = ledger[HistMarket][d]
  BY UpsertedRow, MarketsKnown
<1>2. ASSUME NEW d \in Types, ledger'[HistMarket][d].event # Null
      PROVE  CoveredBy(rows', d, base'[HistMarket][d], ledger'[HistMarket][d].event + 1)
  BY <1>1, <1>2, PrefixMeans
<1> QED
  BY <1>2, PrefixMeans

\* A new range begins beyond the position, or the position is continued.
LEMMA RebasedPrefix ==
    ASSUME StoreTypeOK, GaplessPrefix, UNCHANGED <<rows, ledger>>,
           NEW s \in Types, NEW continues \in BOOLEAN, NEW from \in Nat,
           Rebase(HistMarket, s, continues, from),
           ~continues => \/ ledger[HistMarket][s].event = Null
                         \/ ledger[HistMarket][s].event + 1 <= from
    PROVE  /\ GaplessPrefix'
           /\ base'[HistMarket][s] = IF continues THEN base[HistMarket][s] ELSE from
           /\ \A d \in Types \ {s} : base'[HistMarket][d] = base[HistMarket][d]
<1>1. /\ base'[HistMarket][s] = IF continues THEN base[HistMarket][s] ELSE from
      /\ \A d \in Types \ {s} : base'[HistMarket][d] = base[HistMarket][d]
  BY MarketsKnown DEF Rebase, StoreTypeOK
<1>2. ASSUME NEW d \in Types, ledger'[HistMarket][d].event # Null
      PROVE  CoveredBy(rows', d, base'[HistMarket][d], ledger'[HistMarket][d].event + 1)
  <2>1. CASE d = s /\ ~continues
    <3>1. ledger[HistMarket][s].event \in Nat /\ ledger[HistMarket][s].event + 1 <= from
      BY <1>2, <2>1, MarketsKnown DEF StoreTypeOK, Checkpoint
    <3>2. \A e \in Events[s] : e \in Nat
      OBVIOUS
    <3> QED
      BY <1>1, <2>1, <3>1, <3>2 DEF CoveredBy
  <2>2. CASE ~(d = s /\ ~continues)
    BY <1>1, <1>2, <2>2, PrefixMeans
  <2> QED
    BY <2>1, <2>2
<1> QED
  BY <1>1, <1>2, PrefixMeans

\* Nothing is running in a recovery that is idle.
LEMMA IdleRecovery ==
    ASSUME NEW l, l.pc = "next", NEW cps, NEW b, NEW r
    PROVE  RecoveryGapless(RecIdle, l, cps, b, r)
BY DEF RecoveryGapless, LoopGapless, RecIdle

LEMMA IdleLoop == ASSUME NEW l, l.pc = "next", NEW b, NEW r PROVE LoopGapless(l, b, r)
BY DEF LoopGapless

LEMMA LoopRuns ==
    /\ NoLoop.pc = "next" /\ HistIdle.pc = "idle" /\ RecIdle.pc = "idle"
BY DEF NoLoop, HistIdle, RecIdle

-----------------------------------------------------------------------------
(* The steps of the historical sync.                                       *)

\* It runs alone: what has to be shown is about its own loop and the checkpoints.
LEMMA HistSuffices ==
    ASSUME GaplessInv, hist.pc = "run", UNCHANGED repairVars, GaplessPrefix',
           hist'.pc = "run" \/ loop'.pc = "next",
           LoopGapless(loop', base'[HistMarket], rows')
    PROVE  GaplessInv'
<1>1. rec = RecIdle /\ recLoop.pc = "next" /\ rec'= rec /\ recLoop' = recLoop
  BY DEF GaplessInv, Turns, repairVars
<1>2. Turns'
  BY <1>1, LoopRuns DEF Turns
<1>3. RecoveryGapless(rec', recLoop', ledger'[HistMarket], base'[HistMarket], rows')
  BY <1>1, IdleRecovery
<1> QED
  BY <1>2, <1>3 DEF GaplessInv

LEMMA LaunchGapless ==
    ASSUME GaplessInv, MayLaunch, HistLaunch, UNCHANGED repairVars PROVE GaplessInv'
<1>1. UNCHANGED <<storeVars, loop>> /\ hist.pc = "idle" /\ rec.pc = "idle"
  BY DEF HistLaunch, LaunchAuto, LaunchExplicit, Launch, MayLaunch
<1>2. loop.pc = "next" /\ rec = RecIdle /\ recLoop.pc = "next" /\ UNCHANGED <<rec, recLoop>>
  BY <1>1 DEF GaplessInv, Turns, repairVars
<1>3. GaplessPrefix'
  BY <1>1, PrefixMeans DEF GaplessInv, storeVars
<1>4. Turns'
  BY <1>1, <1>2 DEF Turns
<1>5. LoopGapless(loop', base'[HistMarket], rows')
  BY <1>1, <1>2, IdleLoop
<1>6. RecoveryGapless(rec', recLoop', ledger'[HistMarket], base'[HistMarket], rows')
  BY <1>2, IdleRecovery
<1> QED
  BY <1>3, <1>4, <1>5, <1>6 DEF GaplessInv

\* A range is continued where the position says, or is a new one that begins there.
LEMMA NextTypeGapless ==
    ASSUME DerivativesInv, GaplessInv, NextType, UNCHANGED repairVars PROVE GaplessInv'
<1> DEFINE s == Head(hist.todo)
           start == hist.start[s]
           from == ResumePoint(s, start)
<1>1. hist \in HistRun /\ StoreTypeOK /\ GaplessPrefix
  BY DEF DerivativesInv, HistInv, StoreInv, GaplessInv
<1>2. s \in Types /\ start \in Nat /\ hist.end[s] \in Nat
  BY <1>1 DEF NextType, HistRun
<1>3. Position(s) \in Nat \cup {Null} /\ Position(s) = ledger[HistMarket][s].event
  BY <1>1, <1>2, MarketsKnown DEF Position, StoreTypeOK, Checkpoint
<1>4. /\ hist.pc = "run" /\ hist'.pc = "run" /\ loop' = Enter(s, from, hist.end[s])
      /\ UNCHANGED <<rows, ledger>>
      /\ IF from <= hist.end[s] THEN Rebase(HistMarket, s, Resumes(s, start), start)
         ELSE UNCHANGED base
  BY <1>1 DEF NextType, HistRun
<1>5. from \in Nat /\ Resumes(s, start) \in BOOLEAN
  BY <1>2, <1>3 DEF ResumePoint, Resumes
<1> HIDE DEF s
<1>6. CASE from <= hist.end[s]
  <2>1. ~Resumes(s, start) => Position(s) = Null \/ Position(s) + 1 <= start
    BY <1>2, <1>3 DEF Resumes
  <2>2. Rebase(HistMarket, s, Resumes(s, start), start)
    BY <1>4, <1>6
  <2> HIDE DEF start
  <2>3. /\ GaplessPrefix'
        /\ base'[HistMarket][s] = IF Resumes(s, start) THEN base[HistMarket][s] ELSE start
    BY <1>1, <1>2, <1>3, <1>4, <1>5, <2>1, <2>2, RebasedPrefix
  <2>4. CoveredBy(rows', s, base'[HistMarket][s], from)
    <3>1. CASE Resumes(s, start)
      <4>1. CoveredBy(rows, s, base[HistMarket][s], Position(s) + 1)
        BY <1>1, <1>2, <1>3, <3>1, PrefixMeans DEF Resumes
      <4> QED
        BY <1>4, <2>3, <3>1, <4>1 DEF ResumePoint
    <3>2. CASE ~Resumes(s, start)
      <4>1. \A e \in Events[s] : e \in Nat
        BY <1>2
      <4> QED
        BY <1>2, <2>3, <3>2, <4>1 DEF CoveredBy, ResumePoint
    <3> QED
      BY <3>1, <3>2
  <2>5. LoopGapless(loop', base'[HistMarket], rows')
    BY <1>2, <1>4, <1>5, <2>4, EnterGapless
  <2> QED
    BY <1>4, <2>3, <2>5, HistSuffices
<1>7. CASE ~(from <= hist.end[s])
  <2>1. loop' = NoLoop
    BY <1>2, <1>4, <1>5, <1>7 DEF Enter
  <2>2. GaplessPrefix'
    BY <1>1, <1>4, <1>7, PrefixMeans
  <2> QED
    BY <1>4, <2>1, <2>2, NoLoopGapless, HistSuffices
<1> QED
  BY <1>6, <1>7

LEMMA PageGapless ==
    ASSUME DerivativesInv, GaplessInv, NEW s \in Types, Fetch(s) \/ Persist(s) \/ Mark(s),
           UNCHANGED repairVars
    PROVE  GaplessInv'
<1>0. /\ StoreTypeOK /\ GaplessPrefix /\ LoopInv(loop, rows) /\ hist \in HistRun
      /\ LoopGapless(loop, base[HistMarket], rows)
  BY DEF DerivativesInv, HistInv, StoreInv, GaplessInv
<1>1. loop.pc # "next" /\ loop.s = s
  BY DEF Fetch, Persist, Mark
<1>2. hist.pc = "run" /\ hist'.pc = "run"
  <2>1. hist.pc = "run"
    BY <1>0, <1>1 DEF GaplessInv, Turns, HistRun
  <2> QED
    BY <1>0, <2>1 DEF Fetch, Persist, Mark, HistRun
<1>3. base[HistMarket][s] \in Nat /\ now \in Nat
  BY <1>0, MarketsKnown DEF StoreTypeOK
<1>4. CASE Fetch(s)
  <2>1. PICK page \in Answers(loop.s, loop.cur, loop.end) : loop' = AfterFetch(loop, page)
    BY <1>4 DEF Fetch
  <2>2. loop.pc = "fetch" /\ UNCHANGED <<rows, ledger, base>>
    BY <1>4 DEF Fetch, storeVars
  <2>3. LoopGapless(loop', base'[HistMarket], rows')
    BY <1>0, <1>3, <2>1, <2>2, FetchedGapless
  <2>4. GaplessPrefix'
    BY <1>0, <2>2, PrefixMeans
  <2> QED
    BY <1>2, <2>3, <2>4, HistSuffices
<1>5. CASE Persist(s)
  <2>1. /\ loop.pc = "persist" /\ loop' = [loop EXCEPT !.pc = "mark"]
        /\ UNCHANGED <<ledger, base>>
    BY <1>5 DEF Persist
  <2>2. Grows(rows, rows')
    BY PageInv
  <2>3. LoopGapless(loop', base'[HistMarket], rows')
    BY <1>0, <2>1, <2>2, PersistedGapless
  <2>4. GaplessPrefix'
    BY <1>0, <2>1, <2>2, GrownPrefix
  <2> QED
    BY <1>2, <2>3, <2>4, HistSuffices
<1>6. CASE Mark(s)
  <2>1. PICK last \in loop.page :
            /\ IsLast(last, loop.page)
            /\ UpsertCheckpoint(HistMarket, s, "ok", last)
            /\ loop' = AfterMark(loop, last)
    BY <1>6 DEF Mark
  <2>2. loop.pc = "mark" /\ UNCHANGED <<rows, base>>
    BY <1>6 DEF Mark
  <2>3. /\ CoveredBy(rows, s, base[HistMarket][s], last + 1)
        /\ LoopGapless(loop', base[HistMarket], rows)
    BY <1>0, <1>1, <1>3, <2>1, <2>2, MarkedGapless
  <2>4. GaplessPrefix'
    BY <1>0, <2>1, <2>2, <2>3, RecordedPrefix
  <2> QED
    BY <1>2, <2>2, <2>3, <2>4, HistSuffices
<1> QED
  BY <1>4, <1>5, <1>6

LEMMA HistoricalGapless ==
    ASSUME DerivativesInv, GaplessInv, Historical PROVE GaplessInv'
<1>0. StoreTypeOK /\ GaplessPrefix /\ LoopInv(loop, rows) /\ hist \in HistRun
      /\ UNCHANGED repairVars
  BY DEF DerivativesInv, HistInv, StoreInv, GaplessInv, Historical
<1>1. CASE MayLaunch /\ HistLaunch
  BY <1>0, <1>1, LaunchGapless
<1>2. CASE NextType
  BY <1>0, <1>2, NextTypeGapless
<1>3. CASE Report \/ HistCrash
  <2>1. hist.pc = "run" /\ UNCHANGED <<rows, ledger, base>>
    BY <1>3 DEF Report, HistCrash, storeVars
  <2>2. loop'.pc = "next"
    BY <1>3, LoopRuns DEF Report, HistCrash
  <2>3. GaplessPrefix'
    BY <1>0, <2>1, PrefixMeans
  <2> QED
    BY <1>0, <2>1, <2>2, <2>3, IdleLoop, HistSuffices
<1>4. CASE OpenInterestRefused \/ HistFails
  <2>1. RecordError /\ loop.pc # "next"
    BY <1>4 DEF OpenInterestRefused, HistFails
  <2>2. hist.pc = "run"
    BY <1>0, <2>1 DEF GaplessInv, Turns, HistRun
  <2>3. /\ UpsertCheckpoint(HistMarket, loop.s, "error", Null) /\ loop' = NoLoop
        /\ UNCHANGED <<rows, base>>
    BY <2>1 DEF RecordError
  <2>4. loop.s \in Types
    BY <1>0 DEF LoopInv, Loop
  <2>5. GaplessPrefix'
    BY <1>0, <2>3, <2>4, RecordedPrefix
  <2> QED
    BY <1>0, <2>2, <2>3, <2>5, LoopRuns, IdleLoop, HistSuffices
<1>5. CASE SyncFundingRate \/ SyncMarkPrice \/ SyncIndexPrice \/ SyncOpenInterest
  <2>1. PICK s \in Types : Fetch(s) \/ Persist(s) \/ Mark(s)
    BY <1>5 DEF SyncFundingRate, SyncMarkPrice, SyncIndexPrice, SyncOpenInterest, Types
  <2> QED
    BY <1>0, <2>1, PageGapless
<1> QED
  BY <1>1, <1>2, <1>3, <1>4, <1>5 DEF Historical, HistStep

-----------------------------------------------------------------------------
(* The steps of the recovery.                                              *)

RecGapless ==
    GaplessPrefix /\ RecoveryGapless(rec, recLoop, ledger[HistMarket], base[HistMarket], rows)

LEMMA RecGaplessMeans ==
    RecGapless' <=>
        /\ GaplessPrefix'
        /\ RecoveryGapless(rec', recLoop', ledger'[HistMarket], base'[HistMarket], rows')
BY DEF RecGapless

\* The historical sync is idle, and the recovery has a loop only while it runs.
LEMMA RecoveryTurns ==
    ASSUME DerivativesInv, GaplessInv, Recovery
    PROVE  Turns' /\ UNCHANGED histVars /\ hist.pc = "idle" /\ loop.pc = "next"
<1>1. Turns /\ UNCHANGED histVars /\ rec \in RecRun
  BY DEF GaplessInv, Recovery, DerivativesInv, RecInv, SnapInv
<1> SUFFICES Turns' /\ hist.pc = "idle" /\ loop.pc = "next"
  BY <1>1
<1>2. CASE MayLaunch /\ RecLaunch
  <2>1. hist.pc = "idle" /\ rec'.pc = "run" /\ recLoop' = recLoop
    BY <1>2 DEF MayLaunch, RecLaunch
  <2> QED
    BY <1>1, <2>1 DEF Turns, histVars
<1>3. rec.pc = "run" /\ (rec'.pc = "run" \/ (rec' = RecIdle /\ recLoop'.pc = "next"))
      => Turns' /\ hist.pc = "idle" /\ loop.pc = "next"
  BY <1>1, LoopRuns DEF Turns, histVars
<1>4. CASE RecNextType \/ RecGivesUp
  <2>1. rec.pc = "run" /\ \E s : rec' = [rec EXCEPT !.todo = @ \ {s}]
    BY <1>4 DEF RecNextType, RecGivesUp
  <2>2. rec'.pc = "run"
    BY <1>1, <2>1 DEF RecRun
  <2> QED
    BY <1>3, <2>1, <2>2
<1>5. CASE RecReport
  BY <1>1, <1>3, <1>5 DEF RecReport
<1>6. CASE RecCrash
  BY <1>1, <1>3, <1>6, LoopRuns DEF RecCrash
<1>7. CASE \/ RecRefused \/ RecFails
           \/ RecoverFundingRate \/ RecoverMarkPrice \/ RecoverOpenInterest
  <2>1. recLoop.pc # "next" /\ rec' = rec
    BY <1>7 DEF RecRefused, RecFails, RecoverFundingRate, RecoverMarkPrice,
       RecoverOpenInterest, RecFetch, RecPersist, RecMark
  <2>2. rec.pc = "run" /\ rec'.pc = "run"
    BY <1>1, <2>1 DEF Turns, RecRun
  <2> QED
    BY <1>3, <2>2
<1> QED
  BY <1>1, <1>2, <1>4, <1>5, <1>6, <1>7 DEF Recovery, RecStep

LEMMA RecLaunchGapless ==
    ASSUME DerivativesInv, RecGapless, Turns, rec.pc = "idle", RecLaunch,
           RecoveryMarket = HistMarket
    PROVE  RecGapless'
<1>1. /\ UNCHANGED <<rows, ledger, base, recLoop>> /\ recLoop.pc = "next" /\ GaplessPrefix
  BY DEF RecLaunch, Turns, RecGapless, storeVars
<1>2. /\ rec'.todo = ErrorCheckpoints /\ ErrorCheckpoints \subseteq Types
      /\ rec'.snap = [s \in Types |-> ledger[HistMarket][s].event]
  BY MarketsKnown DEF RecLaunch, ErrorCheckpoints
<1>3. GaplessPrefix'
  BY <1>1, PrefixMeans
<1>4. LoopGapless(recLoop', base'[HistMarket], rows')
  BY <1>1, IdleLoop
<1>5. \A s \in Types : rec'.snap[s] # Null =>
          CoveredBy(rows', s, base'[HistMarket][s], rec'.snap[s] + 1)
  BY <1>1, <1>2, PrefixMeans
<1> QED
  BY <1>1, <1>2, <1>3, <1>4, <1>5, RecGaplessMeans DEF RecoveryGapless

LEMMA RecNextTypeGapless ==
    ASSUME DerivativesInv, RecGapless, RecNextType, RecoveryMarket = HistMarket
    PROVE  RecGapless'
<1>1. /\ StoreTypeOK /\ GaplessPrefix /\ rec \in RecRun
      /\ RecoveryGapless(rec, recLoop, ledger[HistMarket], base[HistMarket], rows)
  BY DEF DerivativesInv, StoreInv, RecInv, SnapInv, RecGapless
<1>2. PICK s \in rec.todo :
          /\ RecStart(s) # Null
          /\ recLoop' = Enter(s, RecStart(s), rec.end)
          /\ IF RecStart(s) <= rec.end
             THEN Rebase(RecoveryMarket, s, rec.snap[s] # Null, RecStart(s))
             ELSE UNCHANGED base
          /\ rec' = [rec EXCEPT !.todo = @ \ {s}]
  BY DEF RecNextType
<1>3. /\ s \in Types /\ rec.end \in Nat /\ rec.snap \in [Types -> Nat \cup {Null}]
      /\ rec'.todo = rec.todo \ {s} /\ rec'.snap = rec.snap /\ rec.todo \subseteq Types
      /\ UNCHANGED <<rows, ledger>>
  BY <1>1, <1>2 DEF RecRun, RecNextType
<1>4. RecStart(s) \in Nat
  BY <1>2, <1>3 DEF RecStart
<1>5. ledger[HistMarket][s].event = rec.snap[s]
  BY <1>1, <1>2 DEF RecoveryGapless
<1>6. /\ \A d \in rec'.todo : ledger'[HistMarket][d].event = rec'.snap[d]
      /\ s \notin rec'.todo
  BY <1>1, <1>3 DEF RecoveryGapless
<1>7. CASE RecStart(s) <= rec.end
  <2>1. /\ GaplessPrefix'
        /\ base'[HistMarket][s] =
               IF rec.snap[s] # Null THEN base[HistMarket][s] ELSE RecStart(s)
        /\ \A d \in Types \ {s} : base'[HistMarket][d] = base[HistMarket][d]
    BY ZenonT(30), <1>1, <1>2, <1>3, <1>4, <1>5, <1>7, RebasedPrefix
  <2>2. \A d \in Types : rec'.snap[d] # Null =>
            CoveredBy(rows', d, base'[HistMarket][d], rec'.snap[d] + 1)
    BY <1>1, <1>3, <2>1 DEF RecoveryGapless
  <2>3. CoveredBy(rows', s, base'[HistMarket][s], RecStart(s))
    <3>1. \A e \in Events[s] : e \in Nat
      BY <1>3
    <3>2. CASE rec.snap[s] # Null
      <4>1. RecStart(s) = rec.snap[s] /\ rec.snap[s] \in Nat
        BY <1>4, <3>2 DEF RecStart
      <4> QED
        BY <1>3, <2>2, <3>1, <3>2, <4>1 DEF CoveredBy
    <3>3. CASE rec.snap[s] = Null
      BY <1>4, <2>1, <3>1, <3>3 DEF CoveredBy
    <3> QED
      BY <3>2, <3>3
  <2>4. LoopGapless(recLoop', base'[HistMarket], rows')
    BY <1>2, <1>3, <1>4, <2>3, EnterGapless
  <2>5. recLoop'.pc # "next" => recLoop'.s = s
    <3>1. PICK l : l = Enter(s, RecStart(s), rec.end)
      OBVIOUS
    <3>2. l.s = s
      BY <1>3, <1>4, <1>7, <3>1 DEF Enter, NoLoop
    <3> QED
      BY <1>2, <3>1, <3>2
  <2> QED
    BY <1>6, <2>1, <2>2, <2>4, <2>5, RecGaplessMeans DEF RecoveryGapless
<1>8. CASE ~(RecStart(s) <= rec.end)
  <2>1. recLoop' = NoLoop /\ base' = base
    BY <1>2, <1>3, <1>4, <1>8 DEF Enter
  <2>2. GaplessPrefix'
    BY <1>1, <1>3, <2>1, PrefixMeans
  <2>3. LoopGapless(recLoop', base'[HistMarket], rows')
    BY <2>1, NoLoopGapless
  <2>4. \A d \in Types : rec'.snap[d] # Null =>
            CoveredBy(rows', d, base'[HistMarket][d], rec'.snap[d] + 1)
    BY <1>1, <1>3, <2>1 DEF RecoveryGapless
  <2> QED
    BY <1>6, <2>1, <2>2, <2>3, <2>4, LoopRuns, RecGaplessMeans DEF RecoveryGapless
<1> QED
  BY <1>7, <1>8

\* The listed position is put back for a data type that is given up, refused or failed.
LEMMA PutBackGapless ==
    ASSUME DerivativesInv, RecGapless, NEW s \in Types, s \notin rec'.todo,
           rec'.todo \subseteq rec.todo, rec'.snap = rec.snap, recLoop'.pc = "next",
           UNCHANGED ledger \/ RecError(s), UNCHANGED <<rows, base>>,
           RecoveryMarket = HistMarket
    PROVE  RecGapless'
<1>1. /\ StoreTypeOK /\ GaplessPrefix /\ rec \in RecRun
      /\ RecoveryGapless(rec, recLoop, ledger[HistMarket], base[HistMarket], rows)
  BY DEF DerivativesInv, StoreInv, RecInv, SnapInv, RecGapless
<1>2. rec.todo \subseteq Types
  BY <1>1 DEF RecRun
<1>3. GaplessPrefix' /\ \A d \in Types \ {s} : ledger'[HistMarket][d] = ledger[HistMarket][d]
  <2>1. CASE UNCHANGED ledger
    BY <1>1, <2>1, PrefixMeans
  <2>2. CASE RecError(s)
    <3>1. UpsertCheckpoint(HistMarket, s, "error", rec.snap[s])
      BY <2>2 DEF RecError
    <3>2. rec.snap[s] # Null => CoveredBy(rows, s, base[HistMarket][s], rec.snap[s] + 1)
      BY <1>1 DEF RecoveryGapless
    <3> QED
      BY <1>1, <3>1, <3>2, RecordedPrefix, UpsertedRow, MarketsKnown
  <2> QED
    BY <2>1, <2>2
<1>4. \A d \in rec'.todo : ledger'[HistMarket][d].event = rec'.snap[d]
  BY <1>1, <1>2, <1>3 DEF RecoveryGapless
<1>5. \A d \in Types : rec'.snap[d] # Null =>
          CoveredBy(rows', d, base'[HistMarket][d], rec'.snap[d] + 1)
  BY <1>1 DEF RecoveryGapless
<1>6. LoopGapless(recLoop', base'[HistMarket], rows')
  BY IdleLoop
<1> QED
  BY <1>3, <1>4, <1>5, <1>6, RecGaplessMeans DEF RecoveryGapless

LEMMA RecGivesUpGapless ==
    ASSUME DerivativesInv, RecGapless, RecGivesUp, RecoveryMarket = HistMarket
    PROVE  RecGapless'
<1>1. rec \in RecRun
  BY DEF DerivativesInv, RecInv, SnapInv
<1>2. PICK s \in rec.todo :
          /\ UNCHANGED ledger \/ RecError(s)
          /\ rec' = [rec EXCEPT !.todo = @ \ {s}]
  BY DEF RecGivesUp
<1>3. s \in Types /\ rec'.todo = rec.todo \ {s} /\ rec'.snap = rec.snap
  BY <1>1, <1>2 DEF RecRun
<1>4. UNCHANGED <<rows, base>> /\ recLoop'.pc = "next"
  BY DEF RecGivesUp
<1> QED
  BY <1>2, <1>3, <1>4, PutBackGapless

LEMMA RecErrorGapless ==
    ASSUME DerivativesInv, RecGapless, RecFails \/ RecRefused, RecoveryMarket = HistMarket
    PROVE  RecGapless'
<1>1. /\ recLoop.pc # "next" /\ RecError(recLoop.s) /\ recLoop'.pc = "next"
      /\ UNCHANGED <<rows, base, rec>>
  BY LoopRuns DEF RecFails, RecRefused
<1>2. recLoop.s \in Types /\ recLoop.s \notin rec.todo
  BY <1>1 DEF DerivativesInv, RecInv, LoopInv, Loop, RecGapless, RecoveryGapless
<1> QED
  BY <1>1, <1>2, PutBackGapless

LEMMA RecPageGapless ==
    ASSUME DerivativesInv, RecGapless, NEW s \in Types, RecFetch(s) \/ RecPersist(s) \/ RecMark(s),
           RecoveryMarket = HistMarket
    PROVE  RecGapless'
<1>0. /\ StoreTypeOK /\ GaplessPrefix /\ LoopInv(recLoop, rows) /\ rec \in RecRun
      /\ RecoveryGapless(rec, recLoop, ledger[HistMarket], base[HistMarket], rows)
  BY DEF DerivativesInv, StoreInv, RecInv, SnapInv, RecGapless
<1>1. /\ recLoop.pc # "next" /\ recLoop.s = s /\ s \notin rec.todo /\ rec' = rec
      /\ rec.todo \subseteq Types /\ LoopGapless(recLoop, base[HistMarket], rows)
  BY <1>0 DEF RecFetch, RecPersist, RecMark, RecoveryGapless, RecRun
<1>2. base[HistMarket][s] \in Nat /\ now \in Nat
  BY <1>0, MarketsKnown DEF StoreTypeOK
<1>3. CASE RecFetch(s)
  <2>1. PICK page \in Answers(recLoop.s, recLoop.cur, recLoop.end) :
            recLoop' = AfterFetch(recLoop, page)
    BY <1>3 DEF RecFetch
  <2>2. recLoop.pc = "fetch" /\ UNCHANGED <<rows, ledger, base>>
    BY <1>3 DEF RecFetch, storeVars
  <2>3. LoopGapless(recLoop', base'[HistMarket], rows')
    BY <1>0, <1>1, <1>2, <2>1, <2>2, FetchedGapless
  <2>4. recLoop'.pc # "next" => recLoop'.s = s
    BY <1>0, <1>1, <2>1, LoopRuns DEF AfterFetch, LoopInv, Loop
  <2>5. GaplessPrefix'
    BY <1>0, <2>2, PrefixMeans
  <2> QED
    BY <1>0, <1>1, <2>2, <2>3, <2>4, <2>5, RecGaplessMeans DEF RecoveryGapless
<1>4. CASE RecPersist(s)
  <2>1. /\ recLoop.pc = "persist" /\ recLoop' = [recLoop EXCEPT !.pc = "mark"]
        /\ UNCHANGED <<ledger, base>>
    BY <1>4 DEF RecPersist
  <2>2. Grows(rows, rows')
    BY <1>4, RecPageInv
  <2>3. LoopGapless(recLoop', base'[HistMarket], rows')
    BY <1>0, <1>1, <2>1, <2>2, PersistedGapless
  <2>4. recLoop'.s = s
    BY <1>0, <1>1, <2>1 DEF LoopInv, Loop
  <2>5. GaplessPrefix'
    BY <1>0, <2>1, <2>2, GrownPrefix
  <2>6. \A d \in Types : rec'.snap[d] # Null =>
            CoveredBy(rows', d, base'[HistMarket][d], rec'.snap[d] + 1)
    BY <1>0, <1>1, <2>1, <2>2, StaysCovered DEF RecoveryGapless
  <2> QED
    BY <1>0, <1>1, <2>1, <2>3, <2>4, <2>5, <2>6, RecGaplessMeans DEF RecoveryGapless
<1>5. CASE RecMark(s)
  <2>1. PICK last \in recLoop.page :
            /\ IsLast(last, recLoop.page)
            /\ UpsertCheckpoint(HistMarket, s, "ok", last)
            /\ recLoop' = AfterMark(recLoop, last)
    BY <1>5 DEF RecMark
  <2>2. recLoop.pc = "mark" /\ UNCHANGED <<rows, base>>
    BY <1>5 DEF RecMark
  <2>3. /\ CoveredBy(rows, s, base[HistMarket][s], last + 1)
        /\ LoopGapless(recLoop', base[HistMarket], rows)
    BY <1>0, <1>1, <1>2, <2>1, <2>2, MarkedGapless
  <2>4. GaplessPrefix'
    BY <1>0, <2>1, <2>2, <2>3, RecordedPrefix
  <2>5. \A d \in Types \ {s} : ledger'[HistMarket][d] = ledger[HistMarket][d]
    BY <1>0, <2>1, UpsertedRow, MarketsKnown
  <2>6. recLoop'.pc # "next" => recLoop'.s = s
    BY <1>0, <1>1, <2>1, LoopRuns DEF AfterMark, LoopInv, Loop
  <2> QED
    BY <1>0, <1>1, <2>2, <2>3, <2>4, <2>5, <2>6, RecGaplessMeans DEF RecoveryGapless
<1> QED
  BY <1>3, <1>4, <1>5

\* A recovery of the other market writes nothing the historical sync reads but rows.
LEMMA OtherMarket ==
    ASSUME DerivativesInv, Recovery, RecoveryMarket # HistMarket
    PROVE  /\ ledger'[HistMarket] = ledger[HistMarket]
           /\ base'[HistMarket] = base[HistMarket]
           /\ Grows(rows, rows')
<1>1. StoreTypeOK /\ rec \in RecRun /\ recLoop.s \in Types
  BY DEF DerivativesInv, StoreInv, RecInv, SnapInv, LoopInv, Loop
<1>2. CASE RecLaunch
  BY <1>2 DEF RecLaunch, storeVars, Grows
<1>3. CASE RecNextType
  <2>1. UNCHANGED <<rows, ledger>>
    BY <1>3 DEF RecNextType
  <2>2. UNCHANGED base \/ \E s \in Types : \E c, from : Rebase(RecoveryMarket, s, c, from)
    BY <1>1, <1>3 DEF RecNextType, RecRun
  <2>3. base'[HistMarket] = base[HistMarket]
    BY <1>1, <2>2, MarketsKnown DEF Rebase, StoreTypeOK
  <2> QED
    BY <2>1, <2>3 DEF Grows
<1>4. CASE RecGivesUp
  <2>1. UNCHANGED <<rows, base>>
    BY <1>4 DEF RecGivesUp
  <2>2. UNCHANGED ledger \/ \E s \in Types : RecError(s)
    BY <1>1, <1>4 DEF RecGivesUp, RecRun
  <2> QED
    BY <1>1, <2>1, <2>2, UpsertedRow, MarketsKnown DEF RecError, Grows
<1>5. CASE RecReport \/ RecCrash
  BY <1>5 DEF RecReport, RecCrash, storeVars, Grows
<1>6. CASE RecRefused \/ RecFails
  <2>1. UNCHANGED <<rows, base>> /\ RecError(recLoop.s)
    BY <1>6 DEF RecRefused, RecFails
  <2> QED
    BY <1>1, <2>1, UpsertedRow, MarketsKnown DEF RecError, Grows
<1>7. CASE RecoverFundingRate \/ RecoverMarkPrice \/ RecoverOpenInterest
  <2>1. PICK s \in Types : RecFetch(s) \/ RecPersist(s) \/ RecMark(s)
    BY <1>7 DEF RecoverFundingRate, RecoverMarkPrice, RecoverOpenInterest, Types
  <2>2. Grows(rows, rows')
    BY <2>1, RecPageInv
  <2>3. /\ UNCHANGED base
        /\ UNCHANGED ledger \/ \E last : UpsertCheckpoint(RecoveryMarket, s, "ok", last)
    BY <2>1 DEF RecFetch, RecPersist, RecMark, storeVars
  <2> QED
    BY <1>1, <2>2, <2>3, UpsertedRow, MarketsKnown
<1> QED
  BY <1>2, <1>3, <1>4, <1>5, <1>6, <1>7 DEF Recovery, RecStep

LEMMA RecoveryGaplessStep ==
    ASSUME DerivativesInv, GaplessInv, Recovery PROVE GaplessInv'
<1>1. Turns' /\ loop' = loop /\ loop.pc = "next" /\ Turns /\ GaplessPrefix
  BY RecoveryTurns DEF histVars, GaplessInv
<1>2. LoopGapless(loop', base'[HistMarket], rows')
  BY <1>1, IdleLoop
<1>3. CASE RecoveryMarket # HistMarket
  BY <1>1, <1>2, <1>3, OtherMarket, GrownPrefix DEF GaplessInv
<1>4. CASE RecoveryMarket = HistMarket
  <2>1. RecGapless
    BY <1>4 DEF GaplessInv, RecGapless
  <2>2. RecGapless'
    <3>1. CASE RecLaunch
      BY <1>1, <1>4, <2>1, <3>1, RecLaunchGapless DEF RecLaunch
    <3>2. CASE RecNextType
      BY <1>4, <2>1, <3>2, RecNextTypeGapless
    <3>3. CASE RecGivesUp
      BY <1>4, <2>1, <3>3, RecGivesUpGapless
    <3>4. CASE RecReport \/ RecCrash
      <4>1. rec' = RecIdle /\ recLoop'.pc = "next" /\ UNCHANGED <<rows, ledger, base>>
        BY <3>4, LoopRuns DEF RecReport, RecCrash, storeVars
      <4> QED
        BY <1>1, <4>1, IdleRecovery, PrefixMeans, RecGaplessMeans
    <3>5. CASE RecRefused \/ RecFails
      BY <1>4, <2>1, <3>5, RecErrorGapless
    <3>6. CASE RecoverFundingRate \/ RecoverMarkPrice \/ RecoverOpenInterest
      <4>1. PICK s \in Types : RecFetch(s) \/ RecPersist(s) \/ RecMark(s)
        BY <3>6 DEF RecoverFundingRate, RecoverMarkPrice, RecoverOpenInterest, Types
      <4> QED
        BY <1>4, <2>1, <4>1, RecPageGapless
    <3> QED
      BY <3>1, <3>2, <3>3, <3>4, <3>5, <3>6 DEF Recovery, RecStep
  <2> QED
    BY <1>1, <1>2, <2>2, RecGaplessMeans DEF GaplessInv
<1> QED
  BY <1>3, <1>4

-----------------------------------------------------------------------------
(* The other steps, and the theorem.                                       *)

\* Rows are added, or time passes, and neither command notices.
LEMMA BesideGapless ==
    ASSUME DerivativesInv, GaplessInv, Grows(rows, rows'),
           ledger'[HistMarket] = ledger[HistMarket], base'[HistMarket] = base[HistMarket],
           UNCHANGED <<hist, loop, rec, recLoop>>
    PROVE  GaplessInv'
<1>1. LoopInv(loop, rows) /\ LoopInv(recLoop, rows)
  BY DEF DerivativesInv, HistInv, RecInv
<1>2. GaplessPrefix' /\ Turns'
  BY GrownPrefix DEF GaplessInv, Turns
<1>3. LoopGapless(loop', base'[HistMarket], rows')
  BY <1>1, GaplessKeeps DEF GaplessInv
<1>4. ASSUME RecoveryMarket = HistMarket
      PROVE  RecoveryGapless(rec', recLoop', ledger'[HistMarket], base'[HistMarket], rows')
  <2>1. RecoveryGapless(rec, recLoop, ledger[HistMarket], base[HistMarket], rows)
    BY <1>4 DEF GaplessInv
  <2>2. LoopGapless(recLoop', base'[HistMarket], rows')
    BY <1>1, <2>1, GaplessKeeps DEF RecoveryGapless
  <2>3. \A s \in Types : rec'.snap[s] # Null =>
            CoveredBy(rows', s, base'[HistMarket][s], rec'.snap[s] + 1)
    BY <2>1, StaysCovered DEF RecoveryGapless
  <2> QED
    BY <2>1, <2>2, <2>3 DEF RecoveryGapless
<1> QED
  BY <1>2, <1>3, <1>4 DEF GaplessInv

\* The resync adds rows, and writes checkpoints of its own market.
LEMMA ResyncFrame ==
    ASSUME DerivativesInv, Resync
    PROVE  /\ Grows(rows, rows') /\ ledger'[HistMarket] = ledger[HistMarket]
           /\ UNCHANGED <<now, base, hist, loop, rec, recLoop>>
<1>1. StoreTypeOK
  BY DEF DerivativesInv, StoreInv
<1>2. CASE RsyLaunch \/ RsyRefused \/ RsyFails
  BY <1>2 DEF Resync, RsyLaunch, RsyBegin, RsyRefused, RsyFails, RsyAborts, storeVars,
     histVars, Grows
<1>3. CASE ResyncFundingRate \/ ResyncMarkPrice \/ ResyncOpenInterest
  <2>1. PICK s \in Types : RsyFetch(s) \/ RsyPersist(s) \/ RsyMark(s)
    BY <1>3 DEF ResyncFundingRate, ResyncMarkPrice, ResyncOpenInterest, Types
  <2>2. Grows(rows, rows')
    BY <2>1, RsyPageInv
  <2>3. /\ UNCHANGED <<now, base, hist, loop, rec, recLoop>>
        /\ UNCHANGED ledger \/ \E last : UpsertCheckpoint(ResyncMarket, s, "ok", last)
    BY <2>1 DEF Resync, RsyFetch, RsyPersist, RsyMark, storeVars, histVars
  <2>4. ResyncMarket \in Markets /\ ResyncMarket # HistMarket
    BY DEF ResyncMarket, HistMarket, Markets
  <2> QED
    BY <1>1, <2>2, <2>3, <2>4, UpsertedRow
<1> QED
  BY <1>2, <1>3 DEF Resync, RsyStep

LEMMA GaplessSteps == DerivativesInv /\ GaplessInv /\ [Next]_vars => GaplessInv'
<1> SUFFICES ASSUME DerivativesInv, GaplessInv, [Next]_vars PROVE GaplessInv'
  OBVIOUS
<1>1. CASE Clock \/ UNCHANGED vars
  <2>1. UNCHANGED <<rows, ledger, base, hist, loop, rec, recLoop>>
    BY <1>1 DEF Clock, Tick, vars, storeVars, histVars, repairVars
  <2> QED
    BY <2>1, BesideGapless DEF Grows
<1>2. CASE Resync
  BY <1>2, ResyncFrame, BesideGapless
<1> QED
  BY <1>1, <1>2, HistoricalGapless, RecoveryGaplessStep DEF Next

LEMMA InitGapless == Init => GaplessInv
<1> SUFFICES ASSUME Init PROVE GaplessInv
  OBVIOUS
<1>1. GaplessPrefix
  BY MarketsKnown DEF Init, StoreInit, GaplessPrefix, NoCheckpoint
<1>2. Turns /\ loop.pc = "next" /\ rec = RecIdle /\ recLoop.pc = "next"
  BY LoopRuns DEF Init, HistInit, RepairInit, Turns
<1> QED
  BY <1>1, <1>2, IdleLoop, IdleRecovery DEF GaplessInv

\* A derivatives checkpoint is safe to resume from, whatever failed, stalled or was
\* killed, and whichever of the repair commands ran since: each acceptable record from
\* the start of the range up to the position has a row.
THEOREM CheckpointIsSafe == Spec => []GaplessPrefix
<1>1. GaplessInv => GaplessPrefix
  BY DEF GaplessInv
<1> QED
  BY <1>1, InitGapless, GaplessSteps, DerivativesInvariant, PTL DEF Spec

-----------------------------------------------------------------------------
(* A historical run that reports success left nothing behind.              *)

\* What a page or a new range has to show, for the data type it is about.
LEMMA SuccessSuffices ==
    ASSUME DerivativesInv, SuccessInv, hist.pc = "run", hist'.pc = "run",
           Grows(rows, rows'),
           UNCHANGED <<now, hist.asked, hist.start, hist.end, hist.began>>,
           hist.failed => hist'.failed, hist.stalled => hist'.stalled,
           NEW s \in Types,
           \A d \in Types \ {s} : base'[HistMarket][d] = base[HistMarket][d],
           \A d \in DoneWith(hist', loop') \ {s} : d \in DoneWith(hist, loop),
           loop'.pc # "next" => loop'.end = hist'.end[loop'.s],
           /\ s \in DoneWith(hist', loop')
           /\ ~hist'.failed /\ ~hist'.stalled
           => Asked(hist', base'[HistMarket], rows', s)
    PROVE  SuccessInv'
<1>1. /\ hist'.asked = hist.asked /\ hist'.start = hist.start /\ hist'.end = hist.end
      /\ hist'.began = hist.began
  OBVIOUS
<1>2. ASSUME ~hist'.failed, ~hist'.stalled, NEW d \in DoneWith(hist', loop')
      PROVE  Asked(hist', base'[HistMarket], rows', d)
  <2>1. CASE d = s
    BY <1>2, <2>1
  <2>2. CASE d # s
    <3>1. d \in DoneWith(hist, loop) /\ ~hist.failed /\ ~hist.stalled
      BY <1>2, <2>2
    <3>2. d \in Types
      BY <3>1 DEF DoneWith, DerivativesInv, HistInv, HistRun
    <3>3. Asked(hist, base[HistMarket], rows, d)
      BY <3>1 DEF SuccessInv
    <3> QED
      BY <1>1, <2>2, <3>2, <3>3, StaysCovered DEF Asked
  <2> QED
    BY <2>1, <2>2
<1> QED
  BY <1>1, <1>2 DEF SuccessInv

\* The sequence of data types to come loses its head.
LEMMA TodoShortens ==
    ASSUME hist \in HistRun, hist.todo # <<>>, hist'.todo = Tail(hist.todo),
           hist'.asked = hist.asked, loop.pc = "next"
    PROVE  \A d \in DoneWith(hist', loop') \ {Head(hist.todo)} : d \in DoneWith(hist, loop)
<1> SUFFICES ASSUME NEW d \in DoneWith(hist', loop'), d # Head(hist.todo)
             PROVE  d \in DoneWith(hist, loop)
  OBVIOUS
<1>1. hist.todo \in Seq(Types)
  BY DEF HistRun
<1>2. ASSUME NEW i \in 1..Len(hist.todo) PROVE hist.todo[i] # d
  <2>1. CASE i = 1
    BY <1>1, <2>1
  <2>2. CASE i # 1
    <3>1. /\ i - 1 \in 1..Len(hist'.todo)
          /\ hist'.todo[i - 1] = hist.todo[i]
      BY <1>1, <2>2
    <3> QED
      BY <3>1 DEF DoneWith
  <2> QED
    BY <2>1, <2>2
<1> QED
  BY <1>2 DEF DoneWith

LEMMA NextTypeSuccess ==
    ASSUME DerivativesInv, GaplessInv, SuccessInv, NextType PROVE SuccessInv'
<1> DEFINE s == Head(hist.todo)
           start == hist.start[s]
           from == ResumePoint(s, start)
<1>1. hist \in HistRun /\ StoreTypeOK /\ GaplessPrefix
  BY DEF DerivativesInv, HistInv, StoreInv, GaplessInv
<1>2. s \in Types /\ start \in Nat /\ hist.end[s] \in Nat /\ hist.began \in Nat
  BY <1>1 DEF NextType, HistRun
<1>3. Position(s) \in Nat \cup {Null} /\ Position(s) = ledger[HistMarket][s].event
      /\ base[HistMarket][s] \in Nat
  BY <1>1, <1>2, MarketsKnown DEF Position, StoreTypeOK, Checkpoint
<1>4. /\ hist.pc = "run" /\ loop.pc = "next" /\ hist.todo # <<>>
      /\ loop' = Enter(s, from, hist.end[s])
      /\ UNCHANGED <<now, rows, ledger>> /\ hist' = [hist EXCEPT !.todo = Tail(@)]
      /\ IF from <= hist.end[s] THEN Rebase(HistMarket, s, Resumes(s, start), start)
         ELSE UNCHANGED base
  BY DEF NextType
<1>5. /\ hist'.pc = "run" /\ hist'.todo = Tail(hist.todo) /\ hist'.asked = hist.asked
      /\ hist'.start = hist.start /\ hist'.end = hist.end /\ hist'.began = hist.began
      /\ hist'.failed = hist.failed /\ hist'.stalled = hist.stalled
  BY <1>1, <1>4 DEF HistRun
<1>6. from \in Nat
  BY <1>2, <1>3 DEF ResumePoint, Resumes
<1>7. \A d \in DoneWith(hist', loop') \ {s} : d \in DoneWith(hist, loop)
  BY <1>1, <1>4, <1>5, TodoShortens
<1> HIDE DEF s
<1>8. \A d \in Types \ {s} : base'[HistMarket][d] = base[HistMarket][d]
  BY <1>1, <1>4, MarketsKnown DEF Rebase, StoreTypeOK
<1>9. Grows(rows, rows')
  BY <1>4 DEF Grows
<1>10. CASE from <= hist.end[s]
  <2>1. PICK l : l = Enter(s, from, hist.end[s])
    OBVIOUS
  <2>2. l.pc = "fetch" /\ l.s = s /\ l.end = hist.end[s]
    BY <1>2, <1>6, <1>10, <2>1 DEF Enter, NoLoop
  <2>3. loop' = l
    BY <1>4, <2>1
  <2>4. s \notin DoneWith(hist', loop')
    BY <2>2, <2>3 DEF DoneWith
  <2>5. loop'.end = hist'.end[loop'.s]
    BY <1>5, <2>2, <2>3
  <2> QED
    BY <1>2, <1>4, <1>5, <1>7, <1>8, <1>9, <2>4, <2>5, SuccessSuffices
<1>11. CASE ~(from <= hist.end[s])
  <2>1. loop' = NoLoop /\ base' = base
    BY <1>2, <1>4, <1>6, <1>11 DEF Enter
  <2>2. Asked(hist, base[HistMarket], rows, s)
    <3> SUFFICES ASSUME NEW e \in Events[s] \ Rejected[s],
                        Later(start, base[HistMarket][s]) <= e,
                        e < Earlier(hist.end[s], hist.began) + 1
                 PROVE  e \in rows[s]
      BY DEF Asked, CoveredBy
    <3>1. e \in Nat /\ start <= e /\ base[HistMarket][s] <= e /\ e <= hist.end[s]
      BY SMTT(30), <1>2, <1>3 DEF Later, Earlier
    <3>2. Resumes(s, start) /\ e < Position(s) + 1
      BY <1>2, <1>3, <1>11, <3>1 DEF ResumePoint, Resumes
    <3>3. CoveredBy(rows, s, base[HistMarket][s], Position(s) + 1)
      BY <1>1, <1>2, <1>3, <3>2, PrefixMeans DEF Resumes
    <3> QED
      BY <3>1, <3>2, <3>3 DEF CoveredBy
  <2>3. Asked(hist', base'[HistMarket], rows', s)
    BY <1>4, <1>5, <2>1, <2>2 DEF Asked
  <2> QED
    BY <1>2, <1>4, <1>5, <1>7, <1>8, <1>9, <2>1, <2>3, LoopRuns, SuccessSuffices
<1> QED
  BY <1>10, <1>11

LEMMA PageSuccess ==
    ASSUME DerivativesInv, GaplessInv, SuccessInv, NEW s \in Types,
           Fetch(s) \/ Persist(s) \/ Mark(s)
    PROVE  SuccessInv'
<1>0. /\ StoreTypeOK /\ LoopInv(loop, rows) /\ hist \in HistRun
      /\ LoopGapless(loop, base[HistMarket], rows)
  BY DEF DerivativesInv, HistInv, StoreInv, GaplessInv
<1>1. loop.pc # "next" /\ loop.s = s /\ UNCHANGED <<now, base>>
  BY DEF Fetch, Persist, Mark, storeVars
<1>2. /\ hist.pc = "run" /\ hist'.pc = "run" /\ (hist.stalled => hist'.stalled)
      /\ hist'.asked = hist.asked /\ hist'.todo = hist.todo /\ hist'.start = hist.start
      /\ hist'.end = hist.end /\ hist'.began = hist.began /\ hist'.failed = hist.failed
  <2>1. hist.pc = "run"
    BY <1>0, <1>1 DEF GaplessInv, Turns, HistRun
  <2>2. CASE Fetch(s) \/ Persist(s)
    BY <2>1, <2>2 DEF Fetch, Persist
  <2>3. CASE Mark(s)
    <3>1. PICK stalls \in BOOLEAN : hist' = [hist EXCEPT !.stalled = @ \/ stalls]
      BY <2>3 DEF Mark, Stalled
    <3> QED
      BY <1>0, <2>1, <3>1 DEF HistRun
  <2> QED
    BY <2>2, <2>3
<1>3. base[HistMarket][s] \in Nat /\ now \in Nat
  BY <1>0, MarketsKnown DEF StoreTypeOK
<1>4. Grows(rows, rows')
  BY PageInv
<1>5. loop.end = hist.end[s] /\ hist.began <= now
  BY <1>1, <1>2 DEF SuccessInv
<1>6. \A d \in DoneWith(hist', loop') \ {s} : d \in DoneWith(hist, loop)
  BY <1>1, <1>2 DEF DoneWith
<1>7. /\ loop.s \in Types /\ loop.cur \in Nat /\ loop.end \in Nat /\ hist.began \in Nat
      /\ hist.end[s] \in Nat /\ hist.start[s] \in Nat /\ \A e \in Events[s] : e \in Nat
  BY <1>0 DEF LoopInv, Loop, HistRun
\* The loop goes on with s.
<1>8. ASSUME loop'.pc # "next", loop'.s = s, loop'.end = loop.end PROVE SuccessInv'
  <2>1. s \notin DoneWith(hist', loop')
    BY <1>8 DEF DoneWith
  <2> QED
    BY <1>1, <1>2, <1>4, <1>5, <1>6, <1>8, <2>1, SuccessSuffices
\* The loop has ended, at the end of what there is or of what was asked for.
<1>9. ASSUME loop'.pc = "next",
             ~hist'.stalled => Asked(hist, base[HistMarket], rows, s)
      PROVE  SuccessInv'
  <2>1. ~hist'.stalled => Asked(hist', base'[HistMarket], rows', s)
    BY <1>1, <1>2, <1>4, <1>9, StaysCovered DEF Asked
  <2> QED
    BY <1>1, <1>2, <1>4, <1>6, <1>9, <2>1, SuccessSuffices
<1>10. ASSUME NEW hi \in Nat, CoveredBy(rows, s, base[HistMarket][s], hi),
              \A d \in Events[s] : ~(hi <= d /\ d <= loop.end /\ d <= now)
       PROVE  Asked(hist, base[HistMarket], rows, s)
  <2> SUFFICES ASSUME NEW e \in Events[s] \ Rejected[s],
                      Later(hist.start[s], base[HistMarket][s]) <= e,
                      e < Earlier(hist.end[s], hist.began) + 1
               PROVE  e \in rows[s]
    BY DEF Asked, CoveredBy
  <2>1. base[HistMarket][s] <= e /\ e <= loop.end /\ e <= now
    BY SMTT(30), <1>3, <1>5, <1>7 DEF Later, Earlier
  <2>2. e < hi
    BY <1>7, <1>10, <2>1
  <2> QED
    BY <1>10, <2>1, <2>2 DEF CoveredBy
<1>11. CASE Fetch(s)
  <2>1. PICK page \in Answers(loop.s, loop.cur, loop.end) : loop' = AfterFetch(loop, page)
    BY <1>11 DEF Fetch
  <2>2. CASE page = {}
    <3>1. CoveredBy(rows, s, base[HistMarket][s], loop.cur)
      BY <1>0, <1>1 DEF LoopGapless
    <3>2. \A d \in Events[s] : ~(loop.cur <= d /\ d <= loop.end /\ d <= now)
      BY <1>1, <1>3, <1>7, <2>1, <2>2, AnswersAreGapless
    <3>3. Asked(hist, base[HistMarket], rows, s)
      BY <1>7, <1>10, <3>1, <3>2
    <3>4. loop'.pc = "next"
      BY <2>1, <2>2, LoopRuns DEF AfterFetch
    <3> QED
      BY <1>9, <3>3, <3>4
  <2>3. CASE page # {}
    <3>1. loop'.pc # "next" /\ loop'.s = s /\ loop'.end = loop.end
      BY <1>0, <1>1, <2>1, <2>3 DEF AfterFetch, LoopInv, Loop
    <3> QED
      BY <1>8, <3>1
  <2> QED
    BY <2>2, <2>3
<1>12. CASE Persist(s)
  <2>1. loop'.pc # "next" /\ loop'.s = s /\ loop'.end = loop.end
    BY <1>0, <1>1, <1>12 DEF Persist, LoopInv, Loop
  <2> QED
    BY <1>8, <2>1
<1>13. CASE Mark(s)
  <2>1. PICK last \in loop.page :
            /\ IsLast(last, loop.page)
            /\ loop' = AfterMark(loop, last)
            /\ hist' = [hist EXCEPT !.stalled = @ \/ Stalled(loop, last)]
    BY <1>13 DEF Mark
  <2>2. loop.pc = "mark"
    BY <1>13 DEF Mark
  <2>3. last \in Nat /\ CoveredBy(rows, s, base[HistMarket][s], last + 1)
    BY <1>0, <1>1, <1>3, <2>1, <2>2, MarkedGapless
  <2>4. CASE Stalled(loop, last) \/ last + 1 > loop.end
    <3>1. loop'.pc = "next"
      BY <2>1, <2>4, LoopRuns DEF AfterMark
    <3>2. CASE Stalled(loop, last)
      <4>1. hist'.stalled
        BY <1>0, <2>1, <3>2 DEF HistRun
      <4> QED
        BY <1>9, <3>1, <4>1
    <3>3. CASE last + 1 > loop.end
      <4>1. \A d \in Events[s] : ~(last + 1 <= d /\ d <= loop.end /\ d <= now)
        BY <1>7, <2>3, <3>3
      <4>2. Asked(hist, base[HistMarket], rows, s)
        BY <1>10, <2>3, <4>1
      <4> QED
        BY <1>9, <3>1, <4>2
    <3> QED
      BY <2>4, <3>2, <3>3
  <2>5. CASE ~(Stalled(loop, last) \/ last + 1 > loop.end)
    <3>1. loop'.pc # "next" /\ loop'.s = s /\ loop'.end = loop.end
      BY <1>0, <1>1, <2>1, <2>5 DEF AfterMark, LoopInv, Loop
    <3> QED
      BY <1>8, <3>1
  <2> QED
    BY <2>4, <2>5
<1> QED
  BY <1>11, <1>12, <1>13

\* At the launch nothing has been done.
LEMMA LaunchSuccess ==
    ASSUME DerivativesInv, GaplessInv, NEW todo, NEW range, Launch(todo, range)
    PROVE  SuccessInv'
<1>1. /\ loop'.pc = "next" /\ now' = now /\ now \in Nat
  BY DEF Launch, storeVars, GaplessInv, Turns, DerivativesInv, StoreInv, StoreTypeOK
<1>2. hist'.asked = {todo[i] : i \in 1..Len(todo)} /\ hist'.todo = todo /\ hist'.began = now
  BY DEF Launch, HistIdle
<1>3. DoneWith(hist', loop') = {}
  BY <1>2 DEF DoneWith
<1> QED
  BY <1>1, <1>2, <1>3 DEF SuccessInv

LEMMA HistoricalSuccess ==
    ASSUME DerivativesInv, GaplessInv, SuccessInv, Historical PROVE SuccessInv'
<1>0. hist \in HistRun
  BY DEF DerivativesInv, HistInv
<1>1. CASE MayLaunch /\ HistLaunch
  <2>1. PICK start \in Starts, end \in Ends :
            \/ LaunchAuto(start, end)
            \/ \E request \in Requests : LaunchExplicit(start, end, request)
    BY <1>1 DEF HistLaunch
  <2>2. CASE LaunchAuto(start, end)
    BY <2>2, LaunchSuccess DEF LaunchAuto
  <2>3. CASE \E request \in Requests : LaunchExplicit(start, end, request)
    BY <2>3, LaunchSuccess DEF LaunchExplicit
  <2> QED
    BY <2>1, <2>2, <2>3
<1>2. CASE NextType
  BY <1>2, NextTypeSuccess
<1>3. CASE Report \/ HistCrash
  BY <1>3, LoopRuns DEF Report, HistCrash, SuccessInv
<1>4. CASE OpenInterestRefused \/ HistFails
  <2>1. RecordError /\ loop.pc # "next" /\ UNCHANGED now
    BY <1>4 DEF OpenInterestRefused, HistFails, RecordError
  <2>2. hist.pc = "run"
    BY <1>0, <2>1 DEF GaplessInv, Turns, HistRun
  <2>3. hist'.failed /\ hist'.began = hist.began /\ loop'.pc = "next"
    BY <1>0, <2>1, LoopRuns DEF RecordError, HistRun
  <2> QED
    BY <2>1, <2>2, <2>3 DEF SuccessInv
<1>5. CASE SyncFundingRate \/ SyncMarkPrice \/ SyncIndexPrice \/ SyncOpenInterest
  <2>1. PICK s \in Types : Fetch(s) \/ Persist(s) \/ Mark(s)
    BY <1>5 DEF SyncFundingRate, SyncMarkPrice, SyncIndexPrice, SyncOpenInterest, Types
  <2> QED
    BY <2>1, PageSuccess
<1> QED
  BY <1>1, <1>2, <1>3, <1>4, <1>5 DEF Historical, HistStep

\* Rows are added, or time passes.
LEMMA BesideSuccess ==
    ASSUME DerivativesInv, SuccessInv, Grows(rows, rows'), now' \in {now, now + 1},
           base'[HistMarket] = base[HistMarket], UNCHANGED <<hist, loop>>
    PROVE  SuccessInv'
<1>1. hist \in HistRun /\ now \in Nat
  BY DEF DerivativesInv, HistInv, StoreInv, StoreTypeOK
<1>2. ASSUME NEW s \in DoneWith(hist, loop), Asked(hist, base[HistMarket], rows, s)
      PROVE  Asked(hist', base'[HistMarket], rows', s)
  <2>1. s \in Types
    BY <1>1 DEF DoneWith, HistRun
  <2> QED
    BY <1>2, <2>1, StaysCovered DEF Asked
<1>3. hist.pc = "run" => hist.began <= now'
  BY <1>1 DEF SuccessInv, HistRun
<1>4. DoneWith(hist', loop') = DoneWith(hist, loop)
  OBVIOUS
<1> QED
  BY <1>2, <1>3, <1>4 DEF SuccessInv

LEMMA SuccessSteps ==
    DerivativesInv /\ GaplessInv /\ SuccessInv /\ [Next]_vars => SuccessInv'
<1> SUFFICES ASSUME DerivativesInv, GaplessInv, SuccessInv, [Next]_vars PROVE SuccessInv'
  OBVIOUS
<1>1. CASE Clock \/ UNCHANGED vars
  <2>1. UNCHANGED <<rows, base, hist, loop>> /\ now' \in {now, now + 1}
    BY <1>1 DEF Clock, Tick, vars, storeVars, histVars
  <2> QED
    BY <2>1, BesideSuccess DEF Grows
<1>2. CASE Resync
  BY <1>2, ResyncFrame, BesideSuccess
<1>3. CASE Recovery
  BY <1>3, RecoveryTurns DEF SuccessInv, histVars
<1> QED
  BY <1>1, <1>2, <1>3, HistoricalSuccess DEF Next

\* A historical run that reports success, and met no stale page, left nothing behind of
\* what was available when it was launched, for each of its data types.
THEOREM SuccessIsComplete == Spec => []SuccessMeansStored
<1>1. Init => SuccessInv
  BY LoopRuns DEF Init, HistInit, SuccessInv
<1>2. SuccessInv => SuccessMeansStored
  <2> SUFFICES ASSUME SuccessInv, hist.pc = "run", loop.pc = "next", hist.todo = <<>>,
                      ~hist.failed, ~hist.stalled, NEW s \in hist.asked
               PROVE  Covered(s, Later(hist.start[s], base[HistMarket][s]),
                                 Earlier(hist.end[s], hist.began) + 1)
    BY DEF SuccessMeansStored
  <2>1. s \in DoneWith(hist, loop)
    BY DEF DoneWith
  <2> QED
    BY <2>1 DEF SuccessInv, Asked, CoveredBy, Covered
<1> QED
  BY <1>1, <1>2, InitGapless, GaplessSteps, SuccessSteps, DerivativesInvariant, PTL DEF Spec
=============================================================================
