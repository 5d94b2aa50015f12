------------------------- MODULE KlinePipelineProofs -------------------------
(***************************************************************************)
(* Proofs about the writers of a kline stream.  First the historical sync  *)
(* alone (HistSpec): its inductive invariant, the safety properties that   *)
(* follow from it, and that it implements KlinePrefix.  Then the four      *)
(* writers together (Spec): what a checkpoint row can say, and that it     *)
(* never runs ahead of the rows.  Last, the historical sync and the        *)
(* recovery in turns: the position they keep together is safe to resume    *)
(* from, they implement KlinePrefix, and the invariant and the action      *)
(* properties of the sync survive the recoveries between its runs.         *)
(***************************************************************************)
EXTENDS KlinePipeline, FiniteSetTheorems, TLAPS

USE BarsAssumption, IntervalAssumption, LimitAssumption, BoundsAssumption,
    NullAssumption, RangesAssumption, ModesAssumption,
    HistoricalStartAssumption, ResyncRangesAssumption

-----------------------------------------------------------------------------
(* The historical sync alone.                                              *)

(***************************************************************************)
(* A page of FetchKlines holds bars of the requested range that had opened *)
(* when the exchange answered, and with a bar every earlier bar of the     *)
(* range: /klines serves the oldest bars first.                            *)
(***************************************************************************)
LEMMA FetchKlinesIsAPrefix ==
    ASSUME NEW from \in Nat, NEW to \in Nat, NEW t \in Nat
    PROVE  /\ FetchKlines(from, to, t) \subseteq Bars
           /\ \A c \in FetchKlines(from, to, t) : from <= c
           /\ \A c \in FetchKlines(from, to, t), b \in Bars :
                 from <= b /\ b <= c => b \in FetchKlines(from, to, t)
<1> DEFINE avail == Available(from, to, t)
           below(b) == {c \in avail : c < b}
<1>1. IsFiniteSet(avail)
  BY FS_Subset DEF Available
<1>2. ASSUME NEW c \in FetchKlines(from, to, t), NEW b \in Bars,
             from <= b, b <= c
      PROVE  b \in FetchKlines(from, to, t)
  <2>1. /\ c \in avail /\ avail \subseteq Nat
        /\ b \in avail
    <3>1. c \in avail
      BY <1>2 DEF FetchKlines
    <3>2. avail \subseteq Nat /\ b \in Nat /\ c \in Nat
      BY <3>1, <1>2 DEF Available
    <3>3. c <= to /\ c <= t
      BY <3>1 DEF Available
    <3>4. b <= to /\ b <= t
      BY <1>2, <3>2, <3>3
    <3> QED
      BY <1>2, <3>1, <3>2, <3>4 DEF Available
  <2>2. below(b) \subseteq below(c) /\ below(c) \subseteq avail
    <3> SUFFICES ASSUME NEW d \in avail, d < b
                 PROVE  d < c
      OBVIOUS
    <3>1. d \in Nat /\ b \in Nat /\ c \in Nat
      BY <2>1
    <3> QED
      BY <1>2, <3>1
  <2>3. IsFiniteSet(below(c))
    BY <1>1, <2>2, FS_Subset
  <2>4. /\ Cardinality(below(b)) <= Cardinality(below(c))
        /\ Cardinality(below(b)) \in Nat /\ Cardinality(below(c)) \in Nat
    BY <2>2, <2>3, FS_Subset, FS_CardinalityType
  <2>5. Cardinality(below(c)) < Limit
    BY <1>2 DEF FetchKlines
  <2> QED
    BY <2>1, <2>4, <2>5 DEF FetchKlines
<1> QED
  BY <1>2 DEF FetchKlines, Available

-----------------------------------------------------------------------------
(* The inductive invariant, one lemma per action. *)

LEMMA HistInvInit == HistInit => HistInv
BY DEF HistInit, StoreInit, HistIdle, HistInv, HistTypeOK, StoreTypeOK, HistRun,
       Checkpoint, Timestamp, GaplessPrefix, ResumePointCovered,
       PageIsContiguous, MarkedPageIsStored, PositionIsBehindTheRun,
       FinalRowsAreClosed

LEMMA HistBeginInv ==
    ASSUME HistInv, NEW start \in Starts, NEW end \in Ends \cup {now},
           NEW mode \in Modes, HistBegin(start, end, mode)
    PROVE  HistInv'
<1> USE DEF HistInv, HistTypeOK, StoreTypeOK, HistRun, Checkpoint, Timestamp
<1>1. start \in Nat /\ end \in Nat /\ HistStartPoint(start) \in Nat
  BY DEF HistStartPoint, HistResumes, HistPosition
<1>2. HistTypeOK'
  BY <1>1 DEF HistBegin, HistIdle, Rebase
<1>3. /\ hist'.pc = "fetch" /\ hist'.mode = mode
      /\ hist'.cur = HistStartPoint(start) /\ hist'.page = {}
  BY DEF HistBegin, HistIdle
<1>4. GaplessPrefix' /\ ResumePointCovered'
  <2>1. CASE mode = "dry"
    BY <1>3, <2>1 DEF HistBegin, GaplessPrefix, ResumePointCovered, Covered, Stored
  <2>2. CASE mode = "write" /\ HistResumes(start)
    BY <1>3, <2>2 DEF HistBegin, Rebase, GaplessPrefix, ResumePointCovered,
       Covered, Stored, HistResumes, HistStartPoint, HistPosition
  <2>3. CASE mode = "write" /\ ~HistResumes(start)
    <3>1. base' = start /\ hist'.cur = start
      BY <1>3, <2>3 DEF HistBegin, Rebase, HistStartPoint
    <3>2. checkpoint.open # Null => checkpoint.open + 1 < start
      BY <1>1, <2>3 DEF HistResumes, HistPosition
    <3> QED
      BY <1>1, <3>1, <3>2 DEF HistBegin, GaplessPrefix, ResumePointCovered, Covered
  <2> QED
    BY <2>1, <2>2, <2>3
<1>5. PageIsContiguous' /\ MarkedPageIsStored' /\ FinalRowsAreClosed'
  BY <1>3 DEF HistBegin, HistIdle, PageIsContiguous, MarkedPageIsStored,
     FinalRowsAreClosed, IsClosed, CloseOf
<1>6. PositionIsBehindTheRun'
  BY <1>1, <1>3 DEF HistBegin, PositionIsBehindTheRun, HistStartPoint, HistResumes,
     HistPosition
<1> QED
  BY <1>2, <1>4, <1>5, <1>6

LEMMA HistFetchInv == HistInv /\ HistFetch => HistInv'
<1> SUFFICES ASSUME HistInv, HistFetch PROVE HistInv'
  OBVIOUS
<1> USE DEF HistInv, HistTypeOK, StoreTypeOK, HistRun, Checkpoint, Timestamp
<1> DEFINE page == FetchKlines(hist.cur, hist.end, now)
<1>1. CASE page = {}
  BY <1>1 DEF HistFetch, HistIdle, storeVars, GaplessPrefix, Covered, Stored,
     ResumePointCovered, PageIsContiguous, MarkedPageIsStored,
     PositionIsBehindTheRun, FinalRowsAreClosed, IsClosed, CloseOf
<1>2. CASE page # {}
  <2>1. hist' = [hist EXCEPT !.pc = "persist", !.page = page, !.asof = now]
    BY <1>2 DEF HistFetch
  <2>2. /\ page \subseteq Bars
        /\ \A c \in page : hist.cur <= c
        /\ \A c \in page, b \in Bars : hist.cur <= b /\ b <= c => b \in page
    BY FetchKlinesIsAPrefix
  <2> HIDE DEF page
  <2>3. HistTypeOK'
    BY ZenonT(30), <2>1, <2>2 DEF HistFetch, storeVars
  <2>4. GaplessPrefix' /\ ResumePointCovered' /\ MarkedPageIsStored'
    BY <2>1 DEF HistFetch, storeVars, GaplessPrefix, ResumePointCovered,
       MarkedPageIsStored, Covered, Stored
  <2>5. PageIsContiguous'
    BY <2>1, <2>2 DEF PageIsContiguous
  <2>6. PositionIsBehindTheRun'
    BY <2>1 DEF HistFetch, storeVars, PositionIsBehindTheRun
  <2>7. FinalRowsAreClosed'
    <3>1. now' = now /\ table' = table /\ hist'.asof = now /\ hist'.page = page
      BY <2>1 DEF HistFetch, storeVars
    <3>2. \A b \in Bars : table[b] = "final" => IsClosed(b, now)
      BY DEF FinalRowsAreClosed
    <3>3. hist'.asof <= now' /\ now \in Nat
      BY <3>1
    <3>4. \A b \in Bars : table'[b] = "final" => IsClosed(b, now')
      BY <3>1, <3>2
    <3>5. \A b \in page : table'[b] = "final" => IsClosed(b, hist'.asof)
      BY <2>2, <3>1, <3>2
    <3> QED
      BY <3>1, <3>3, <3>4, <3>5 DEF FinalRowsAreClosed, IsClosed, CloseOf
  <2> QED
    BY <2>3, <2>4, <2>5, <2>6, <2>7
<1> QED
  BY <1>1, <1>2

\* UpsertBatch adds the page's acceptable bars and takes no row away.
LEMMA UpsertBatchStores ==
    ASSUME StoreTypeOK, NEW page \in SUBSET Bars, NEW t \in Nat,
           UpsertBatch(page, t)
    PROVE  /\ table' \in [Bars -> {"absent", "partial", "final"}]
           /\ \A b \in Accepted(page) : Stored(b)' /\ table'[b] = Content(b, t)
           /\ \A b \in Bars : Stored(b) => Stored(b)'
           /\ \A b \in Bars \ Accepted(page) : table'[b] = table[b]
BY DEF StoreTypeOK, UpsertBatch, Accepted, Content, Stored

LEMMA HistPersistInv == HistInv /\ HistPersist => HistInv'
<1> SUFFICES ASSUME HistInv, HistPersist PROVE HistInv'
  OBVIOUS
<1> USE DEF HistInv, HistTypeOK, StoreTypeOK, HistRun, Checkpoint, Timestamp
<1>1. /\ hist.pc = "persist" /\ hist' = [hist EXCEPT !.pc = "mark"]
      /\ UNCHANGED <<now, faults, checkpoint, base>>
  BY DEF HistPersist
<1>2. CASE hist.mode = "write"
  <2>1. UpsertBatch(hist.page, hist.asof)
    BY <1>2 DEF HistPersist
  <2>2. /\ table' \in [Bars -> {"absent", "partial", "final"}]
        /\ \A b \in Accepted(hist.page) :
              Stored(b)' /\ table'[b] = Content(b, hist.asof)
        /\ \A b \in Bars : Stored(b) => Stored(b)'
        /\ \A b \in Bars \ Accepted(hist.page) : table'[b] = table[b]
    BY <2>1, UpsertBatchStores
  <2>3. HistTypeOK'
    BY <1>1, <2>2
  <2>4. GaplessPrefix' /\ ResumePointCovered'
    BY <1>1, <2>2 DEF GaplessPrefix, ResumePointCovered, Covered
  <2>5. PageIsContiguous' /\ PositionIsBehindTheRun'
    BY <1>1 DEF PageIsContiguous, PositionIsBehindTheRun
  <2>6. MarkedPageIsStored'
    BY <1>1, <2>2 DEF MarkedPageIsStored, Accepted
  <2>7. FinalRowsAreClosed'
    <3> SUFFICES ASSUME NEW b \in Bars, table'[b] = "final"
                 PROVE  IsClosed(b, now)
      BY <1>1 DEF FinalRowsAreClosed, IsClosed, CloseOf
    <3>1. CASE b \in Accepted(hist.page)
      <4>1. IsClosed(b, hist.asof)
        BY <2>2, <3>1 DEF Content
      <4> QED
        BY <4>1 DEF FinalRowsAreClosed, IsClosed, CloseOf
    <3>2. CASE b \notin Accepted(hist.page)
      BY <2>2, <3>2 DEF FinalRowsAreClosed
    <3> QED
      BY <3>1, <3>2
  <2> QED
    BY <2>3, <2>4, <2>5, <2>6, <2>7
<1>3. CASE hist.mode = "dry"
  BY <1>1, <1>3 DEF HistPersist, GaplessPrefix, Covered, Stored, ResumePointCovered,
     PageIsContiguous, MarkedPageIsStored, PositionIsBehindTheRun,
     FinalRowsAreClosed, IsClosed, CloseOf
<1> QED
  BY <1>2, <1>3

LEMMA HistMarkInv == HistInv /\ HistMark => HistInv'
<1> SUFFICES ASSUME HistInv, HistMark PROVE HistInv'
  OBVIOUS
<1> USE DEF HistInv, HistTypeOK, StoreTypeOK, HistRun, Checkpoint, Timestamp
<1>1. PICK last \in hist.page :
         /\ IsLast(last, hist.page)
         /\ IF hist.mode = "write" THEN UpsertCheckpoint("ok", last, last)
                                   ELSE UNCHANGED checkpoint
         /\ hist' = IF Cardinality(hist.page) < Limit \/ hist.end < last + 1
                    THEN HistIdle
                    ELSE [hist EXCEPT !.pc = "fetch", !.cur = last + 1,
                                      !.page = {}, !.asof = 0]
  BY DEF HistMark
<1>2. hist.pc = "mark" /\ UNCHANGED <<now, faults, table, base>>
  BY DEF HistMark
<1>3. last \in Nat /\ last \in Bars /\ hist.cur <= last
  BY <1>2 DEF PageIsContiguous
<1>4. \/ hist' = HistIdle
      \/ hist' = [hist EXCEPT !.pc = "fetch", !.cur = last + 1,
                               !.page = {}, !.asof = 0]
  BY <1>1
<1>5. \/ hist.mode = "write" /\ checkpoint' = [status |-> "ok", event |-> last,
                                              open |-> last]
      \/ hist.mode = "dry" /\ UNCHANGED checkpoint
  BY <1>1 DEF UpsertCheckpoint
<1>6. HistTypeOK'
  <2>1. hist' \in HistRun
    <3>1. CASE hist' = HistIdle
      BY <3>1 DEF HistIdle
    <3>2. CASE hist' = [hist EXCEPT !.pc = "fetch", !.cur = last + 1,
                                    !.page = {}, !.asof = 0]
      <4>1. last + 1 \in Nat
        BY <1>3
      <4> QED
        BY <3>2, <4>1
    <3> QED
      BY <1>4, <3>1, <3>2
  <2>2. checkpoint' \in Checkpoint
    BY <1>3, <1>5
  <2> QED
    BY <1>2, <2>1, <2>2
\* Below cur by the invariant; from cur on because the page is contiguous and
\* its acceptable bars are stored.
<1>7. hist.mode = "write" => Covered(base, last + 1)
  <2> SUFFICES ASSUME hist.mode = "write", NEW b \in Bars \ RejectedBars,
                      base <= b, b < last + 1
               PROVE  Stored(b)
    BY DEF Covered
  <2>1. CASE b < hist.cur
    BY <1>2, <2>1 DEF ResumePointCovered, Covered
  <2>2. CASE hist.cur <= b
    <3>1. b <= last
      BY <1>3
    <3>2. b \in hist.page
      BY <1>2, <2>2, <3>1 DEF PageIsContiguous
    <3> QED
      BY <1>2, <3>2 DEF MarkedPageIsStored, Accepted
  <2> QED
    BY <2>1, <2>2, <1>3
<1>8. GaplessPrefix'
  <2>1. CASE hist.mode = "write"
    BY <1>2, <1>5, <1>7, <2>1 DEF GaplessPrefix, Covered, Stored
  <2>2. CASE hist.mode = "dry"
    BY <1>2, <1>5, <2>2 DEF GaplessPrefix, Covered, Stored
  <2> QED
    BY <2>1, <2>2
<1>9. CASE hist' = HistIdle
  <2>1. hist'.pc = "idle" /\ hist'.asof = 0
    BY <1>9 DEF HistIdle
  <2>2. ResumePointCovered' /\ PageIsContiguous' /\ MarkedPageIsStored'
        /\ PositionIsBehindTheRun'
    BY <2>1 DEF ResumePointCovered, PageIsContiguous, MarkedPageIsStored,
       PositionIsBehindTheRun
  <2>3. FinalRowsAreClosed'
    BY <1>2, <2>1 DEF FinalRowsAreClosed, IsClosed, CloseOf
  <2> QED
    BY <1>6, <1>8, <2>2, <2>3
<1>10. CASE hist' = [hist EXCEPT !.pc = "fetch", !.cur = last + 1,
                                 !.page = {}, !.asof = 0]
  <2>1. /\ hist'.pc = "fetch" /\ hist'.asof = 0
        /\ hist'.mode = hist.mode /\ hist'.cur = last + 1
    BY <1>10
  <2>2. ResumePointCovered'
    BY <1>2, <1>7, <2>1 DEF ResumePointCovered, Covered, Stored
  <2>3. PageIsContiguous' /\ MarkedPageIsStored'
    BY <2>1 DEF PageIsContiguous, MarkedPageIsStored
  <2>4. PositionIsBehindTheRun'
    BY <1>3, <1>5, <2>1 DEF PositionIsBehindTheRun
  <2>5. FinalRowsAreClosed'
    BY <1>2, <2>1 DEF FinalRowsAreClosed, IsClosed, CloseOf
  <2> QED
    BY <1>6, <1>8, <2>2, <2>3, <2>4, <2>5
<1> QED
  BY <1>4, <1>9, <1>10

LEMMA HistFailsInv == HistInv /\ HistFails => HistInv'
<1> SUFFICES ASSUME HistInv, HistFails PROVE HistInv'
  OBVIOUS
<1> USE DEF HistInv, HistTypeOK, StoreTypeOK, HistRun, Checkpoint, Timestamp
<1>1. /\ hist' = HistIdle
      /\ UNCHANGED <<now, table, base>>
      /\ faults' = faults + 1
      /\ \/ UNCHANGED checkpoint
         \/ checkpoint' = [status |-> "error", event |-> Null, open |-> Null]
  BY DEF HistFails, HistFetchFails, HistPersistFails, HistCrash, Fault,
     HistErrorCheckpoint, UpsertCheckpoint
<1>2. HistTypeOK'
  BY <1>1 DEF HistIdle
<1>3. GaplessPrefix'
  BY <1>1 DEF GaplessPrefix, Covered, Stored
<1>4. /\ ResumePointCovered' /\ PageIsContiguous' /\ MarkedPageIsStored'
      /\ PositionIsBehindTheRun' /\ FinalRowsAreClosed'
  BY <1>1 DEF HistIdle, ResumePointCovered, PageIsContiguous, MarkedPageIsStored,
     PositionIsBehindTheRun, FinalRowsAreClosed, IsClosed, CloseOf
<1> QED
  BY <1>2, <1>3, <1>4

LEMMA TickInv == HistInv /\ Tick /\ UNCHANGED hist => HistInv'
BY DEF HistInv, HistTypeOK, StoreTypeOK, HistRun, Checkpoint, Timestamp, Tick,
       GaplessPrefix, Covered, Stored, ResumePointCovered, PageIsContiguous,
       MarkedPageIsStored, PositionIsBehindTheRun, FinalRowsAreClosed, IsClosed,
       CloseOf

LEMMA HistStutterInv == HistInv /\ UNCHANGED histVars => HistInv'
BY DEF HistInv, HistTypeOK, StoreTypeOK, histVars, storeVars,
       GaplessPrefix, Covered, Stored, ResumePointCovered, PageIsContiguous,
       MarkedPageIsStored, PositionIsBehindTheRun, FinalRowsAreClosed, IsClosed

LEMMA HistInvStep == HistInv /\ [HistAloneNext]_histVars => HistInv'
<1> SUFFICES ASSUME HistInv, [HistAloneNext]_histVars PROVE HistInv'
  OBVIOUS
<1>1. CASE HistLaunch
  BY <1>1, HistBeginInv DEF HistLaunch
<1>2. CASE HistStep
  BY <1>2, HistFetchInv, HistPersistInv, HistMarkInv DEF HistStep
<1>3. CASE HistFails
  BY <1>3, HistFailsInv
<1>4. CASE Tick /\ UNCHANGED hist
  BY <1>4, TickInv
<1>5. CASE UNCHANGED histVars
  BY <1>5, HistStutterInv
<1> QED
  BY <1>1, <1>2, <1>3, <1>4, <1>5 DEF HistAloneNext, HistNext

(***************************************************************************)
(* The inductive invariant holds in every behaviour of the sync, for every *)
(* set of bars, page size, number of failures and choice of arguments.     *)
(***************************************************************************)
THEOREM HistInvariant == HistSpec => []HistInv
BY HistInvInit, HistInvStep, PTL DEF HistSpec

(***************************************************************************)
(* The type invariant of the historical sync and of the store it writes.   *)
(***************************************************************************)
THEOREM HistTypeCorrect == HistSpec => []HistTypeOK
<1>1. HistInv => HistTypeOK
  BY DEF HistInv
<1> QED
  BY <1>1, HistInvariant, PTL

(***************************************************************************)
(* Resuming _sync_symbol_interval after its checkpoint skips no bar: every *)
(* acceptable bar of the range up to the position has a row.               *)
(***************************************************************************)
THEOREM CheckpointIsGapless == HistSpec => []GaplessPrefix
<1>1. HistInv => GaplessPrefix
  BY DEF HistInv
<1> QED
  BY <1>1, HistInvariant, PTL

-----------------------------------------------------------------------------
(* What a step may never do. *)

\* The page being persisted was fetched after every final row of it was closed.
LEMMA FinalRowsStep ==
    ASSUME HistInv, [HistAloneNext]_histVars, NEW b \in Bars, table[b] = "final"
    PROVE  table'[b] = "final"
<1>1. CASE table' = table
  BY <1>1
<1>2. CASE table' # table
  <2>1. HistPersist /\ UpsertBatch(hist.page, hist.asof)
    BY <1>2 DEF HistAloneNext, HistNext, HistLaunch, HistStep, HistFails, HistBegin,
       HistFetch, HistFetchFails, HistPersist, HistPersistFails, HistMark,
       HistCrash, Tick, histVars, storeVars
  <2>2. CASE b \in Accepted(hist.page)
    <3>1. hist.pc = "persist" /\ b \in hist.page
      BY <2>1, <2>2 DEF HistPersist, Accepted
    <3>2. IsClosed(b, hist.asof)
      BY <3>1 DEF HistInv, FinalRowsAreClosed
    <3> QED
      BY <2>1, <2>2, <3>2 DEF UpsertBatch, Content
  <2>3. CASE b \notin Accepted(hist.page)
    BY <2>1, <2>3 DEF UpsertBatch
  <2> QED
    BY <2>2, <2>3
<1> QED
  BY <1>1, <1>2

(***************************************************************************)
(* The overwriting upsert_batch never replaces the row of a closed bar by  *)
(* an in-progress snapshot while historical runs are the only writer.      *)
(***************************************************************************)
THEOREM HistFinalRowsStay == HistSpec => FinalRowsStay
<1>1. HistInv /\ [HistAloneNext]_histVars =>
         [\A b \in Bars : table[b] = "final" => table'[b] = "final"]_table
  BY FinalRowsStep
<1> QED
  BY <1>1, HistInvariant, PTL DEF HistSpec, FinalRowsStay

\* The only steps that write the checkpoint: a mark moves the position up to
\* a bar that everything up to has a row of, a failure makes it NULL.
LEMMA CheckpointSteps ==
    ASSUME HistInv, [HistAloneNext]_histVars, checkpoint' # checkpoint
    PROVE  /\ UNCHANGED <<table, base>>
           /\ \/ checkpoint' = [status |-> "error", event |-> Null, open |-> Null]
              \/ /\ checkpoint'.open \in Bars
                 /\ checkpoint.open # Null => checkpoint.open < checkpoint'.open
                 /\ Covered(base, checkpoint'.open + 1)
<1>1. HistInv'
  BY HistInvStep
<1>2. HistMark \/ HistFetchFails \/ HistPersistFails
  BY DEF HistAloneNext, HistNext, HistLaunch, HistStep, HistFails, HistBegin,
     HistFetch, HistPersist, HistCrash, Tick, histVars, storeVars
<1>3. CASE HistFetchFails \/ HistPersistFails
  BY <1>3 DEF HistFetchFails, HistPersistFails, HistErrorCheckpoint,
     UpsertCheckpoint
<1>4. CASE HistMark
  <2>1. hist.pc = "mark" /\ UNCHANGED <<table, base>>
    BY <1>4 DEF HistMark
  <2>2. PICK last \in hist.page :
           hist.mode = "write" /\ UpsertCheckpoint("ok", last, last)
    BY <1>4 DEF HistMark, HistInv, HistTypeOK, HistRun
  <2>3. checkpoint'.open = last
    BY <2>2 DEF UpsertCheckpoint
  <2>4. last \in Bars /\ hist.cur <= last /\ hist.cur \in Nat
    BY <2>1 DEF HistInv, HistTypeOK, HistRun, PageIsContiguous
  <2>5. checkpoint.open # Null => checkpoint.open < last
    BY <2>1, <2>2, <2>4 DEF HistInv, HistTypeOK, StoreTypeOK, Checkpoint,
       Timestamp, PositionIsBehindTheRun
  <2>6. Covered(base, last + 1)
    BY <1>1, <2>1, <2>3, <2>4 DEF HistInv, GaplessPrefix, Covered, Stored
  <2> QED
    BY <2>1, <2>3, <2>4, <2>5, <2>6
<1> QED
  BY <1>2, <1>3, <1>4

(***************************************************************************)
(* The recorded position moves forward, or becomes NULL with status error: *)
(* no page a run persists lies behind what an earlier run recorded.        *)
(***************************************************************************)
THEOREM HistPositionAdvances == HistSpec => PositionAdvances
<1> DEFINE A == checkpoint.open # Null /\ checkpoint'.open # checkpoint.open =>
          \/ checkpoint'.status = "error" /\ checkpoint'.open = Null
          \/ checkpoint'.open # Null /\ checkpoint'.open > checkpoint.open
<1>1. HistInv /\ [HistAloneNext]_histVars => [A]_checkpoint
  <2> SUFFICES ASSUME HistInv, [HistAloneNext]_histVars, checkpoint' # checkpoint
               PROVE  A
    OBVIOUS
  <2>1. \/ checkpoint' = [status |-> "error", event |-> Null, open |-> Null]
        \/ /\ checkpoint'.open \in Bars
           /\ checkpoint.open # Null => checkpoint.open < checkpoint'.open
    BY CheckpointSteps
  <2>2. checkpoint.open \in Nat \cup {Null}
    BY DEF HistInv, HistTypeOK, StoreTypeOK, Checkpoint, Timestamp
  <2>3. CASE checkpoint' = [status |-> "error", event |-> Null, open |-> Null]
    BY <2>3
  <2>4. CASE /\ checkpoint'.open \in Bars
             /\ checkpoint.open # Null => checkpoint.open < checkpoint'.open
    <3>1. checkpoint'.open \in Nat /\ checkpoint'.open # Null
      BY <2>4
    <3> QED
      BY <2>2, <2>4, <3>1
  <2> QED
    BY <2>1, <2>3, <2>4
<1> QED
  BY <1>1, HistInvariant, PTL DEF HistSpec, PositionAdvances

-----------------------------------------------------------------------------
(* The refinement. *)

\* The kinds of steps KlinePrefix allows, in terms of the store.
LEMMA PrefixStep ==
    ASSUME StoreTypeOK,
           \/ UNCHANGED <<table, checkpoint, base>>
           \/ UNCHANGED <<checkpoint, base>> /\ \A b \in Bars : Stored(b) => Stored(b)'
           \/ /\ UNCHANGED <<table, checkpoint>> /\ base' \in Nat
              /\ checkpoint.open # Null => checkpoint.open < base'
           \/ UNCHANGED <<table, base>> /\ checkpoint'.open = Null
           \/ /\ UNCHANGED <<table, base>> /\ checkpoint'.open \in Bars
              /\ checkpoint.open # Null => checkpoint.open < checkpoint'.open
              /\ Covered(base, checkpoint'.open + 1)
    PROVE  Prefix!Next \/ UNCHANGED Prefix!vars
<1> USE DEF StoreTypeOK, Checkpoint, Timestamp
<1>1. CASE UNCHANGED <<table, checkpoint, base>>
  BY <1>1 DEF Prefix!vars, StoredBars, Stored
<1>2. CASE UNCHANGED <<checkpoint, base>> /\ \A b \in Bars : Stored(b) => Stored(b)'
  BY <1>2 DEF Prefix!Next, Prefix!Store, StoredBars
<1>3. CASE /\ UNCHANGED <<table, checkpoint>> /\ base' \in Nat
           /\ checkpoint.open # Null => checkpoint.open < base'
  BY <1>3 DEF Prefix!Next, Prefix!Start, StoredBars, Stored
<1>4. CASE UNCHANGED <<table, base>> /\ checkpoint'.open = Null
  BY <1>4 DEF Prefix!Next, Prefix!Forget, StoredBars, Stored
<1>5. CASE /\ UNCHANGED <<table, base>> /\ checkpoint'.open \in Bars
           /\ checkpoint.open # Null => checkpoint.open < checkpoint'.open
           /\ Covered(base, checkpoint'.open + 1)
  <2>1. Prefix!Complete(base, checkpoint'.open)
    <3> SUFFICES ASSUME NEW b \in Bars \ RejectedBars,
                        base <= b, b <= checkpoint'.open
                 PROVE  b \in StoredBars
      BY DEF Prefix!Complete
    <3>1. b \in Nat /\ checkpoint'.open \in Nat
      BY <1>5
    <3>2. b < checkpoint'.open + 1
      BY <3>1
    <3> QED
      BY <1>5, <3>2 DEF Covered, StoredBars
  <2>2. UNCHANGED <<StoredBars, base>>
    BY <1>5 DEF StoredBars, Stored
  <2> QED
    BY <1>5, <2>1, <2>2 DEF Prefix!Next, Prefix!Advance
<1> QED
  BY <1>1, <1>2, <1>3, <1>4, <1>5

LEMMA HistPrefixSteps == HistInv /\ [HistAloneNext]_histVars => [Prefix!Next]_(Prefix!vars)
<1> SUFFICES ASSUME HistInv, [HistAloneNext]_histVars
             PROVE  Prefix!Next \/ UNCHANGED Prefix!vars
  OBVIOUS
<1>0. StoreTypeOK
  BY DEF HistInv, HistTypeOK
<1>1. CASE checkpoint' # checkpoint
  <2>1. /\ UNCHANGED <<table, base>>
        /\ \/ checkpoint'.open = Null
           \/ /\ checkpoint'.open \in Bars
              /\ checkpoint.open # Null => checkpoint.open < checkpoint'.open
              /\ Covered(base, checkpoint'.open + 1)
    BY <1>1, CheckpointSteps
  <2> QED
    BY <1>0, <2>1, PrefixStep
<1>2. CASE checkpoint' = checkpoint /\ table' # table
  <2>1. UpsertBatch(hist.page, hist.asof) /\ UNCHANGED base
    BY <1>2 DEF HistAloneNext, HistNext, HistLaunch, HistStep, HistFails,
       HistBegin, HistFetch, HistFetchFails, HistPersist, HistPersistFails,
       HistMark, HistCrash, Tick, histVars, storeVars
  <2>2. \A b \in Bars : Stored(b) => Stored(b)'
    BY <2>1 DEF UpsertBatch, Content, Stored
  <2> QED
    BY <1>0, <1>2, <2>1, <2>2, PrefixStep
<1>3. CASE checkpoint' = checkpoint /\ table' = table /\ base' # base
  <2>1. PICK start \in Starts : Rebase(HistResumes(start), start)
    BY <1>3 DEF HistAloneNext, HistNext, HistLaunch, HistStep, HistFails,
       HistBegin, HistFetch, HistFetchFails, HistPersist, HistPersistFails,
       HistMark, HistCrash, Tick, histVars, storeVars
  <2>2. base' = start /\ ~HistResumes(start) /\ start \in Nat
    BY <1>3, <2>1 DEF Rebase
  <2>3. checkpoint.open # Null => checkpoint.open < start
    BY <1>0, <2>2 DEF HistResumes, HistPosition, StoreTypeOK, Checkpoint, Timestamp
  <2> QED
    BY <1>0, <1>3, <2>2, <2>3, PrefixStep
<1>4. CASE UNCHANGED <<checkpoint, table, base>>
  BY <1>0, <1>4, PrefixStep
<1> QED
  BY <1>1, <1>2, <1>3, <1>4

LEMMA PrefixInit == HistInit => Prefix!Init
BY DEF HistInit, StoreInit, Prefix!Init, StoredBars, Stored

(***************************************************************************)
(* The sync implements KlinePrefix: with fetch, rows and checkpoint in     *)
(* steps of their own, and failures and kills between them, every step     *)
(* adds rows, begins a range beyond the position, moves the position to    *)
(* the end of a complete prefix, forgets it, or changes none of the three. *)
(***************************************************************************)
THEOREM HistImplementsPrefix == HistSpec => PrefixKept
BY PrefixInit, HistPrefixSteps, HistInvariant, PTL DEF HistSpec, PrefixKept, Prefix!Spec

-----------------------------------------------------------------------------
(* The four writers together.  Each action either adds rows, or replaces   *)
(* the checkpoint in one of two ways; the first lemmas say what that does  *)
(* to the store.                                                           *)

(* The inductive invariant.                                                *)

StoreInv ==
    StoreTypeOK /\ PositionIsStored /\ EventBelongsToPosition /\ ErrorForgetsPosition

\* What each writer is about to record has its rows already.
HistInFlight == hist \in HistRun /\ MarkedPageIsStored
RtInFlight ==
    /\ RtTypeOK
    /\ rt.pc # "idle" => rt.bar \in Bars \ RejectedBars
    /\ rt.pc = "mark" => Stored(rt.bar)
\* A recovery's snapshot is an error row, and those have no position.
RecInFlight ==
    /\ rec \in RecRun
    /\ rec.pc # "idle" => rec.cp.event = Null /\ rec.cp.open = Null
    /\ rec.pc = "mark" => \A b \in Accepted(rec.page) : Stored(b)
RsyInFlight ==
    /\ rsy \in RsyRun
    /\ rsy.pc = "mark" => \A b \in Accepted(rsy.page) : Stored(b)

PipelineInv == StoreInv /\ HistInFlight /\ RtInFlight /\ RecInFlight /\ RsyInFlight

-----------------------------------------------------------------------------
(* The store.                                                              *)

RowsGrow ==
    /\ table' \in [Bars -> {"absent", "partial", "final"}]
    /\ \A b \in Bars : Stored(b) => Stored(b)'

ClocksOK == now' \in Nat /\ faults' \in Nat /\ base' \in Nat

LEMMA UpsertGrows ==
    ASSUME StoreTypeOK, NEW page \in SUBSET Bars, NEW t \in Nat, UpsertBatch(page, t)
    PROVE  RowsGrow /\ \A b \in Accepted(page) : Stored(b)'
BY DEF StoreTypeOK, UpsertBatch, Accepted, Content, Stored, RowsGrow

LEMMA SameTableGrows == StoreTypeOK /\ table' = table => RowsGrow
BY DEF StoreTypeOK, RowsGrow, Stored

LEMMA RowsAdded ==
    ASSUME StoreInv, RowsGrow, ClocksOK, checkpoint' = checkpoint
    PROVE  StoreInv'
<1> USE DEF StoreInv, StoreTypeOK, Checkpoint, Timestamp, ClocksOK, RowsGrow
<1>1. StoreTypeOK'
  OBVIOUS
<1>2. PositionIsStored'
  BY DEF PositionIsStored
<1>3. EventBelongsToPosition' /\ ErrorForgetsPosition'
  BY DEF EventBelongsToPosition, ErrorForgetsPosition, CloseOf
<1> QED
  BY <1>1, <1>2, <1>3

LEMMA PositionRecorded ==
    ASSUME StoreInv, ClocksOK, table' = table, NEW last \in Bars,
           last \in RejectedBars \/ Stored(last),
           NEW event \in {last, CloseOf(last)}, UpsertCheckpoint("ok", event, last)
    PROVE  StoreInv'
<1> USE DEF StoreInv, StoreTypeOK, Checkpoint, Timestamp, ClocksOK
<1>1. last \in Nat /\ CloseOf(last) \in Nat /\ last # Null
  BY DEF CloseOf
<1>2. checkpoint' = [status |-> "ok", event |-> event, open |-> last]
  BY DEF UpsertCheckpoint
<1>3. StoreTypeOK'
  BY <1>1, <1>2
<1>4. PositionIsStored' /\ EventBelongsToPosition' /\ ErrorForgetsPosition'
  BY <1>1, <1>2 DEF PositionIsStored, EventBelongsToPosition, ErrorForgetsPosition,
     Stored, CloseOf
<1> QED
  BY <1>3, <1>4

LEMMA PositionForgotten ==
    ASSUME StoreInv, ClocksOK, table' = table, UpsertCheckpoint("error", Null, Null)
    PROVE  StoreInv'
BY DEF StoreInv, StoreTypeOK, Checkpoint, Timestamp, ClocksOK, UpsertCheckpoint,
       PositionIsStored, EventBelongsToPosition, ErrorForgetsPosition

\* A writer that does nothing keeps its clause while the table grows.
LEMMA OthersKeep ==
    ASSUME RowsGrow
    PROVE  /\ HistInFlight /\ UNCHANGED hist => HistInFlight'
           /\ RtInFlight /\ UNCHANGED rtVars => RtInFlight'
           /\ RecInFlight /\ UNCHANGED rec => RecInFlight'
           /\ RsyInFlight /\ UNCHANGED rsy => RsyInFlight'
<1>1. HistInFlight /\ UNCHANGED hist => HistInFlight'
  BY DEF RowsGrow, HistInFlight, HistRun, MarkedPageIsStored, Accepted
<1>2. RtInFlight /\ UNCHANGED rtVars => RtInFlight'
  BY DEF RowsGrow, RtInFlight, RtTypeOK, rtVars
<1>3. RecInFlight /\ UNCHANGED rec => RecInFlight'
  BY DEF RowsGrow, RecInFlight, RecRun, Accepted
<1>4. RsyInFlight /\ UNCHANGED rsy => RsyInFlight'
  BY DEF RowsGrow, RsyInFlight, RsyRun, Accepted
<1> QED
  BY <1>1, <1>2, <1>3, <1>4

\* The last bar of a marked page was rejected or has a row.
LEMMA MarkedBar ==
    ASSUME NEW page \in SUBSET Bars, NEW last \in page,
           \A b \in Accepted(page) : Stored(b)
    PROVE  last \in Bars /\ (last \in RejectedBars \/ Stored(last))
BY DEF Accepted

LEMMA PageIsBars ==
    ASSUME NEW from \in Nat, NEW to \in Nat, NEW t \in Nat
    PROVE  FetchKlines(from, to, t) \in SUBSET Bars
BY DEF FetchKlines, Available

-----------------------------------------------------------------------------
(* One lemma per action.  Each shows the writer's own clause and hands the  *)
(* store and the others to the lemmas above.                                *)

LEMMA InitInv == Init => PipelineInv
BY DEF Init, HistInit, RtInit, RecInit, RsyInit, StoreInit, HistIdle, RecDone, RsyIdle,
       PipelineInv, StoreInv, StoreTypeOK, Checkpoint, Timestamp, PositionIsStored,
       EventBelongsToPosition, ErrorForgetsPosition, HistInFlight, HistRun,
       MarkedPageIsStored, RtInFlight, RtTypeOK, RtHandler, RecInFlight, RecRun,
       RsyInFlight, RsyRun

LEMMA HistoricalInv == PipelineInv /\ Historical => PipelineInv'
<1> SUFFICES ASSUME PipelineInv, Historical PROVE PipelineInv'
  OBVIOUS
<1> USE DEF PipelineInv
<1>0. StoreTypeOK /\ UNCHANGED <<rtVars, rec, rsy>>
  BY DEF Historical, StoreInv
<1>1. CASE HistLaunch
  <2>1. PICK start \in Starts, end \in Ends \cup {now}, mode \in Modes :
          HistBegin(start, end, mode)
    BY <1>1 DEF HistLaunch
  <2>2. start \in Nat /\ end \in Nat /\ HistStartPoint(start) \in Nat
    BY <1>0 DEF StoreTypeOK, Checkpoint, Timestamp, HistStartPoint, HistResumes, HistPosition
  <2>3. RowsGrow /\ ClocksOK /\ checkpoint' = checkpoint
    BY <1>0, <2>1, <2>2, SameTableGrows DEF HistBegin, Rebase, ClocksOK, StoreTypeOK
  <2>4. HistInFlight'
    BY <2>1, <2>2 DEF HistBegin, HistIdle, HistInFlight, HistRun, MarkedPageIsStored
  <2> QED
    BY <1>0, <2>3, <2>4, RowsAdded, OthersKeep
<1>2. CASE HistFetch
  <2>1. /\ hist.pc = "fetch" /\ UNCHANGED storeVars
        /\ \/ hist' = HistIdle
           \/ hist' = [hist EXCEPT !.pc = "persist", !.asof = now,
                           !.page = FetchKlines(hist.cur, hist.end, now)]
    BY <1>2 DEF HistFetch
  <2>2. FetchKlines(hist.cur, hist.end, now) \in SUBSET Bars
    BY <1>0, PageIsBars DEF HistInFlight, HistRun, StoreTypeOK
  <2>3. HistInFlight'
    <3>1. CASE hist' = HistIdle
      BY <3>1 DEF HistInFlight, HistRun, HistIdle, MarkedPageIsStored
    <3>2. CASE hist' = [hist EXCEPT !.pc = "persist", !.asof = now,
                           !.page = FetchKlines(hist.cur, hist.end, now)]
      <4>1. hist' \in HistRun /\ hist'.pc = "persist"
        BY <1>0, <2>2, <3>2 DEF HistInFlight, HistRun, StoreTypeOK
      <4> QED
        BY <4>1 DEF HistInFlight, MarkedPageIsStored
    <3> QED
      BY <2>1, <3>1, <3>2
  <2>4. RowsGrow /\ ClocksOK /\ checkpoint' = checkpoint
    BY <1>0, <2>1, SameTableGrows DEF storeVars, ClocksOK, StoreTypeOK
  <2> QED
    BY <1>0, <2>3, <2>4, RowsAdded, OthersKeep
<1>3. CASE HistPersist
  <2>1. hist \in HistRun /\ hist.page \in SUBSET Bars /\ hist.asof \in Nat
    BY DEF HistInFlight, HistRun
  <2>2. /\ RowsGrow
        /\ hist.mode = "write" => \A b \in Accepted(hist.page) : Stored(b)'
    BY <1>0, <1>3, <2>1, UpsertGrows, SameTableGrows DEF HistPersist
  <2>3. hist' = [hist EXCEPT !.pc = "mark"] /\ UNCHANGED <<now, faults, checkpoint, base>>
    BY <1>3 DEF HistPersist
  <2>4. HistInFlight'
    BY <2>1, <2>2, <2>3 DEF HistInFlight, HistRun, MarkedPageIsStored, Accepted
  <2> QED
    BY <1>0, <2>2, <2>3, <2>4, RowsAdded, OthersKeep DEF ClocksOK, StoreTypeOK
<1>4. CASE HistMark
  <2>1. hist \in HistRun /\ hist.page \in SUBSET Bars
    BY DEF HistInFlight, HistRun
  <2>2. PICK last \in hist.page :
          /\ hist.pc = "mark"
          /\ IF hist.mode = "write" THEN UpsertCheckpoint("ok", last, last)
                                    ELSE UNCHANGED checkpoint
          /\ \/ hist' = HistIdle
             \/ hist' = [hist EXCEPT !.pc = "fetch", !.cur = last + 1,
                                     !.page = {}, !.asof = 0]
          /\ UNCHANGED <<now, faults, table, base>>
    BY <1>4 DEF HistMark
  <2>3. last \in Nat
    BY <2>1
  <2>4. HistInFlight'
    <3>1. CASE hist' = HistIdle
      BY <3>1 DEF HistInFlight, HistRun, HistIdle, MarkedPageIsStored
    <3>2. CASE hist' = [hist EXCEPT !.pc = "fetch", !.cur = last + 1,
                                     !.page = {}, !.asof = 0]
      <4>1. last + 1 \in Nat /\ {} \in SUBSET Bars
        BY <2>3
      <4>2. hist' \in HistRun /\ hist'.pc = "fetch"
        BY <2>1, <3>2, <4>1 DEF HistRun
      <4> QED
        BY <4>2 DEF HistInFlight, MarkedPageIsStored
    <3> QED
      BY <2>2, <3>1, <3>2
  <2>5. RowsGrow /\ ClocksOK
    BY <1>0, <2>2, SameTableGrows DEF ClocksOK, StoreTypeOK
  <2>6. StoreInv'
    <3>1. CASE hist.mode = "dry"
      BY <2>2, <2>5, <3>1, RowsAdded
    <3>2. CASE hist.mode = "write"
      <4>1. last \in Bars /\ (last \in RejectedBars \/ Stored(last))
        BY <2>1, <2>2, <3>2, MarkedBar DEF HistInFlight, MarkedPageIsStored
      <4> QED
        BY <2>2, <2>5, <3>2, <4>1, PositionRecorded
    <3> QED
      BY <2>1, <3>1, <3>2 DEF HistRun
  <2> QED
    BY <1>0, <2>4, <2>5, <2>6, OthersKeep
<1>5. CASE HistFails
  <2>1. /\ hist' = HistIdle /\ UNCHANGED <<now, table, base>> /\ faults' = faults + 1
        /\ \/ UpsertCheckpoint("error", Null, Null)
           \/ UNCHANGED checkpoint
    BY <1>5 DEF HistFails, HistFetchFails, HistPersistFails, HistCrash, Fault,
       HistErrorCheckpoint
  <2>2. RowsGrow /\ ClocksOK
    BY <1>0, <2>1, SameTableGrows DEF ClocksOK, StoreTypeOK
  <2>3. HistInFlight'
    BY <2>1 DEF HistInFlight, HistRun, HistIdle, MarkedPageIsStored
  <2> QED
    BY <1>0, <2>1, <2>2, <2>3, RowsAdded, PositionForgotten, OthersKeep
<1> QED
  BY <1>1, <1>2, <1>3, <1>4, <1>5 DEF Historical, HistStep

LEMMA RealtimeInv == PipelineInv /\ Realtime => PipelineInv'
<1> SUFFICES ASSUME PipelineInv, Realtime PROVE PipelineInv'
  OBVIOUS
<1> USE DEF PipelineInv
<1>0. StoreTypeOK /\ UNCHANGED <<hist, rec, rsy>>
  BY DEF Realtime, StoreInv
<1>1. CASE RtMessage
  <2>1. PICK b \in Bars : RtOpenMessage(b) \/ RtClosedMessage(b)
    BY <1>1 DEF RtMessage
  <2>2. UNCHANGED storeVars /\ RtInFlight'
    BY <2>1 DEF RtOpenMessage, RtClosedMessage, storeVars, RtInFlight, RtTypeOK,
       RtHandler, Timestamp, Stored
  <2>3. RowsGrow /\ ClocksOK /\ checkpoint' = checkpoint
    BY <1>0, <2>2, SameTableGrows DEF storeVars, ClocksOK, StoreTypeOK
  <2> QED
    BY <1>0, <2>2, <2>3, RowsAdded, OthersKeep
<1>2. CASE RtPersist
  <2>1. rt.bar \in Bars
    BY <1>2 DEF RtPersist, RtInFlight
  <2>2. RowsGrow /\ \A b \in Accepted({rt.bar}) : Stored(b)'
    <3>1. UpsertBatch({rt.bar}, now) /\ {rt.bar} \in SUBSET Bars /\ now \in Nat
      BY <1>0, <1>2, <2>1 DEF RtPersist, StoreTypeOK
    <3> QED
      BY <1>0, <3>1, UpsertGrows
  <2>3. rt' = [rt EXCEPT !.pc = "mark"] /\ UNCHANGED <<now, faults, checkpoint, base, live>>
    BY <1>2 DEF RtPersist
  <2>4. rt \in RtHandler /\ rt.bar \in Accepted({rt.bar})
    BY <1>2 DEF RtPersist, RtInFlight, RtTypeOK, Accepted
  <2>5. Stored(rt.bar)'
    BY <2>1, <2>2, <2>3, <2>4 DEF RtHandler, Stored
  <2>6. RtInFlight'
    BY <2>1, <2>3, <2>4, <2>5 DEF RtInFlight, RtTypeOK, RtHandler, Stored, Accepted
  <2> QED
    BY <1>0, <2>2, <2>3, <2>6, RowsAdded, OthersKeep DEF ClocksOK, StoreTypeOK
<1>3. CASE RtMark
  <2>1. /\ rt.bar \in Bars /\ Stored(rt.bar) /\ rt \in RtHandler
        /\ CloseOf(rt.bar) \in {rt.bar, CloseOf(rt.bar)}
    BY <1>3 DEF RtMark, RtInFlight, RtTypeOK
  <2>2. /\ UpsertCheckpoint("ok", CloseOf(rt.bar), rt.bar)
        /\ rt' = [rt EXCEPT !.pc = "idle"]
        /\ UNCHANGED <<now, faults, table, base, live>>
    BY <1>3 DEF RtMark
  <2>3. RowsGrow /\ ClocksOK
    BY <1>0, <2>2, SameTableGrows DEF ClocksOK, StoreTypeOK
  <2>4. RtInFlight'
    BY <2>1, <2>2 DEF RtInFlight, RtTypeOK, RtHandler
  <2>5. StoreInv'
    BY <2>1, <2>2, <2>3, PositionRecorded
  <2> QED
    BY <1>0, <2>3, <2>4, <2>5, OthersKeep
<1>4. CASE RtDrop
  <2>1. /\ rt' = [rt EXCEPT !.pc = "idle"] /\ faults' = faults + 1
        /\ UNCHANGED <<now, table, checkpoint, base, live>>
    BY <1>4 DEF RtDrop, Fault
  <2>2. RowsGrow /\ ClocksOK
    BY <1>0, <2>1, SameTableGrows DEF ClocksOK, StoreTypeOK
  <2>3. RtInFlight'
    BY <2>1 DEF RtInFlight, RtTypeOK, RtHandler
  <2> QED
    BY <1>0, <2>1, <2>2, <2>3, RowsAdded, OthersKeep
<1> QED
  BY <1>1, <1>2, <1>3, <1>4 DEF Realtime, RtNext, RtStep

LEMMA RecoveryInv == PipelineInv /\ Recovery => PipelineInv'
<1> SUFFICES ASSUME PipelineInv, Recovery PROVE PipelineInv'
  OBVIOUS
<1> USE DEF PipelineInv
<1>0. /\ StoreTypeOK /\ UNCHANGED <<hist, rtVars, rsy>>
      /\ rec \in RecRun
      /\ checkpoint \in Checkpoint /\ now \in Nat /\ faults \in Nat /\ base \in Nat
  BY DEF Recovery, StoreInv, RecInFlight, StoreTypeOK
\* Wherever a run ends, its clause holds again.
<1>1. ASSUME NEW report \in {"none", "recovered", "still_failing"},
             rec' = RecDone(report)
      PROVE  RecInFlight'
  BY <1>1 DEF RecInFlight, RecDone, RecRun, Checkpoint, Timestamp
<1>2. CASE RecBegin
  <2>1. /\ checkpoint.status = "error" /\ RecStartPoint \in Nat
        /\ rec' = [RecDone("none") EXCEPT !.pc = "fetch", !.cp = checkpoint,
                                          !.cur = RecStartPoint, !.end = now]
        /\ base' \in Nat /\ UNCHANGED <<now, faults, table, checkpoint>>
    BY <1>0, <1>2 DEF RecBegin, RecStartPoint, Rebase, Checkpoint, Timestamp
  <2>2. checkpoint.event = Null /\ checkpoint.open = Null
    BY <2>1 DEF StoreInv, ErrorForgetsPosition
  <2>3. RecInFlight'
    BY <1>0, <2>1, <2>2 DEF RecInFlight, RecDone, RecRun, Checkpoint, Timestamp
  <2>4. RowsGrow /\ ClocksOK
    BY <1>0, <2>1, SameTableGrows DEF ClocksOK
  <2> QED
    BY <1>0, <2>1, <2>3, <2>4, RowsAdded, OthersKeep
<1>3. CASE RecBeginEmpty
  <2>1. rec' = RecDone("recovered") /\ UNCHANGED storeVars
    BY <1>3 DEF RecBeginEmpty
  <2>2. RowsGrow /\ ClocksOK /\ checkpoint' = checkpoint
    BY <1>0, <2>1, SameTableGrows DEF storeVars, ClocksOK
  <2> QED
    BY <1>0, <1>1, <2>1, <2>2, RowsAdded, OthersKeep
<1>4. CASE RecFetch
  <2>1. /\ rec.pc = "fetch" /\ UNCHANGED storeVars
        /\ \/ rec' = RecDone("recovered")
           \/ rec' = [rec EXCEPT !.pc = "persist", !.asof = now,
                          !.page = FetchKlines(rec.cur, rec.end, now)]
    BY <1>4 DEF RecFetch
  <2>2. FetchKlines(rec.cur, rec.end, now) \in SUBSET Bars
    BY <1>0, PageIsBars DEF RecRun
  <2>3. RecInFlight'
    <3>1. CASE rec' = RecDone("recovered")
      BY <1>1, <3>1
    <3>2. CASE rec' = [rec EXCEPT !.pc = "persist", !.asof = now,
                          !.page = FetchKlines(rec.cur, rec.end, now)]
      BY <1>0, <2>1, <2>2, <3>2 DEF RecInFlight, RecRun
    <3> QED
      BY <2>1, <3>1, <3>2
  <2>4. RowsGrow /\ ClocksOK /\ checkpoint' = checkpoint
    BY <1>0, <2>1, SameTableGrows DEF storeVars, ClocksOK
  <2> QED
    BY <1>0, <2>3, <2>4, RowsAdded, OthersKeep
<1>5. CASE RecPersist
  <2>1. rec.page \in SUBSET Bars /\ rec.asof \in Nat
    BY <1>0 DEF RecRun
  <2>2. RowsGrow /\ \A b \in Accepted(rec.page) : Stored(b)'
    BY <1>0, <1>5, <2>1, UpsertGrows DEF RecPersist
  <2>3. /\ rec' = [rec EXCEPT !.pc = "mark"] /\ rec.pc = "persist"
        /\ UNCHANGED <<now, faults, checkpoint, base>>
    BY <1>5 DEF RecPersist
  <2>4. RecInFlight'
    BY <1>0, <2>2, <2>3 DEF RecInFlight, RecRun, Accepted
  <2> QED
    BY <1>0, <2>2, <2>3, <2>4, RowsAdded, OthersKeep DEF ClocksOK
<1>6. CASE RecMark
  <2>1. rec.page \in SUBSET Bars
    BY <1>0 DEF RecRun
  <2>2. PICK last \in rec.page :
          /\ rec.pc = "mark" /\ UpsertCheckpoint("ok", last, last)
          /\ \/ rec' = RecDone("recovered")
             \/ rec' = [rec EXCEPT !.pc = "fetch", !.cur = last + 1,
                                   !.page = {}, !.asof = 0]
          /\ UNCHANGED <<now, faults, table, base>>
    BY <1>6 DEF RecMark
  <2>3. last \in Nat /\ last \in Bars /\ (last \in RejectedBars \/ Stored(last))
    BY <2>1, <2>2, MarkedBar DEF RecInFlight
  <2>4. RecInFlight'
    <3>1. CASE rec' = RecDone("recovered")
      BY <1>1, <3>1
    <3>2. CASE rec' = [rec EXCEPT !.pc = "fetch", !.cur = last + 1,
                                   !.page = {}, !.asof = 0]
      <4>1. last + 1 \in Nat /\ {} \in SUBSET Bars
        BY <2>3
      <4>2. rec' \in RecRun /\ rec'.pc = "fetch" /\ rec'.cp = rec.cp
        BY <1>0, <3>2, <4>1 DEF RecRun
      <4> QED
        BY <2>2, <4>2 DEF RecInFlight
    <3> QED
      BY <2>2, <3>1, <3>2
  <2>5. RowsGrow /\ ClocksOK
    BY <1>0, <2>2, SameTableGrows DEF ClocksOK
  <2>6. StoreInv'
    BY <2>2, <2>3, <2>5, PositionRecorded
  <2> QED
    BY <1>0, <2>4, <2>5, <2>6, OthersKeep
<1>7. CASE RecFails
  <2>1. /\ rec.pc # "idle" /\ UpsertCheckpoint("error", rec.cp.event, rec.cp.open)
        /\ rec' = RecDone("still_failing") /\ faults' = faults + 1
        /\ UNCHANGED <<now, table, base>>
    BY <1>7 DEF RecFails, Fault
  <2>2. rec.cp.event = Null /\ rec.cp.open = Null
    BY <2>1 DEF RecInFlight
  <2>3. RowsGrow /\ ClocksOK
    BY <1>0, <2>1, SameTableGrows DEF ClocksOK
  <2>4. StoreInv'
    BY <2>1, <2>2, <2>3, PositionForgotten
  <2> QED
    BY <1>0, <1>1, <2>1, <2>3, <2>4, OthersKeep
<1>8. CASE RecCrash
  <2>1. /\ rec' = RecDone("none") /\ faults' = faults + 1
        /\ UNCHANGED <<now, table, checkpoint, base>>
    BY <1>8 DEF RecCrash, Fault
  <2>2. RowsGrow /\ ClocksOK
    BY <1>0, <2>1, SameTableGrows DEF ClocksOK
  <2> QED
    BY <1>0, <1>1, <2>1, <2>2, RowsAdded, OthersKeep
<1> QED
  BY <1>2, <1>3, <1>4, <1>5, <1>6, <1>7, <1>8 DEF Recovery, RecLaunch, RecStep

LEMMA ResyncInv == PipelineInv /\ Resync => PipelineInv'
<1> SUFFICES ASSUME PipelineInv, Resync PROVE PipelineInv'
  OBVIOUS
<1> USE DEF PipelineInv
<1>0. /\ StoreTypeOK /\ UNCHANGED <<hist, rtVars, rec>>
      /\ rsy \in RsyRun
      /\ now \in Nat /\ faults \in Nat /\ base \in Nat
  BY DEF Resync, StoreInv, RsyInFlight, StoreTypeOK
<1>1. CASE RsyLaunch
  <2>1. PICK range \in ResyncRanges :
          /\ rsy' = [RsyIdle EXCEPT !.pc = "fetch", !.cur = range[1], !.end = range[2]]
          /\ UNCHANGED storeVars
    BY <1>1 DEF RsyLaunch, RsyBegin
  <2>2. RsyInFlight'
    BY <2>1 DEF RsyInFlight, RsyIdle, RsyRun
  <2>3. RowsGrow /\ ClocksOK /\ checkpoint' = checkpoint
    BY <1>0, <2>1, SameTableGrows DEF storeVars, ClocksOK
  <2> QED
    BY <1>0, <2>2, <2>3, RowsAdded, OthersKeep
<1>2. CASE RsyFetch
  <2>1. /\ rsy.pc = "fetch" /\ UNCHANGED storeVars
        /\ \/ rsy' = RsyIdle
           \/ rsy' = [rsy EXCEPT !.pc = "persist", !.asof = now,
                          !.page = FetchKlines(rsy.cur, rsy.end, now)]
    BY <1>2 DEF RsyFetch
  <2>2. FetchKlines(rsy.cur, rsy.end, now) \in SUBSET Bars
    BY <1>0, PageIsBars DEF RsyRun
  <2>3. RsyInFlight'
    <3>1. CASE rsy' = RsyIdle
      BY <3>1 DEF RsyInFlight, RsyIdle, RsyRun
    <3>2. CASE rsy' = [rsy EXCEPT !.pc = "persist", !.asof = now,
                          !.page = FetchKlines(rsy.cur, rsy.end, now)]
      <4>1. rsy' \in RsyRun /\ rsy'.pc = "persist"
        BY <1>0, <2>2, <3>2 DEF RsyRun
      <4> QED
        BY <4>1 DEF RsyInFlight
    <3> QED
      BY <2>1, <3>1, <3>2
  <2>4. RowsGrow /\ ClocksOK /\ checkpoint' = checkpoint
    BY <1>0, <2>1, SameTableGrows DEF storeVars, ClocksOK
  <2> QED
    BY <1>0, <2>3, <2>4, RowsAdded, OthersKeep
<1>3. CASE RsyPersist
  <2>1. rsy.page \in SUBSET Bars /\ rsy.asof \in Nat
    BY <1>0 DEF RsyRun
  <2>2. RowsGrow /\ \A b \in Accepted(rsy.page) : Stored(b)'
    BY <1>0, <1>3, <2>1, UpsertGrows DEF RsyPersist
  <2>3. /\ rsy' = [rsy EXCEPT !.pc = "mark"]
        /\ UNCHANGED <<now, faults, checkpoint, base>>
    BY <1>3 DEF RsyPersist
  <2>4. RsyInFlight'
    BY <1>0, <2>2, <2>3 DEF RsyInFlight, RsyRun, Accepted
  <2> QED
    BY <1>0, <2>2, <2>3, <2>4, RowsAdded, OthersKeep DEF ClocksOK
<1>4. CASE RsyMark
  <2>1. rsy.page \in SUBSET Bars
    BY <1>0 DEF RsyRun
  <2>2. PICK last \in rsy.page :
          /\ rsy.pc = "mark" /\ UpsertCheckpoint("ok", last, last)
          /\ \/ rsy' = RsyIdle
             \/ rsy' = [rsy EXCEPT !.pc = "fetch", !.cur = last + 1,
                                   !.page = {}, !.asof = 0]
          /\ UNCHANGED <<now, faults, table, base>>
    BY <1>4 DEF RsyMark
  <2>3. last \in Nat /\ last \in Bars /\ (last \in RejectedBars \/ Stored(last))
    BY <2>1, <2>2, MarkedBar DEF RsyInFlight
  <2>4. RsyInFlight'
    <3>1. CASE rsy' = RsyIdle
      BY <3>1 DEF RsyInFlight, RsyIdle, RsyRun
    <3>2. CASE rsy' = [rsy EXCEPT !.pc = "fetch", !.cur = last + 1,
                                   !.page = {}, !.asof = 0]
      <4>1. last + 1 \in Nat /\ {} \in SUBSET Bars
        BY <2>3
      <4>2. rsy' \in RsyRun /\ rsy'.pc = "fetch"
        BY <1>0, <3>2, <4>1 DEF RsyRun
      <4> QED
        BY <4>2 DEF RsyInFlight
    <3> QED
      BY <2>2, <3>1, <3>2
  <2>5. RowsGrow /\ ClocksOK
    BY <1>0, <2>2, SameTableGrows DEF ClocksOK
  <2>6. StoreInv'
    BY <2>2, <2>3, <2>5, PositionRecorded
  <2> QED
    BY <1>0, <2>4, <2>5, <2>6, OthersKeep
<1>5. CASE RsyFetchFails \/ RsyCrash
  <2>1. /\ rsy' = RsyIdle /\ faults' = faults + 1 /\ UNCHANGED <<now, table, base>>
        /\ \/ UpsertCheckpoint("error", Null, Null)
           \/ checkpoint' = checkpoint
    BY <1>5 DEF RsyFetchFails, RsyCrash, Fault
  <2>2. RowsGrow /\ ClocksOK
    BY <1>0, <2>1, SameTableGrows DEF ClocksOK
  <2>3. RsyInFlight'
    BY <2>1 DEF RsyInFlight, RsyIdle, RsyRun
  <2> QED
    BY <1>0, <2>1, <2>2, <2>3, RowsAdded, PositionForgotten, OthersKeep
<1> QED
  BY <1>1, <1>2, <1>3, <1>4, <1>5 DEF Resync, RsyStep

LEMMA ClockInv == PipelineInv /\ (Clock \/ UNCHANGED vars) => PipelineInv'
<1> SUFFICES ASSUME PipelineInv, Clock \/ UNCHANGED vars PROVE PipelineInv'
  OBVIOUS
<1> USE DEF PipelineInv
<1>1. /\ StoreTypeOK /\ UNCHANGED <<hist, rtVars, rec, rsy, table, checkpoint>>
      /\ ClocksOK
  BY DEF Clock, Tick, vars, rtVars, storeVars, ClocksOK, StoreInv, StoreTypeOK
<1> QED
  BY <1>1, SameTableGrows, RowsAdded, OthersKeep

-----------------------------------------------------------------------------

\* In every interleaving of the four writers, with any failures and kills, for
\* every stream, page size and choice of ranges: the inductive invariant.
THEOREM PipelineInvariant == Spec => []PipelineInv
<1>1. PipelineInv /\ [Next]_vars => PipelineInv'
  BY HistoricalInv, RealtimeInv, RecoveryInv, ResyncInv, ClockInv DEF Next
<1> QED
  BY InitInv, <1>1, PTL DEF Spec

\* A checkpoint never names a bar that is neither stored nor rejected, although
\* no writer locks it and each may write over what another recorded.
THEOREM PipelinePositionIsStored == Spec => []PositionIsStored
<1>1. PipelineInv => PositionIsStored
  BY DEF PipelineInv, StoreInv
<1> QED
  BY PipelineInvariant, <1>1, PTL

\* The checkpoint row is of one writer's making, and an error row has no
\* position: with the types, what recovery relies on.
THEOREM PipelineCheckpointRow == Spec => []CheckpointInv
<1>1. PipelineInv => CheckpointInv
  BY DEF PipelineInv, StoreInv, HistInFlight, RtInFlight, RecInFlight, RsyInFlight,
     CheckpointInv, TypeOK, HistTypeOK, RecTypeOK, RsyTypeOK
<1> QED
  BY PipelineInvariant, <1>1, PTL

-----------------------------------------------------------------------------
(* The historical sync and the recovery, one at a time.                    *)

\* No other writer, and the operator starts a command when none is running.
InTurns == Serial /\ Writers \subseteq {"hist", "rec"}

\* What the local variables of a recovery in progress stand for.
RecTurn ==
    /\ rec.asof <= now
    /\ rec.pc # "idle" =>
          /\ Covered(base, rec.cur)
          /\ checkpoint.open # Null => checkpoint.open < rec.cur
    /\ rec.pc \in {"persist", "mark"} =>
          \A c \in rec.page :
              rec.cur <= c /\ \A b \in Bars : rec.cur <= b /\ b <= c => b \in rec.page
    /\ rec.pc = "persist" =>
          \A b \in rec.page : table[b] = "final" => IsClosed(b, rec.asof)

TurnsInv == HistInv /\ RecTurn /\ (hist.pc = "idle" \/ rec.pc = "idle")

\* While the recovery runs, what has to be shown of the other is about the store.
LEMMA TurnsSuffices ==
    ASSUME PipelineInv', TurnsInv, hist.pc = "idle", UNCHANGED hist, now' = now,
           GaplessPrefix', RecTurn',
           \A b \in Bars : table'[b] = "final" => table[b] = "final" \/ IsClosed(b, now)
    PROVE  TurnsInv'
<1>1. HistTypeOK'
  BY DEF PipelineInv, StoreInv, HistInFlight, HistTypeOK
<1>2. /\ ResumePointCovered' /\ PageIsContiguous' /\ MarkedPageIsStored'
      /\ PositionIsBehindTheRun'
  BY DEF ResumePointCovered, PageIsContiguous, MarkedPageIsStored, PositionIsBehindTheRun
<1>3. FinalRowsAreClosed'
  BY DEF TurnsInv, HistInv, FinalRowsAreClosed, IsClosed, CloseOf
<1> QED
  BY <1>1, <1>2, <1>3 DEF TurnsInv, HistInv

LEMMA DoneTurn ==
    ASSUME NEW report, rec' = RecDone(report), now' \in Nat
    PROVE  RecTurn'
BY DEF RecDone, RecTurn

LEMMA RecoveryTurn ==
    ASSUME InTurns, PipelineInv, PipelineInv', TurnsInv, Recovery
    PROVE  TurnsInv' /\ (Prefix!Next \/ UNCHANGED Prefix!vars)
<1>0. /\ StoreTypeOK /\ rec \in RecRun /\ UNCHANGED hist /\ GaplessPrefix /\ RecTurn
      /\ now \in Nat /\ base \in Nat /\ checkpoint \in Checkpoint
      /\ rec.cur \in Nat /\ rec.end \in Nat /\ rec.asof \in Nat /\ rec.page \in SUBSET Bars
      /\ hist.pc = "idle"
  BY DEF PipelineInv, StoreInv, StoreTypeOK, RecInFlight, RecRun, TurnsInv, HistInv, Recovery,
     InTurns, MayLaunch, RecStep, RecFetch, RecPersist, RecMark, RecFails, RecCrash
<1>1. CASE RecBegin
  <2>1. /\ RecStartPoint \in Nat /\ UNCHANGED <<now, table, checkpoint>>
        /\ checkpoint.open = Null /\ checkpoint.event = Null
    BY <1>0, <1>1 DEF RecBegin, RecStartPoint, Checkpoint, Timestamp, PipelineInv, StoreInv,
       ErrorForgetsPosition
  <2>2. base' = RecStartPoint
    BY <1>1, <2>1 DEF RecBegin, Rebase
  <2>3. rec'.pc = "fetch" /\ rec'.cur = RecStartPoint /\ rec'.asof = 0
    BY <1>1 DEF RecBegin, RecDone
  <2>4. RecTurn' /\ GaplessPrefix'
    BY <1>0, <2>1, <2>2, <2>3 DEF RecTurn, GaplessPrefix, Covered
  <2> QED
    BY <1>0, <2>1, <2>2, <2>4, TurnsSuffices, PrefixStep
<1>2. ASSUME RecBeginEmpty \/ RecCrash \/ RecFails
      PROVE  TurnsInv' /\ (Prefix!Next \/ UNCHANGED Prefix!vars)
  <2>1. /\ UNCHANGED <<now, table, base>> /\ \E report : rec' = RecDone(report)
        /\ UNCHANGED checkpoint \/ checkpoint'.open = Null
    BY <1>2 DEF RecBeginEmpty, RecCrash, RecFails, UpsertCheckpoint, storeVars, PipelineInv,
       RecInFlight
  <2>2. RecTurn' /\ GaplessPrefix'
    BY <1>0, <2>1, DoneTurn DEF GaplessPrefix, Covered, Stored
  <2> QED
    BY <1>0, <2>1, <2>2, TurnsSuffices, PrefixStep
<1>3. CASE RecFetch
  <2> DEFINE page == FetchKlines(rec.cur, rec.end, now)
  <2>1. UNCHANGED <<now, table, checkpoint, base>>
    BY <1>3 DEF RecFetch, storeVars
  <2>2. GaplessPrefix'
    BY <1>0, <2>1 DEF GaplessPrefix, Covered, Stored
  <2>3. RecTurn'
    <3>1. CASE page = {}
      BY <1>0, <1>3, <2>1, <3>1, DoneTurn DEF RecFetch
    <3>2. CASE page # {}
      <4>1. rec' = [rec EXCEPT !.pc = "persist", !.page = page, !.asof = now]
            /\ rec.pc = "fetch"
        BY <1>3, <3>2 DEF RecFetch
      <4>2. /\ \A c \in page : rec.cur <= c
            /\ \A c \in page, b \in Bars : rec.cur <= b /\ b <= c => b \in page
        BY <1>0, FetchKlinesIsAPrefix
      <4> HIDE DEF page
      <4>3. rec'.cur = rec.cur /\ rec'.page = page /\ rec'.asof = now /\ rec'.pc = "persist"
        BY <1>0, <4>1 DEF RecRun
      <4>4. \A b \in page : table'[b] = "final" => IsClosed(b, rec'.asof)
        <5>1. page \subseteq Bars
          BY <1>0, FetchKlinesIsAPrefix DEF page
        <5> QED
          BY <2>1, <4>3, <5>1 DEF TurnsInv, HistInv, FinalRowsAreClosed
      <4> QED
        BY <1>0, <2>1, <4>1, <4>2, <4>3, <4>4 DEF RecTurn, Covered, Stored, IsClosed, CloseOf
    <3> QED
      BY <3>1, <3>2
  <2> QED
    BY <1>0, <2>1, <2>2, <2>3, TurnsSuffices, PrefixStep
<1>4. CASE RecPersist
  <2>1. /\ UpsertBatch(rec.page, rec.asof) /\ rec.pc = "persist"
        /\ rec' = [rec EXCEPT !.pc = "mark"] /\ UNCHANGED <<now, checkpoint, base>>
    BY <1>4 DEF RecPersist
  <2>2. /\ \A b \in Accepted(rec.page) : table'[b] = Content(b, rec.asof)
        /\ \A b \in Bars : Stored(b) => Stored(b)'
        /\ \A b \in Bars \ Accepted(rec.page) : table'[b] = table[b]
    BY <1>0, <2>1, UpsertBatchStores
  <2>3. GaplessPrefix'
    BY <1>0, <2>1, <2>2 DEF GaplessPrefix, Covered
  <2>4. /\ rec'.pc = "mark" /\ rec'.cur = rec.cur /\ rec'.page = rec.page
        /\ rec'.asof = rec.asof
    BY <1>0, <2>1 DEF RecRun
  <2>5. RecTurn'
    BY <1>0, <2>1, <2>2, <2>4 DEF RecTurn, Covered
  <2>6. \A b \in Bars : table'[b] = "final" => table[b] = "final" \/ IsClosed(b, now)
    <3> SUFFICES ASSUME NEW b \in Accepted(rec.page), b \in Bars, table'[b] = "final"
                 PROVE  IsClosed(b, now)
      BY <2>2
    <3>1. IsClosed(b, rec.asof) /\ rec.asof <= now
      BY <1>0, <2>2 DEF Content, RecTurn
    <3> QED
      BY <1>0, <3>1 DEF IsClosed, CloseOf
  <2> QED
    BY <1>0, <2>1, <2>2, <2>3, <2>5, <2>6, TurnsSuffices, PrefixStep
<1>5. CASE RecMark
  <2>1. PICK last \in rec.page :
          /\ IsLast(last, rec.page)
          /\ UpsertCheckpoint("ok", last, last)
          /\ \/ rec' = RecDone("recovered")
             \/ rec' = [rec EXCEPT !.pc = "fetch", !.cur = last + 1,
                                   !.page = {}, !.asof = 0]
    BY <1>5 DEF RecMark
  <2>2. rec.pc = "mark" /\ UNCHANGED <<now, table, base>> /\ checkpoint'.open = last
    BY <1>5, <2>1 DEF RecMark, UpsertCheckpoint
  <2>3. last \in Nat /\ last \in Bars /\ rec.cur <= last
    BY <1>0, <2>2 DEF RecTurn
  <2>4. Covered(base, last + 1)
    <3> SUFFICES ASSUME NEW b \in Bars \ RejectedBars, base <= b, b < last + 1
                 PROVE  Stored(b)
      BY DEF Covered
    <3>1. CASE b < rec.cur
      BY <1>0, <2>2, <3>1 DEF RecTurn, Covered
    <3>2. CASE rec.cur <= b
      <4>1. b <= last
        BY <2>3
      <4>2. b \in Accepted(rec.page)
        BY <1>0, <2>2, <3>2, <4>1 DEF RecTurn, Accepted
      <4>3. \A d \in Accepted(rec.page) : Stored(d)
        BY <2>2 DEF PipelineInv, RecInFlight
      <4> QED
        BY <4>2, <4>3
    <3>3. b \in Nat /\ rec.cur \in Nat
      BY <1>0 DEF RecRun
    <3>4. b < rec.cur \/ rec.cur <= b
      BY <3>3
    <3> QED
      BY <3>1, <3>2, <3>4
  <2>5. checkpoint.open # Null => checkpoint.open < last
    BY <1>0, <2>2, <2>3 DEF RecTurn, Checkpoint, Timestamp
  <2>6. GaplessPrefix'
    BY <2>2, <2>4 DEF GaplessPrefix, Covered, Stored
  <2>7. RecTurn'
    <3>1. CASE rec' = RecDone("recovered")
      BY <1>0, <2>2, <3>1, DoneTurn
    <3>2. CASE rec' = [rec EXCEPT !.pc = "fetch", !.cur = last + 1,
                                   !.page = {}, !.asof = 0]
      <4>1. rec'.pc = "fetch" /\ rec'.cur = last + 1 /\ rec'.asof = 0
        BY <1>0, <3>2 DEF RecRun
      <4>2. Covered(base, last + 1)' /\ base' = base
        BY <2>2, <2>4 DEF Covered, Stored
      <4>3. rec'.asof <= now' /\ checkpoint'.open < rec'.cur
        BY <1>0, <2>2, <2>3, <4>1
      <4> QED
        BY <4>1, <4>2, <4>3 DEF RecTurn, Covered
    <3> QED
      BY <2>1, <3>1, <3>2
  <2> QED
    BY <1>0, <2>2, <2>3, <2>4, <2>5, <2>6, <2>7, TurnsSuffices, PrefixStep
<1> QED
  BY <1>1, <1>2, <1>3, <1>4, <1>5 DEF Recovery, RecLaunch, RecStep

LEMMA TurnsStep ==
    ASSUME InTurns
    PROVE  PipelineInv /\ PipelineInv' /\ TurnsInv /\ [Next]_vars =>
               TurnsInv' /\ [Prefix!Next]_(Prefix!vars)
<1> SUFFICES ASSUME PipelineInv, PipelineInv', TurnsInv, [Next]_vars
             PROVE  TurnsInv' /\ (Prefix!Next \/ UNCHANGED Prefix!vars)
  OBVIOUS
<1>1. CASE Recovery
  BY <1>1, RecoveryTurn
<1>2. ASSUME [HistAloneNext]_histVars, UNCHANGED rec, now' \in {now, now + 1},
             hist'.pc = "idle" \/ rec.pc = "idle",
             rec.pc # "idle" => UNCHANGED <<table, checkpoint, base>>
      PROVE  TurnsInv' /\ (Prefix!Next \/ UNCHANGED Prefix!vars)
  <2>1. HistInv' /\ (Prefix!Next \/ UNCHANGED Prefix!vars)
    BY <1>2, HistInvStep, HistPrefixSteps DEF TurnsInv
  <2>2. rec.asof \in Nat /\ now \in Nat
    BY DEF PipelineInv, RecInFlight, RecRun, StoreInv, StoreTypeOK
  <2>3. RecTurn'
    BY <1>2, <2>2 DEF TurnsInv, RecTurn, Covered, Stored
  <2> QED
    BY <1>2, <2>1, <2>3 DEF TurnsInv
<1>3. CASE Historical
  <2>1. HistNext /\ UNCHANGED rec
    BY <1>3 DEF Historical, HistNext
  <2>2. rec.pc = "idle"
    BY <1>3 DEF Historical, TurnsInv, InTurns, MayLaunch, HistStep, HistFails, HistFetch,
       HistPersist, HistMark, HistFetchFails, HistPersistFails, HistCrash
  <2>3. now' = now
    BY <2>1 DEF HistNext, HistLaunch, HistBegin, HistStep, HistFails, HistFetch, HistPersist,
       HistMark, HistFetchFails, HistPersistFails, HistCrash, storeVars
  <2> QED
    BY <1>2, <2>1, <2>2, <2>3 DEF HistAloneNext
<1>4. CASE Clock \/ UNCHANGED vars
  <2>1. /\ [HistAloneNext]_histVars /\ UNCHANGED <<rec, hist, table, checkpoint, base>>
        /\ now' \in {now, now + 1}
    BY <1>4 DEF Clock, Tick, vars, storeVars, histVars, HistAloneNext
  <2> QED
    BY <1>2, <2>1 DEF TurnsInv
<1> QED
  BY <1>1, <1>3, <1>4 DEF Next, InTurns, Realtime, Resync

LEMMA TurnsInit == Init => TurnsInv
BY HistInvInit DEF Init, TurnsInv, HistInit, HistIdle, RecInit, RecDone, RecTurn, StoreInit

LEMMA TurnsInvariant == ASSUME InTurns PROVE Spec => []TurnsInv
<1>1. PipelineInv /\ PipelineInv' /\ TurnsInv /\ [Next]_vars => TurnsInv'
  BY TurnsStep
<1> QED
  BY <1>1, TurnsInit, PipelineInvariant, PTL DEF Spec

\* A checkpoint that the historical sync and the recovery keep in turns is safe to resume
\* from, wherever either of them failed or was killed.
THEOREM TurnsAreGapless == ASSUME InTurns PROVE Spec => []GaplessPrefix
<1>1. TurnsInv => GaplessPrefix
  BY DEF TurnsInv, HistInv
<1> QED
  BY <1>1, TurnsInvariant, PTL

\* Together they keep the promise of KlinePrefix: recovery fills in what a failed run
\* left behind without ever moving the position past a bar that is missing.
THEOREM TurnsImplementPrefix == ASSUME InTurns PROVE Spec => PrefixKept
<1>1. Init => Prefix!Init
  BY PrefixInit DEF Init
<1>2. PipelineInv /\ PipelineInv' /\ TurnsInv /\ [Next]_vars => [Prefix!Next]_(Prefix!vars)
  BY TurnsStep
<1> QED
  BY <1>1, <1>2, TurnsInvariant, PipelineInvariant, PTL DEF Spec, PrefixKept, Prefix!Spec

\* A recovery that persists has fetched its page after every final row of it was closed,
\* and it marks bars behind which no position lies.
LEMMA TurnsKeep ==
    ASSUME InTurns, PipelineInv, TurnsInv, [Next]_vars
    PROVE  /\ \A b \in Bars : table[b] = "final" => table'[b] = "final"
           /\ checkpoint' # checkpoint =>
                 \/ checkpoint'.status = "error" /\ checkpoint'.open = Null
                 \/ /\ checkpoint'.open \in Bars
                    /\ checkpoint.open # Null => checkpoint.open < checkpoint'.open
<1>1. CASE [HistAloneNext]_histVars
  BY <1>1, FinalRowsStep, CheckpointSteps DEF TurnsInv
<1>2. CASE Recovery
  <2>1. /\ RecTurn /\ HistInv /\ rec.page \in SUBSET Bars /\ rec.cur \in Nat
        /\ checkpoint \in Checkpoint /\ table \in [Bars -> {"absent", "partial", "final"}]
    BY DEF TurnsInv, PipelineInv, StoreInv, StoreTypeOK, RecInFlight, RecRun
  <2>2. CASE RecPersist
    <3>1. /\ rec.pc = "persist" /\ UpsertBatch(rec.page, rec.asof)
          /\ checkpoint' = checkpoint
      BY <2>2 DEF RecPersist
    <3> SUFFICES ASSUME NEW b \in Bars, table[b] = "final"
                 PROVE  table'[b] = "final"
      BY <3>1
    <3>2. CASE b \in Accepted(rec.page)
      <4>1. IsClosed(b, rec.asof)
        BY <2>1, <3>1, <3>2 DEF RecTurn, Accepted
      <4> QED
        BY <3>1, <3>2, <4>1 DEF UpsertBatch, Content
    <3>3. CASE b \notin Accepted(rec.page)
      BY <3>1, <3>3 DEF UpsertBatch
    <3> QED
      BY <3>2, <3>3
  <2>3. CASE RecMark
    <3>1. PICK last \in rec.page :
             rec.pc = "mark" /\ UpsertCheckpoint("ok", last, last) /\ table' = table
      BY <2>3 DEF RecMark
    <3>2. last \in Bars /\ last \in Nat /\ rec.cur <= last
      BY <2>1, <3>1 DEF RecTurn
    <3>3. checkpoint.open # Null => checkpoint.open \in Nat /\ checkpoint.open < rec.cur
      BY <2>1, <3>1 DEF RecTurn, Checkpoint, Timestamp
    <3> QED
      BY <2>1, <3>1, <3>2, <3>3 DEF UpsertCheckpoint
  <2>4. CASE RecFails
    <3>1. rec.cp.open = Null
      BY <2>4 DEF RecFails, PipelineInv, RecInFlight
    <3> QED
      BY <2>4, <3>1 DEF RecFails, UpsertCheckpoint
  <2>5. CASE RecLaunch \/ RecFetch \/ RecCrash
    BY <2>5 DEF RecLaunch, RecBegin, RecBeginEmpty, RecFetch, RecCrash, storeVars
  <2> QED
    BY <1>2, <2>2, <2>3, <2>4, <2>5 DEF Recovery, RecStep
<1>3. CASE Historical
  BY <1>1, <1>3 DEF Historical, HistAloneNext, HistNext
<1>4. CASE Clock \/ UNCHANGED vars
  BY <1>1, <1>4 DEF Clock, vars, histVars, HistAloneNext
<1> QED
  BY <1>2, <1>3, <1>4 DEF Next, InTurns, Realtime, Resync

\* The invariant of the historical sync survives recoveries between its runs.
THEOREM TurnsKeepHistInv == ASSUME InTurns PROVE Spec => []HistInv
<1>1. TurnsInv => HistInv
  BY DEF TurnsInv
<1> QED
  BY <1>1, TurnsInvariant, PTL

\* Neither of the two ever replaces the row of a closed bar by an in-progress snapshot.
THEOREM TurnsFinalRowsStay == ASSUME InTurns PROVE Spec => FinalRowsStay
<1>1. PipelineInv /\ TurnsInv /\ [Next]_vars =>
         [\A b \in Bars : table[b] = "final" => table'[b] = "final"]_table
  BY TurnsKeep
<1> QED
  BY <1>1, TurnsInvariant, PipelineInvariant, PTL DEF Spec, FinalRowsStay

\* The position they share moves forward, or becomes NULL with status error.
THEOREM TurnsPositionAdvances == ASSUME InTurns PROVE Spec => PositionAdvances
<1> DEFINE A == checkpoint.open # Null /\ checkpoint'.open # checkpoint.open =>
          \/ checkpoint'.status = "error" /\ checkpoint'.open = Null
          \/ checkpoint'.open # Null /\ checkpoint'.open > checkpoint.open
<1>1. PipelineInv /\ TurnsInv /\ [Next]_vars => [A]_checkpoint
  <2> SUFFICES ASSUME PipelineInv, TurnsInv, [Next]_vars, checkpoint' # checkpoint,
                      checkpoint.open # Null
               PROVE  \/ checkpoint'.status = "error" /\ checkpoint'.open = Null
                      \/ checkpoint'.open # Null /\ checkpoint'.open > checkpoint.open
    OBVIOUS
  <2>1. checkpoint.open \in Nat
    BY DEF PipelineInv, StoreInv, StoreTypeOK, Checkpoint, Timestamp
  <2>2. \/ checkpoint'.status = "error" /\ checkpoint'.open = Null
        \/ checkpoint'.open \in Nat /\ checkpoint.open < checkpoint'.open
    BY TurnsKeep
  <2> QED
    BY <2>1, <2>2
<1> QED
  BY <1>1, TurnsInvariant, PipelineInvariant, PTL DEF Spec, PositionAdvances
=============================================================================
