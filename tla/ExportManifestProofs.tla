-------------------------- MODULE ExportManifestProofs --------------------------
(***************************************************************************)
(* Proofs about the dataset files and their manifest rows, for any number  *)
(* of paths, export processes, bars and faults: the newest row of a        *)
(* settled path is true of its file, a rebuild repairs what it can read,   *)
(* and the audit's exit code is right.                                     *)
(***************************************************************************)
EXTENDS ExportManifest, FiniteSetTheorems, SequenceTheorems, TLAPS

USE ExportAssumption

-----------------------------------------------------------------------------
(* The inductive invariant.                                                *)

\* An export that ran alone so far: nobody else is on its path, so its file is
\* the one it wrote and its hash that file's.
ExportAlone(e) ==
    LET x == ex[e] IN
    x.solo =>
        /\ OnPath(x.path) = {e} /\ ~x.mixed
        /\ x.pc \in {"hash", "insert"} =>
              file[x.path].kind = "full" /\ file[x.path].bars = x.bars
        /\ x.pc = "insert" => x.hash = file[x.path]

\* The bars of an export lie in the range it was asked for.
InRange(e) ==
    ex[e].pc # "idle" =>
        \A b \in ex[e].bars : ex[e].range[1] <= b[1] /\ b[1] <= ex[e].range[2]

ExportsInv == \A e \in Exporters : ExportAlone(e) /\ InRange(e)

\* The files a rebuild has behind it: what can be read has an accepted row.
Repaired(i) ==
    file[PathOrder[i]].kind = "full" =>
        \E j \in DOMAIN rows : rows[j].path = PathOrder[i] /\ Accepted(rows[j])

RebuildInv ==
    /\ rb.pc \in {"hash", "insert"} => rb.left # {}
    /\ rb.solo =>
          /\ \A e \in Exporters : ex[e].pc = "idle"
          /\ rb.pc \in {"hash", "insert"} =>
                file[RbPath].kind = "full" /\ file[RbPath].bars = rb.read
          /\ rb.pc = "insert" => rb.hash = file[RbPath]
          /\ ~rb.dry /\ ~rb.skipped =>
                \A i \in DOMAIN PathOrder \ rb.left : Repaired(i)

\* What an audit has counted, as long as nothing changed since it began.
Unfound(row) == ~Resolves(row) \/ file[row.path].kind # "full"
AuditInv ==
    /\ au.since <= changes
    /\ au.pc = "read" => au.row \in au.left /\ Resolves(rows[au.row])
    /\ au.pc # "idle" /\ au.since = changes =>
          /\ au.failures = 0 <=> \A i \in au.all \ au.left : Accepted(rows[i])
          /\ au.missing > 0 => \E i \in au.all : Unfound(rows[i])
          /\ au.pc = "read" =>
                (au.drift <=> file[rows[au.row].path] # rows[au.row].hash)

ExportInv == TypeOK /\ SettledPathDescribed /\ ExportsInv /\ RebuildInv /\ AuditInv

-----------------------------------------------------------------------------
(* Lemmas about the operators.                                             *)

\* A finite set of numbers has a smallest and a largest element: from the
\* well-foundedness of strict inclusion, of the elements up to k and from k on.
LEMMA MinAndMax ==
    ASSUME NEW S \in SUBSET Nat, IsFiniteSet(S), S # {}
    PROVE  /\ Min(S) \in S /\ \A k \in S : Min(S) <= k
           /\ Max(S) \in S /\ \A k \in S : k <= Max(S)
<1> DEFINE low(k) == {j \in S : j <= k}
           high(k) == {j \in S : j >= k}
           R == StrictSubsetOrdering(S)
<1>1. IsWellFoundedOn(R, SUBSET S)
  BY FS_StrictSubsetOrderingWellFounded, FS_FiniteSubsetsOfFinite
<1>2. \E m \in S : \A k \in S : m <= k
  <2> DEFINE T == {low(k) : k \in S}
  <2>1. T \subseteq SUBSET S /\ T # {}
    OBVIOUS
  <2> HIDE DEF R
  <2>2. PICK x \in T : \A y \in T : ~(<<y, x>> \in R)
    BY ZenonT(30), <1>1, <2>1, WFMin
  <2>3. PICK m \in S : x = low(m)
    OBVIOUS
  <2>4. ASSUME NEW k \in S, k < m PROVE FALSE
    <3>0. k \in Nat /\ m \in Nat /\ \A j \in S : j \in Nat
      OBVIOUS
    <3>1. low(k) \in T /\ low(k) \in SUBSET S /\ low(m) \in SUBSET S
      OBVIOUS
    <3>2. m \in low(m) /\ m \notin low(k)
      BY <2>4, <3>0
    <3>3. \A j \in low(k) : j \in low(m)
      BY <2>4, <3>0
    <3> HIDE DEF low
    <3> QED
      BY <2>2, <2>3, <3>1, <3>2, <3>3 DEF R, StrictSubsetOrdering
  <2> QED
    BY <2>4
<1>3. \E m \in S : \A k \in S : m >= k
  <2> DEFINE T == {high(k) : k \in S}
  <2>1. T \subseteq SUBSET S /\ T # {}
    BY ZenonT(30)
  <2> HIDE DEF R
  <2>2. PICK x \in T : \A y \in T : ~(<<y, x>> \in R)
    BY ZenonT(30), <1>1, <2>1, WFMin
  <2>3. PICK m \in S : x = high(m)
    OBVIOUS
  <2>4. ASSUME NEW k \in S, m < k PROVE FALSE
    <3>0. k \in Nat /\ m \in Nat /\ \A j \in S : j \in Nat
      OBVIOUS
    <3>1. high(k) \in T /\ high(k) \in SUBSET S /\ high(m) \in SUBSET S
      OBVIOUS
    <3>2. m \in high(m) /\ m \notin high(k)
      BY <2>4, <3>0
    <3>3. \A j \in high(k) : j \in high(m)
      BY <2>4, <3>0
    <3> HIDE DEF high
    <3> QED
      BY <2>2, <2>3, <3>1, <3>2, <3>3 DEF R, StrictSubsetOrdering
  <2> QED
    BY <2>4
<1>4. Min(S) \in S /\ \A k \in S : Min(S) <= k
  BY <1>2 DEF Min
<1>5. Max(S) \in S /\ \A k \in S : Max(S) >= k
  BY <1>3 DEF Max
<1> QED
  BY <1>4, <1>5

\* The path of the next file is one of the dataset paths.
LEMMA RbPathIsPath ==
    ASSUME TypeOK, rb.left # {}
    PROVE  Min(rb.left) \in rb.left /\ Min(rb.left) \in DOMAIN PathOrder /\ RbPath \in Paths
<1>1. rb.left \subseteq 1..Len(PathOrder)
  BY DEF TypeOK, Rebuild
<1>2. IsFiniteSet(rb.left)
  BY <1>1, FS_Interval, FS_Subset
<1>3. Min(rb.left) \in rb.left
  BY <1>1, <1>2, MinAndMax
<1> QED
  BY <1>1, <1>3 DEF RbPath, Paths, Range

\* The times of a file lie between its first and its last time.
LEMMA FirstAndLast ==
    ASSUME NEW bars \in SUBSET Bars
    PROVE  /\ FirstTime(bars) \in Times \cup {0} /\ LastTime(bars) \in Times \cup {0}
           /\ \A t \in TimesOf(bars) : FirstTime(bars) <= t /\ t <= LastTime(bars)
<1>1. TimesOf(bars) \subseteq Times
  BY DEF TimesOf, Bars
<1>2. IsFiniteSet(TimesOf(bars)) /\ TimesOf(bars) \subseteq Nat
  BY <1>1, FS_Subset
<1>3. CASE bars = {}
  BY <1>3 DEF FirstTime, LastTime, TimesOf
<1>4. CASE bars # {}
  <2>1. TimesOf(bars) # {}
    BY <1>4 DEF TimesOf
  <2> QED
    BY <1>1, <1>2, <1>4, <2>1, MinAndMax DEF FirstTime, LastTime
<1> QED
  BY <1>3, <1>4

\* Every set of bars is finite, and is counted.
LEMMA BarsAreCounted ==
    ASSUME NEW bars \in SUBSET Bars PROVE Cardinality(bars) \in Nat
<1>1. IsFiniteSet(1..MaxStores + 1)
  <2>1. MaxStores + 1 \in Int
    OBVIOUS
  <2> QED
    BY <2>1, FS_Interval
<1>2. IsFiniteSet(Bars)
  BY <1>1, FS_Product DEF Bars
<1> QED
  BY <1>2, FS_Subset, FS_CardinalityType

\* What a new row changes: it is the newest of its path, and nothing else.
LEMMA NewestRow ==
    ASSUME rows \in Seq(Row), NEW row \in Row, rows' = Append(rows, row), NEW p
    PROVE  /\ p = row.path => Newest(p)' = Len(rows) + 1
           /\ p # row.path /\ (\E i \in DOMAIN rows : rows[i].path = p) =>
                 Newest(p)' = Newest(p) /\ Newest(p) \in DOMAIN rows
<1> DEFINE old == {i \in DOMAIN rows : rows[i].path = p}
           new == {i \in DOMAIN rows' : rows'[i].path = p}
<1>1. /\ DOMAIN rows = 1..Len(rows) /\ DOMAIN rows' = 1..(Len(rows) + 1)
      /\ Len(rows) \in Nat
      /\ rows'[Len(rows) + 1] = row
      /\ \A i \in 1..Len(rows) : rows'[i] = rows[i]
  OBVIOUS
<1>2. CASE p = row.path
  <2>1. Len(rows) + 1 \in new /\ \A i \in new : i \in Nat /\ i <= Len(rows) + 1
    BY <1>1, <1>2
  <2> HIDE DEF new
  <2>2. Max(new) = Len(rows) + 1
    BY <1>1, <2>1 DEF Max
  <2> QED
    BY <1>2, <2>2 DEF Newest, new
<1>3. CASE p # row.path
  <2>1. new = old
    BY <1>1, <1>3
  <2>2. old \subseteq 1..Len(rows) /\ IsFiniteSet(1..Len(rows))
    BY <1>1, FS_Interval
  <2> HIDE DEF old
  <2>3. old \in SUBSET Nat
    BY <2>2
  <2>5. IsFiniteSet(old)
    BY <2>2, FS_Subset
  <2>6. old # {} => Max(old) \in old
    BY <2>3, <2>5, MinAndMax
  <2> QED
    BY <1>1, <1>3, <2>1, <2>6 DEF Newest, old
<1> QED
  BY <1>2, <1>3

-----------------------------------------------------------------------------
(* Types.                                                                  *)

LEMMA Contents ==
    /\ NoFile \in Content
    /\ \A n \in Nat : Torn(n) \in Content
    /\ \A bars \in SUBSET Bars : Full(bars) \in Content
BY DEF NoFile, Torn, Full, Content

LEMMA Idles ==
    /\ PathOrder[1] \in Paths
    /\ IdleExport \in Export /\ IdleRebuild \in Rebuild /\ IdleAudit \in Audit
<1>1. PathOrder[1] \in Paths
  BY DEF Paths, Range
<1>2. IdleExport \in Export
  BY <1>1, Contents DEF IdleExport, Export
<1> QED
  BY <1>1, <1>2, Contents DEF IdleRebuild, Rebuild, IdleAudit, Audit

LEMMA QueriedBars ==
    ASSUME TypeOK, NEW p \in Paths, NEW r
    PROVE  /\ QueryRange(p, r) \in SUBSET Bars
           /\ \A b \in QueryRange(p, r) : r[1] <= b[1] /\ b[1] <= r[2]
<1>1. \A t \in Times : db[p][t] > 0 => db[p][t] \in 1..MaxStores + 1
  BY DEF TypeOK
<1> QED
  BY <1>1 DEF QueryRange, Bars

LEMMA SetFileType ==
    ASSUME TypeOK, NEW p \in Paths, NEW c \in Content, SetFile(p, c)
    PROVE  /\ file' \in [Paths -> Content] /\ settled' \in [Paths -> BOOLEAN]
           /\ changes' \in Nat
BY DEF TypeOK, SetFile

LEMMA InsertType ==
    ASSUME TypeOK, NEW row \in Row, NEW alone \in BOOLEAN, Insert(row, alone)
    PROVE  /\ rows' \in Seq(Row) /\ settled' \in [Paths -> BOOLEAN]
           /\ changes' \in Nat /\ DOMAIN rows \subseteq DOMAIN rows'
<1>1. rows' \in Seq(Row) /\ DOMAIN rows \subseteq DOMAIN rows'
  BY DEF TypeOK, Insert
<1>2. row.path \in Paths
  BY DEF Row
<1>3. settled' \in [Paths -> BOOLEAN] /\ changes' \in Nat
  BY <1>2 DEF TypeOK, Insert
<1> QED
  BY <1>1, <1>3

LEMMA InitType == Init => TypeOK
<1> SUFFICES ASSUME Init PROVE TypeOK
  OBVIOUS
<1>1. ex \in [Exporters -> Export] /\ rb \in Rebuild /\ au \in Audit
  BY Idles DEF Init
<1>2. file \in [Paths -> Content] /\ rows \in Seq(Row)
  BY Contents DEF Init
<1>3. au.left \subseteq au.all /\ au.all \subseteq DOMAIN rows
  BY DEF Init, IdleAudit
<1>4. db \in [Paths -> [Times -> 0..stores + 1]]
  BY DEF Init
<1>5. /\ settled \in [Paths -> BOOLEAN] /\ changes \in Nat
      /\ stores \in 0..MaxStores /\ runs \in 0..MaxRuns /\ faults \in 0..MaxFaults
  BY DEF Init
<1> QED
  BY <1>1, <1>2, <1>3, <1>4, <1>5 DEF TypeOK

LEMMA BoundsType ==
    ASSUME TypeOK, UNCHANGED bounds \/ StartRun \/ Fault
    PROVE  /\ UNCHANGED stores
           /\ stores' \in 0..MaxStores /\ runs' \in 0..MaxRuns /\ faults' \in 0..MaxFaults
BY DEF TypeOK, bounds, StartRun, Fault

\* The row of an export.
ExRow(e, form) ==
    [path |-> ex[e].path, form |-> form, start |-> ex[e].range[1], end |-> ex[e].range[2],
     count |-> Cardinality(ex[e].bars), hash |-> ex[e].hash]

LEMMA ExportedRow ==
    ASSUME TypeOK, NEW e \in Exporters, NEW form \in {"absolute", "started"}
    PROVE  ExRow(e, form) \in Row
<1>1. ex[e] \in Export
  BY DEF TypeOK
<1>2. ex[e].range[1] \in Times \cup {0} /\ ex[e].range[2] \in Times \cup {0}
  BY <1>1 DEF Export
<1>3. Cardinality(ex[e].bars) \in Nat
  BY <1>1, BarsAreCounted DEF Export
<1> QED
  BY <1>1, <1>2, <1>3 DEF ExRow, Row, Export

LEMMA ExportsType ==
    ASSUME TypeOK, NEW e \in Exporters,
           \/ ExQueries(e) \/ ExOpens(e) \/ ExFlushes(e) \/ ExWritten(e)
           \/ ExHashes(e) \/ ExInserts(e) \/ ExStops(e)
    PROVE  TypeOK'
<1>1. UNCHANGED bounds \/ StartRun \/ Fault
  BY DEF ExQueries, ExOpens, ExFlushes, ExWritten, ExHashes, ExInserts, ExStops
<1>2. UNCHANGED <<db, au>>
  BY DEF ExQueries, ExOpens, ExFlushes, ExWritten, ExHashes, ExInserts, ExStops
<1>3. /\ ex[e] \in Export /\ ex[e].path \in Paths /\ ex[e].bars \in SUBSET Bars
      /\ ex[e].solo \in BOOLEAN /\ ex[e].hash \in Content
      /\ Torn(changes + 1) \in Content /\ Full(ex[e].bars) \in Content /\ NoFile \in Content
  BY Contents DEF TypeOK, Export
<1>4. /\ ex' \in [Exporters -> Export] /\ rb' \in Rebuild
      /\ file' \in [Paths -> Content] /\ settled' \in [Paths -> BOOLEAN] /\ changes' \in Nat
      /\ rows' \in Seq(Row) /\ DOMAIN rows \subseteq DOMAIN rows'
  <2>1. CASE ExQueries(e)
    <3>1. PICK p \in Paths, r \in Ranges :
             ex' = [f \in Exporters |->
                      IF f = e
                      THEN [IdleExport EXCEPT
                               !.pc = "open", !.path = p, !.range = r,
                               !.bars = QueryRange(p, r),
                               !.solo = OnPath(p) = {} /\ rb.pc = "idle"]
                      ELSE [ex[f] EXCEPT !.solo = @ /\ f \notin OnPath(p)]]
      BY <2>1 DEF ExQueries
    <3>2. QueryRange(p, r) \in SUBSET Bars
      BY QueriedBars
    <3>3. [IdleExport EXCEPT !.pc = "open", !.path = p, !.range = r,
                             !.bars = QueryRange(p, r),
                             !.solo = OnPath(p) = {} /\ rb.pc = "idle"] \in Export
      BY <3>2, Idles DEF Export
    <3>4. ASSUME NEW f \in Exporters
          PROVE  [ex[f] EXCEPT !.solo = @ /\ f \notin OnPath(p)] \in Export
      <4>1. ASSUME NEW b \in BOOLEAN PROVE [ex[f] EXCEPT !.solo = b] \in Export
        <5>1. ex[f] \in Export
          BY DEF TypeOK
        <5> QED
          BY <5>1 DEF Export
      <4>2. (ex[f].solo /\ f \notin OnPath(p)) \in BOOLEAN
        OBVIOUS
      <4> QED
        BY <4>1, <4>2
    <3>5. rb' \in Rebuild
      BY <2>1 DEF ExQueries, TypeOK, Rebuild
    <3> QED
      BY <2>1, <3>1, <3>3, <3>4, <3>5 DEF ExQueries, TypeOK
  <2>2. CASE ExOpens(e)
    <3>1. SetFile(ex[e].path, Torn(changes + 1)) /\ UNCHANGED <<rows, rb>>
      BY <2>2 DEF ExOpens
    <3>2. ASSUME NEW f \in Exporters, NEW b \in BOOLEAN
          PROVE  /\ [ex[f] EXCEPT !.pc = "write", !.mixed = b] \in Export
                 /\ [ex[f] EXCEPT !.mixed = @ \/ b] \in Export
      <4>1. ex[f] \in Export /\ (ex[f].mixed \/ b) \in BOOLEAN
        BY DEF TypeOK
      <4> QED
        BY <4>1 DEF Export
    <3>3. ex' \in [Exporters -> Export]
      BY <2>2, <3>2 DEF ExOpens
    <3> QED
      BY <1>3, <3>1, <3>3, SetFileType DEF TypeOK
  <2>3. CASE ExFlushes(e)
    <3>1. SetFile(ex[e].path, Torn(changes + 1)) /\ UNCHANGED <<rows, rb, ex>>
      BY <2>3 DEF ExFlushes
    <3> QED
      BY <1>3, <3>1, SetFileType DEF TypeOK
  <2>4. CASE ExWritten(e)
    <3>1. /\ SetFile(ex[e].path, Full(ex[e].bars)) \/ UNCHANGED <<file, changes, settled>>
          /\ UNCHANGED <<rows, rb>> /\ ex' = [ex EXCEPT ![e].pc = "hash"]
      BY <2>4 DEF ExWritten
    <3>0. [ex[e] EXCEPT !.pc = "hash"] \in Export
      BY <1>3 DEF Export
    <3>2. ex' \in [Exporters -> Export]
      BY <3>0, <3>1 DEF TypeOK
    <3> QED
      BY <1>3, <3>1, <3>2, SetFileType DEF TypeOK
  <2>5. CASE ExHashes(e)
    <3>1. UNCHANGED <<rows, rb, file, settled, changes>>
      BY <2>5 DEF ExHashes
    <3>2. file[ex[e].path] \in Content
      BY <1>3 DEF TypeOK
    <3>3. [ex[e] EXCEPT !.pc = "insert", !.hash = file[ex[e].path]] \in Export
      BY <1>3, <3>2 DEF Export
    <3>4. ex' = [ex EXCEPT ![e] = IdleExport]
          \/ ex' = [ex EXCEPT ![e] = [@ EXCEPT !.pc = "insert", !.hash = file[ex[e].path]]]
      BY <2>5 DEF ExHashes, TypeOK
    <3>5. ex' \in [Exporters -> Export]
      BY <3>3, <3>4, Idles DEF TypeOK
    <3> QED
      BY <3>1, <3>5 DEF TypeOK
  <2>6. CASE ExInserts(e)
    <3>1. PICK form \in {"absolute", "started"} : Insert(ExRow(e, form), ex[e].solo)
      BY <2>6 DEF ExInserts, ExRow
    <3>2. ex' \in [Exporters -> Export]
      BY <2>6, Idles DEF ExInserts, TypeOK
    <3>3. UNCHANGED <<file, rb>>
      BY <2>6 DEF ExInserts
    <3> QED
      BY <1>3, <3>1, <3>2, <3>3, ExportedRow, InsertType DEF TypeOK
  <2>7. CASE ExStops(e)
    <3>1. SetFile(ex[e].path, NoFile) \/ UNCHANGED <<file, changes, settled>>
      BY <2>7 DEF ExStops
    <3>2. UNCHANGED <<rows, rb>> /\ ex' = [ex EXCEPT ![e] = IdleExport]
      BY <2>7 DEF ExStops
    <3> QED
      BY <1>3, <3>1, <3>2, Idles, SetFileType DEF TypeOK
  <2> QED
    BY <2>1, <2>2, <2>3, <2>4, <2>5, <2>6, <2>7
<1>5. stores' = stores /\ stores' \in 0..MaxStores /\ runs' \in 0..MaxRuns
      /\ faults' \in 0..MaxFaults
  BY <1>1, BoundsType
<1>6. db' \in [Paths -> [Times -> 0..stores' + 1]]
  BY <1>2, <1>5 DEF TypeOK
<1>7. au' \in Audit /\ au'.left \subseteq au'.all /\ au'.all \subseteq DOMAIN rows'
  BY <1>2, <1>4 DEF TypeOK
<1> QED
  BY <1>4, <1>5, <1>6, <1>7 DEF TypeOK

\* The row of a rebuild.
RbRow ==
    [path |-> RbPath, form |-> "root", start |-> FirstTime(rb.read),
     end |-> LastTime(rb.read), count |-> Cardinality(rb.read), hash |-> rb.hash]

LEMMA RebuiltRow ==
    ASSUME TypeOK, rb.left # {} PROVE RbRow \in Row
<1>1. rb.read \in SUBSET Bars /\ rb.hash \in Content
  BY DEF TypeOK, Rebuild
<1> QED
  BY <1>1, RbPathIsPath, FirstAndLast, BarsAreCounted DEF RbRow, Row

LEMMA SkipType ==
    ASSUME TypeOK
    PROVE  /\ Skip \in Rebuild /\ [Skip EXCEPT !.skipped = TRUE] \in Rebuild
           /\ Skip.pc = "read" /\ Skip.left = rb.left \ {Min(rb.left)}
           /\ Skip.solo = rb.solo /\ Skip.dry = rb.dry /\ Skip.skipped = rb.skipped
BY DEF TypeOK, Rebuild, Skip

LEMMA RebuildType ==
    ASSUME TypeOK, rb.pc = "insert" => rb.left # {}, rb.pc = "hash" => rb.left # {},
           RbStarts \/ RbReads \/ RbHashes \/ RbInserts \/ RbInsertFails \/ RbEnds \/ RbKilled
    PROVE  TypeOK'
<1>1. UNCHANGED bounds \/ StartRun \/ Fault
  BY DEF RbStarts, RbReads, RbHashes, RbInserts, RbInsertFails, RbEnds, RbKilled
<1>2. UNCHANGED <<db, file, au>>
  BY DEF RbStarts, RbReads, RbHashes, RbInserts, RbInsertFails, RbEnds, RbKilled
<1>3. ex' \in [Exporters -> Export]
  <2>1. CASE RbStarts
    <3>1. ASSUME NEW f \in Exporters PROVE [ex[f] EXCEPT !.solo = FALSE] \in Export
      BY ZenonT(30), SMTT(30) DEF TypeOK, Export
    <3> QED
      BY <2>1, <3>1 DEF RbStarts
  <2> QED
    BY <2>1 DEF TypeOK, RbReads, RbHashes, RbInserts, RbInsertFails, RbEnds, RbKilled
<1>4. rb' \in Rebuild
  <2>1. CASE RbStarts
    <3>1. ASSUME NEW dry \in BOOLEAN, NEW left \in SUBSET DOMAIN PathOrder,
                 NEW solo \in BOOLEAN
          PROVE  [IdleRebuild EXCEPT !.pc = "read", !.dry = dry, !.left = left,
                                     !.solo = solo] \in Rebuild
      BY Idles DEF Rebuild
    <3>2. PICK dry \in BOOLEAN :
             rb' = [IdleRebuild EXCEPT
                       !.pc = "read", !.dry = dry,
                       !.left = {i \in DOMAIN PathOrder : Exists(PathOrder[i])},
                       !.solo = \A e \in Exporters : ex[e].pc = "idle"]
      BY <2>1 DEF RbStarts
    <3>3. /\ {i \in DOMAIN PathOrder : Exists(PathOrder[i])} \in SUBSET DOMAIN PathOrder
          /\ (\A e \in Exporters : ex[e].pc = "idle") \in BOOLEAN
      OBVIOUS
    <3> QED
      BY <3>1, <3>2, <3>3
  <2>2. CASE RbReads
    <3>1. file[RbPath] \in Content
      BY <2>2, RbPathIsPath DEF RbReads, TypeOK
    <3>2. [rb EXCEPT !.pc = "hash", !.read = file[RbPath].bars] \in Rebuild
      BY <3>1 DEF TypeOK, Rebuild, Content
    <3> QED
      BY <2>2, <3>2, SkipType DEF RbReads
  <2>3. CASE RbHashes
    <3>1. file[RbPath] \in Content
      BY <2>3, RbPathIsPath DEF RbHashes, TypeOK
    <3>2. [rb EXCEPT !.pc = "insert", !.hash = file[RbPath]] \in Rebuild
      BY <3>1 DEF TypeOK, Rebuild
    <3> QED
      BY <2>3, <3>2, SkipType DEF RbHashes
  <2>4. CASE RbInserts \/ RbInsertFails
    BY <2>4, SkipType DEF RbInserts, RbInsertFails
  <2>5. CASE RbEnds \/ RbKilled
    BY <2>5, Idles DEF RbEnds, RbKilled
  <2> QED
    BY <2>1, <2>2, <2>3, <2>4, <2>5
<1>5. /\ rows' \in Seq(Row) /\ settled' \in [Paths -> BOOLEAN]
      /\ changes' \in Nat /\ DOMAIN rows \subseteq DOMAIN rows'
  <2>1. CASE RbInserts
    <3>1. Insert(RbRow, rb.solo) /\ rb.left # {}
      BY <2>1 DEF RbInserts, RbRow
    <3>2. rb.solo \in BOOLEAN
      BY DEF TypeOK, Rebuild
    <3> QED
      BY <3>1, <3>2, RebuiltRow, InsertType
  <2> QED
    BY <2>1 DEF TypeOK, RbStarts, RbReads, RbHashes, RbInsertFails, RbEnds, RbKilled
<1>6. stores' = stores /\ stores' \in 0..MaxStores /\ runs' \in 0..MaxRuns
      /\ faults' \in 0..MaxFaults
  BY <1>1, BoundsType
<1>7. db' \in [Paths -> [Times -> 0..stores' + 1]] /\ file' \in [Paths -> Content]
  BY <1>2, <1>6 DEF TypeOK
<1>8. au' \in Audit /\ au'.left \subseteq au'.all /\ au'.all \subseteq DOMAIN rows'
  BY <1>2, <1>5 DEF TypeOK
<1> QED
  BY <1>3, <1>4, <1>5, <1>6, <1>7, <1>8 DEF TypeOK

\* What the audit of one row leaves behind.
LEMMA DoneType ==
    ASSUME NEW a \in Audit, NEW failed \in BOOLEAN, NEW notFound \in BOOLEAN
    PROVE  /\ Done(a, failed, notFound) \in Audit
           /\ Done(a, failed, notFound).pc = "open"
           /\ Done(a, failed, notFound).all = a.all
           /\ Done(a, failed, notFound).left = a.left \ {a.row}
           /\ Done(a, failed, notFound).since = a.since
           /\ Done(a, failed, notFound).failures = 0 <=> a.failures = 0 /\ ~failed
           /\ Done(a, failed, notFound).missing > 0 <=> a.missing > 0 \/ notFound
<1> DEFINE n == a.failures + (IF failed THEN 1 ELSE 0)
           k == a.missing + (IF notFound THEN 1 ELSE 0)
           d == [a EXCEPT !.pc = "open", !.left = @ \ {a.row}, !.drift = FALSE,
                          !.failures = n, !.missing = k]
<1>1. a.failures \in Nat /\ a.missing \in Nat /\ a.left \in SUBSET Nat
  BY DEF Audit
<1>2. /\ n \in Nat /\ k \in Nat
      /\ n = 0 <=> a.failures = 0 /\ ~failed
      /\ k > 0 <=> a.missing > 0 \/ notFound
  BY <1>1
<1>3. Done(a, failed, notFound) = d
  BY DEF Done
<1> HIDE DEF n, k
<1>4. /\ d \in Audit /\ d.pc = "open" /\ d.all = a.all /\ d.left = a.left \ {a.row}
      /\ d.since = a.since /\ d.failures = n /\ d.missing = k
  BY <1>2 DEF Audit
<1> HIDE DEF d
<1> QED
  BY <1>2, <1>3, <1>4

LEMMA AuditType ==
    ASSUME TypeOK, AuLists \/ AuOpens \/ AuReads \/ AuEnds
    PROVE  TypeOK'
<1>1. UNCHANGED bounds \/ StartRun
  BY DEF AuLists, AuOpens, AuReads, AuEnds
<1>2. UNCHANGED <<db, file, rows, ex, rb, changes, settled>>
  BY DEF AuLists, AuOpens, AuReads, AuEnds
<1>3. au' \in Audit /\ au'.left \subseteq au'.all /\ au'.all \subseteq DOMAIN rows
  <2>0. au \in Audit /\ au.left \subseteq au.all /\ au.all \subseteq DOMAIN rows
        /\ DOMAIN rows \in SUBSET Nat /\ changes \in Nat
    BY DEF TypeOK
  <2>1. CASE AuLists
    <3>1. PICK all \in {DOMAIN rows, {}} :
             au' = [IdleAudit EXCEPT !.pc = "open", !.all = all, !.left = all,
                                     !.since = changes]
      BY <2>1 DEF AuLists
    <3>2. all \in SUBSET Nat /\ all \subseteq DOMAIN rows
      BY <2>0
    <3> QED
      BY <2>0, <3>1, <3>2, Idles DEF Audit
  <2>2. CASE AuOpens
    <3>1. PICK i \in au.left :
             au' = IF ~Resolves(rows[i]) \/ ~Exists(rows[i].path)
                   THEN Done([au EXCEPT !.row = i], TRUE, TRUE)
                   ELSE [au EXCEPT !.pc = "read", !.row = i,
                                   !.drift = file[rows[i].path] # rows[i].hash]
      BY <2>2 DEF AuOpens
    <3>2. [au EXCEPT !.row = i] \in Audit
      BY <2>0 DEF Audit
    <3>3. /\ [au EXCEPT !.row = i].all = au.all /\ [au EXCEPT !.row = i].left = au.left
          /\ [au EXCEPT !.row = i].row = i
      BY <2>0 DEF Audit
    <3>4. ASSUME NEW d \in BOOLEAN
          PROVE  [au EXCEPT !.pc = "read", !.row = i, !.drift = d] \in Audit
      BY <2>0 DEF Audit
    <3>5. [au EXCEPT !.pc = "read", !.row = i, !.drift = file[rows[i].path] # rows[i].hash]
             \in Audit
      BY <3>4
    <3>6. CASE ~Resolves(rows[i]) \/ ~Exists(rows[i].path)
      BY ZenonT(30), <2>0, <3>1, <3>2, <3>3, <3>6, DoneType
    <3>7. CASE ~(~Resolves(rows[i]) \/ ~Exists(rows[i].path))
      BY <2>0, <3>1, <3>5, <3>7 DEF Audit
    <3> QED
      BY <3>6, <3>7
  <2>3. CASE AuReads
    <3>1. \E failed \in BOOLEAN, notFound \in BOOLEAN : au' = Done(au, failed, notFound)
      BY <2>3 DEF AuReads
    <3> QED
      BY <2>0, <3>1, DoneType
  <2>4. CASE AuEnds
    <3>1. \E x \in {"success", "audit_failure", "validation_error"} :
             au' = [IdleAudit EXCEPT !.exit = x]
      BY <2>4 DEF AuEnds
    <3> QED
      BY <3>1, Idles DEF IdleAudit, Audit
  <2> QED
    BY <2>1, <2>2, <2>3, <2>4
<1>4. stores' = stores /\ stores' \in 0..MaxStores /\ runs' \in 0..MaxRuns
      /\ faults' \in 0..MaxFaults
  BY <1>1, BoundsType
<1> QED
  BY <1>2, <1>3, <1>4 DEF TypeOK

LEMMA StoreBarType == TypeOK /\ StoreBar => TypeOK'
<1> SUFFICES ASSUME TypeOK, StoreBar PROVE TypeOK'
  OBVIOUS
<1>1. stores \in Nat /\ stores' = stores + 1 /\ stores' \in 0..MaxStores
  BY DEF StoreBar, TypeOK
<1>2. PICK p \in Paths, t \in Times : db' = [db EXCEPT ![p][t] = @ + 1]
  BY DEF StoreBar
<1>3. db' \in [Paths -> [Times -> 0..stores' + 1]]
  <2>1. \A q \in Paths : db'[q] \in [Times -> 0..stores' + 1]
    BY SMTT(30), <1>1, <1>2 DEF TypeOK
  <2> QED
    BY <1>2, <2>1 DEF TypeOK
<1> QED
  BY <1>1, <1>3 DEF StoreBar, TypeOK

-----------------------------------------------------------------------------
(* The newest row of a settled path.                                       *)

\* A row that is true of a file.
TrueOf(row, c) ==
    /\ c.kind = "full" /\ row.hash = c /\ row.count = Cardinality(c.bars)
    /\ \A t \in TimesOf(c.bars) : row.start <= t /\ t <= row.end

HasRow(p) == \E i \in DOMAIN rows : rows[i].path = p

LEMMA SettledMeans ==
    SettledPathDescribed <=>
        \A p \in Paths : settled[p] => HasRow(p) /\ TrueOf(rows[Newest(p)], file[p])
BY DEF SettledPathDescribed, HasRow, TrueOf

LEMMA SettledMeansNext ==
    SettledPathDescribed' <=>
        \A p \in Paths : settled'[p] => HasRow(p)' /\ TrueOf(rows'[Newest(p)'], file'[p])
BY DEF SettledPathDescribed, HasRow, TrueOf

LEMMA SameSettled ==
    SettledPathDescribed /\ UNCHANGED <<file, rows, settled>> => SettledPathDescribed'
BY SettledMeans, SettledMeansNext DEF HasRow, Newest

LEMMA SetFileSettled ==
    ASSUME TypeOK, SettledPathDescribed, NEW p \in Paths, NEW c, SetFile(p, c),
           UNCHANGED rows
    PROVE  SettledPathDescribed'
<1> SUFFICES ASSUME NEW q \in Paths, settled'[q]
             PROVE  HasRow(q)' /\ TrueOf(rows'[Newest(q)'], file'[q])
  BY SettledMeansNext
<1>1. q # p /\ settled[q] /\ file'[q] = file[q]
  BY DEF SetFile, TypeOK
<1>2. Newest(q)' = Newest(q) /\ HasRow(q)' = HasRow(q)
  BY DEF Newest, HasRow
<1> QED
  BY <1>1, <1>2, SettledMeans

LEMMA InsertSettled ==
    ASSUME TypeOK, SettledPathDescribed, NEW row \in Row, NEW alone \in BOOLEAN,
           Insert(row, alone), UNCHANGED file, alone => TrueOf(row, file[row.path])
    PROVE  SettledPathDescribed'
<1> SUFFICES ASSUME NEW q \in Paths, settled'[q]
             PROVE  HasRow(q)' /\ TrueOf(rows'[Newest(q)'], file'[q])
  BY SettledMeansNext
<1>1. rows \in Seq(Row) /\ rows' = Append(rows, row) /\ row.path \in Paths
  BY DEF TypeOK, Insert, Row
<1>2. /\ rows'[Len(rows) + 1] = row /\ Len(rows) + 1 \in DOMAIN rows'
      /\ \A i \in DOMAIN rows : i \in DOMAIN rows' /\ rows'[i] = rows[i]
  BY <1>1
<1>3. CASE q = row.path
  <2>1. alone
    BY <1>1, <1>3 DEF Insert, TypeOK
  <2>2. Newest(q)' = Len(rows) + 1
    BY <1>1, <1>3, NewestRow
  <2>3. HasRow(q)'
    BY <1>2, <1>3 DEF HasRow
  <2> QED
    BY <1>2, <1>3, <2>1, <2>2, <2>3
<1>4. CASE q # row.path
  <2>1. settled[q]
    BY <1>1, <1>4 DEF Insert, TypeOK
  <2>2. HasRow(q) /\ TrueOf(rows[Newest(q)], file[q])
    BY <2>1, SettledMeans
  <2>3. Newest(q)' = Newest(q) /\ Newest(q) \in DOMAIN rows
    BY <1>1, <1>4, <2>2, NewestRow DEF HasRow
  <2>4. HasRow(q)'
    BY <1>2, <2>2 DEF HasRow
  <2> QED
    BY <1>2, <2>2, <2>3, <2>4
<1> QED
  BY <1>3, <1>4

\* The row of an export that ran alone is true of the file it wrote.
LEMMA ExportedRowIsTrue ==
    ASSUME ExportInv, NEW e \in Exporters, ex[e].pc = "insert", ex[e].solo, NEW form
    PROVE  TrueOf(ExRow(e, form), file[ex[e].path])
<1>1. /\ file[ex[e].path].kind = "full" /\ file[ex[e].path].bars = ex[e].bars
      /\ ex[e].hash = file[ex[e].path]
      /\ \A b \in ex[e].bars : ex[e].range[1] <= b[1] /\ b[1] <= ex[e].range[2]
  BY DEF ExportInv, ExportsInv, ExportAlone, InRange
<1> QED
  BY <1>1 DEF TrueOf, ExRow, TimesOf

\* So is the row of a rebuild that ran alone, and the audit accepts it.
LEMMA RebuiltRowIsTrue ==
    ASSUME ExportInv, rb.pc = "insert", rb.solo
    PROVE  TrueOf(RbRow, file[RbPath]) /\ Accepted(RbRow)
<1>1. /\ file[RbPath].kind = "full" /\ file[RbPath].bars = rb.read
      /\ rb.hash = file[RbPath]
  BY DEF ExportInv, RebuildInv
<1>2. rb.read \in SUBSET Bars
  BY DEF ExportInv, TypeOK, Rebuild
<1>3. TrueOf(RbRow, file[RbPath])
  BY <1>1, <1>2, FirstAndLast DEF TrueOf, RbRow
<1>4. Accepted(RbRow)
  BY <1>1 DEF Accepted, RbRow, Resolves, Describes
<1> QED
  BY <1>3, <1>4

LEMMA SettledKept ==
    ASSUME ExportInv, Next PROVE SettledPathDescribed'
<1>0. TypeOK /\ SettledPathDescribed
  BY DEF ExportInv
<1>1. ASSUME NEW e \in Exporters,
             \/ ExOpens(e) \/ ExFlushes(e) \/ ExWritten(e) \/ ExStops(e)
      PROVE  SettledPathDescribed'
  <2>1. ex[e].path \in Paths /\ UNCHANGED rows
    BY <1>0, <1>1 DEF TypeOK, Export, ExOpens, ExFlushes, ExWritten, ExStops
  <2>2. \/ \E c : SetFile(ex[e].path, c)
        \/ UNCHANGED <<file, settled>>
    BY <1>1 DEF ExOpens, ExFlushes, ExWritten, ExStops
  <2> QED
    BY <1>0, <2>1, <2>2, SetFileSettled, SameSettled
<1>2. ASSUME NEW e \in Exporters, ExInserts(e) PROVE SettledPathDescribed'
  <2>1. PICK form \in {"absolute", "started"} : Insert(ExRow(e, form), ex[e].solo)
    BY <1>2 DEF ExInserts, ExRow
  <2>2. ex[e].pc = "insert" /\ UNCHANGED file /\ ex[e].solo \in BOOLEAN
    BY <1>0, <1>2 DEF ExInserts, TypeOK, Export
  <2>3. ExRow(e, form) \in Row /\ ExRow(e, form).path = ex[e].path
    BY <1>0, ExportedRow DEF ExRow
  <2>4. ex[e].solo => TrueOf(ExRow(e, form), file[ex[e].path])
    BY <2>2, ExportedRowIsTrue
  <2> QED
    BY <1>0, <2>1, <2>2, <2>3, <2>4, InsertSettled
<1>3. ASSUME RbInserts PROVE SettledPathDescribed'
  <2>1. Insert(RbRow, rb.solo) /\ rb.pc = "insert" /\ UNCHANGED file
    BY <1>3 DEF RbInserts, RbRow
  <2>2. rb.solo \in BOOLEAN /\ rb.left # {}
    BY <2>1 DEF ExportInv, TypeOK, Rebuild, RebuildInv
  <2>3. RbRow \in Row /\ RbRow.path = RbPath
    BY <1>0, <2>2, RebuiltRow DEF RbRow
  <2>4. rb.solo => TrueOf(RbRow, file[RbPath])
    BY <2>1, RebuiltRowIsTrue
  <2> QED
    BY <1>0, <2>1, <2>2, <2>3, <2>4, InsertSettled
<1>4. ASSUME UNCHANGED <<file, rows, settled>> PROVE SettledPathDescribed'
  BY <1>0, <1>4, SameSettled
<1> QED
  BY <1>1, <1>2, <1>3, <1>4
  DEF Next, StoreBar, ExQueries, ExHashes, RbStarts, RbReads, RbHashes, RbInsertFails,
      RbEnds, RbKilled, AuLists, AuOpens, AuReads, AuEnds

-----------------------------------------------------------------------------
(* The exports.                                                            *)

\* What an active export e does to its own path leaves the others as they were:
\* one that is alone is on another path.
LEMMA OthersKeep ==
    ASSUME ExportsInv, NEW e \in Exporters, ex[e].pc # "idle",
           \A g \in Exporters \ {e} :
              /\ ex'[g].pc = ex[g].pc /\ ex'[g].path = ex[g].path
              /\ ex'[g].bars = ex[g].bars /\ ex'[g].range = ex[g].range
              /\ ex'[g].solo = ex[g].solo
              /\ ex[g].path # ex[e].path => ex'[g] = ex[g],
           ex'[e].pc # "idle" => ex'[e].path = ex[e].path,
           \A p \in Paths : p # ex[e].path => file'[p] = file[p],
           NEW f \in Exporters \ {e}, ex[f].path \in Paths
    PROVE  ExportAlone(f)' /\ InRange(f)'
<1>1. InRange(f)'
  BY DEF ExportsInv, InRange
<1>2. ASSUME ex'[f].solo PROVE ExportAlone(f)'
  <2>1. /\ OnPath(ex[f].path) = {f} /\ ~ex[f].mixed
        /\ ex[f].pc \in {"hash", "insert"} =>
              file[ex[f].path].kind = "full" /\ file[ex[f].path].bars = ex[f].bars
        /\ ex[f].pc = "insert" => ex[f].hash = file[ex[f].path]
    BY <1>2 DEF ExportsInv, ExportAlone
  <2>2. ex[f].path # ex[e].path /\ ex'[f] = ex[f]
    BY <2>1 DEF OnPath
  <2>3. file'[ex[f].path] = file[ex[f].path]
    BY <2>2
  <2>4. OnPath(ex[f].path)' = {f}
    BY <2>1, <2>2 DEF OnPath
  <2> QED
    BY <2>1, <2>2, <2>3, <2>4 DEF ExportAlone
<1> QED
  BY <1>1, <1>2 DEF ExportAlone

\* The step of an export e that goes on keeps who is alone on its path.
LEMMA StillAlone ==
    ASSUME NEW e \in Exporters, ex[e].pc # "idle", ex'[e].pc # "idle",
           \A g \in Exporters : ex'[g].path = ex[g].path,
           \A g \in Exporters \ {e} : ex'[g].pc = ex[g].pc
    PROVE  OnPath(ex[e].path)' = OnPath(ex[e].path)
BY DEF OnPath

LEMMA QueriesKeep ==
    ASSUME ExportInv, NEW e \in Exporters, ExQueries(e) PROVE ExportsInv'
<1>0. TypeOK /\ ExportsInv /\ UNCHANGED file /\ ex[e].pc = "idle"
  BY DEF ExportInv, ExQueries
<1>1. PICK p \in Paths, r \in Ranges :
         ex' = [f \in Exporters |->
                  IF f = e
                  THEN [IdleExport EXCEPT
                           !.pc = "open", !.path = p, !.range = r,
                           !.bars = QueryRange(p, r),
                           !.solo = OnPath(p) = {} /\ rb.pc = "idle"]
                  ELSE [ex[f] EXCEPT !.solo = @ /\ f \notin OnPath(p)]]
  BY DEF ExQueries
<1>2. /\ ex'[e].pc = "open" /\ ex'[e].path = p /\ ex'[e].range = r
      /\ ex'[e].bars = QueryRange(p, r) /\ ex'[e].mixed = FALSE
      /\ ex'[e].solo => OnPath(p) = {}
  BY <1>1 DEF IdleExport
<1>3. ASSUME NEW f \in Exporters \ {e}
      PROVE  /\ ex'[f].pc = ex[f].pc /\ ex'[f].path = ex[f].path
             /\ ex'[f].range = ex[f].range /\ ex'[f].bars = ex[f].bars
             /\ ex'[f].hash = ex[f].hash /\ ex'[f].mixed = ex[f].mixed
             /\ ex'[f].solo => ex[f].solo /\ f \notin OnPath(p)
  <2>1. ex[f] \in Export
    BY <1>0 DEF TypeOK
  <2>2. ex'[f] = [ex[f] EXCEPT !.solo = @ /\ f \notin OnPath(p)]
    BY <1>1
  <2> QED
    BY <2>1, <2>2 DEF Export
<1>4. ExportAlone(e)' /\ InRange(e)'
  <2>1. InRange(e)'
    BY <1>0, <1>2, QueriedBars DEF InRange
  <2>2. ASSUME ex'[e].solo PROVE OnPath(p)' = {e}
    BY <1>2, <1>3, <2>2 DEF OnPath
  <2> QED
    BY <1>2, <2>1, <2>2 DEF ExportAlone
<1>5. ASSUME NEW f \in Exporters \ {e} PROVE ExportAlone(f)' /\ InRange(f)'
  <2>1. InRange(f)'
    BY <1>0, <1>3 DEF ExportsInv, InRange
  <2>2. ASSUME ex'[f].solo
        PROVE  ex[f].solo /\ ex[f].path # p /\ OnPath(ex[f].path)' = {f}
    <3>1. ex[f].solo /\ f \notin OnPath(p) /\ OnPath(ex[f].path) = {f}
      BY <1>0, <1>3, <2>2 DEF ExportsInv, ExportAlone
    <3>2. ex[f].path # p
      BY <3>1 DEF OnPath
    <3> QED
      BY <1>2, <1>3, <3>1, <3>2 DEF OnPath
  <2>3. ExportAlone(f)'
    BY <1>0, <1>3, <2>2 DEF ExportsInv, ExportAlone
  <2> QED
    BY <2>1, <2>3
<1> QED
  BY <1>4, <1>5 DEF ExportsInv

LEMMA ExportStepsKeep ==
    ASSUME ExportInv, NEW e \in Exporters,
           \/ ExOpens(e) \/ ExFlushes(e) \/ ExWritten(e)
           \/ ExHashes(e) \/ ExInserts(e) \/ ExStops(e)
    PROVE  ExportsInv'
<1>0. /\ TypeOK /\ ExportsInv /\ ex \in [Exporters -> Export] /\ ex[e].pc # "idle"
      /\ file \in [Paths -> Content] /\ \A f \in Exporters : ex[f] \in Export
      /\ \A f \in Exporters : ex[f].path \in Paths
      /\ ExportAlone(e) /\ InRange(e)
  BY DEF ExportInv, ExportsInv, TypeOK, Export,
         ExOpens, ExFlushes, ExWritten, ExHashes, ExInserts, ExStops
<1>1. \A p \in Paths : p # ex[e].path => file'[p] = file[p]
  BY <1>0 DEF ExOpens, ExFlushes, ExWritten, ExHashes, ExInserts, ExStops, SetFile
<1>2. CASE ExOpens(e)
  <2>1. /\ ex[e].pc = "open"
        /\ ex' = [f \in Exporters |->
                    IF f = e THEN [ex[e] EXCEPT !.pc = "write",
                                                !.mixed = Writing(ex[e].path) # {}]
                    ELSE [ex[f] EXCEPT !.mixed = @ \/ f \in Writing(ex[e].path)]]
    BY <1>2 DEF ExOpens
  <2>2. ASSUME NEW f \in Exporters \ {e}
        PROVE  /\ ex'[f].pc = ex[f].pc /\ ex'[f].path = ex[f].path
               /\ ex'[f].bars = ex[f].bars /\ ex'[f].range = ex[f].range
               /\ ex'[f].solo = ex[f].solo
               /\ ex[f].path # ex[e].path => ex'[f] = ex[f]
    <3>1. ex'[f] = [ex[f] EXCEPT !.mixed = @ \/ f \in Writing(ex[e].path)]
      BY <2>1
    <3>2. ex[f] \in Export
      BY <1>0
    <3>3. ex[f].path # ex[e].path => f \notin Writing(ex[e].path)
      BY DEF Writing, OnPath
    <3>4. ex[f].path # ex[e].path => ex'[f] = [ex[f] EXCEPT !.mixed = ex[f].mixed]
      <4>1. ex[f].mixed \in BOOLEAN
        BY <3>2 DEF Export
      <4> QED
        BY <3>1, <3>3, <4>1
    <3> QED
      BY <3>1, <3>2, <3>4 DEF Export
  <2>3. /\ ex'[e].pc = "write" /\ ex'[e].path = ex[e].path /\ ex'[e].solo = ex[e].solo
        /\ ex'[e].bars = ex[e].bars /\ ex'[e].range = ex[e].range
        /\ ex'[e].mixed = (Writing(ex[e].path) # {})
    BY <1>0, <2>1 DEF Export
  <2>4. OnPath(ex[e].path)' = OnPath(ex[e].path)
    BY <1>0, <2>2, <2>3, StillAlone
  <2>5. OnPath(ex[e].path) = {e} => Writing(ex[e].path) = {}
    BY <2>1 DEF Writing
  <2>6. ExportAlone(e)' /\ InRange(e)'
    BY <1>0, <2>3, <2>4, <2>5 DEF ExportAlone, InRange
  <2> QED
    BY <1>0, <1>1, <2>2, <2>3, <2>6, OthersKeep DEF ExportsInv
<1>3. CASE ExFlushes(e)
  <2>1. UNCHANGED ex /\ ex[e].mixed
    BY <1>3 DEF ExFlushes
  <2>2. ExportAlone(e)' /\ InRange(e)'
    BY <1>0, <2>1 DEF ExportAlone, InRange
  <2> QED
    BY <1>0, <1>1, <2>1, <2>2, OthersKeep DEF ExportsInv
<1>4. CASE ExWritten(e)
  <2>1. ex' = [ex EXCEPT ![e].pc = "hash"]
    BY <1>4 DEF ExWritten
  <2>2. /\ ex'[e].pc = "hash" /\ ex'[e].path = ex[e].path /\ ex'[e].solo = ex[e].solo
        /\ ex'[e].bars = ex[e].bars /\ ex'[e].range = ex[e].range
        /\ ex'[e].mixed = ex[e].mixed
        /\ \A g \in Exporters \ {e} : ex'[g] = ex[g]
    BY <1>0, <2>1 DEF Export
  <2>3. OnPath(ex[e].path)' = OnPath(ex[e].path)
    BY <1>0, <2>2, StillAlone
  <2>4. ~ex[e].mixed => file'[ex[e].path] = Full(ex[e].bars)
    BY <1>0, <1>4 DEF ExWritten, SetFile
  <2>5. ExportAlone(e)' /\ InRange(e)'
    BY <1>0, <2>2, <2>3, <2>4 DEF ExportAlone, InRange, Full
  <2> QED
    BY <1>0, <1>1, <2>2, <2>5, OthersKeep DEF ExportsInv
<1>5. CASE ExHashes(e) /\ file[ex[e].path] # NoFile
  <2>1. /\ ex[e].pc = "hash" /\ UNCHANGED file
        /\ ex' = [ex EXCEPT ![e].pc = "insert", ![e].hash = file[ex[e].path]]
    BY <1>5 DEF ExHashes
  <2>2. /\ ex'[e].pc = "insert" /\ ex'[e].path = ex[e].path /\ ex'[e].solo = ex[e].solo
        /\ ex'[e].bars = ex[e].bars /\ ex'[e].range = ex[e].range
        /\ ex'[e].mixed = ex[e].mixed /\ ex'[e].hash = file[ex[e].path]
        /\ \A g \in Exporters \ {e} : ex'[g] = ex[g]
    BY <1>0, <2>1 DEF Export
  <2>3. OnPath(ex[e].path)' = OnPath(ex[e].path)
    BY <1>0, <2>2, StillAlone
  <2>4. ExportAlone(e)' /\ InRange(e)'
    BY <1>0, <2>1, <2>2, <2>3 DEF ExportAlone, InRange
  <2> QED
    BY <1>0, <1>1, <2>2, <2>4, OthersKeep DEF ExportsInv
<1>6. CASE ex' = [ex EXCEPT ![e] = IdleExport]
  <2>1. /\ ex'[e].pc = "idle" /\ ex'[e].solo = FALSE
        /\ \A g \in Exporters \ {e} : ex'[g] = ex[g]
    BY <1>0, <1>6 DEF IdleExport
  <2>2. ExportAlone(e)' /\ InRange(e)'
    BY <2>1 DEF ExportAlone, InRange
  <2> QED
    BY <1>0, <1>1, <2>1, <2>2, OthersKeep DEF ExportsInv
<1>7. (ExHashes(e) /\ file[ex[e].path] = NoFile) \/ ExInserts(e) \/ ExStops(e)
         => ex' = [ex EXCEPT ![e] = IdleExport]
  BY DEF ExHashes, ExInserts, ExStops
<1> QED
  BY <1>2, <1>3, <1>4, <1>5, <1>6, <1>7

LEMMA ExportsKept ==
    ASSUME ExportInv, Next PROVE ExportsInv'
<1>1. ASSUME RbStarts PROVE ExportsInv'
  <2>1. ASSUME NEW f \in Exporters
        PROVE  /\ ex'[f].solo = FALSE /\ ex'[f].pc = ex[f].pc
               /\ ex'[f].bars = ex[f].bars /\ ex'[f].range = ex[f].range
    <3>1. ex[f] \in Export
      BY DEF ExportInv, TypeOK
    <3>2. ex'[f] = [ex[f] EXCEPT !.solo = FALSE]
      BY <1>1 DEF RbStarts
    <3> QED
      BY <3>1, <3>2 DEF Export
  <2> QED
    BY <2>1 DEF ExportInv, ExportsInv, ExportAlone, InRange
<1>2. ASSUME UNCHANGED <<ex, file>> PROVE ExportsInv'
  BY <1>2 DEF ExportInv, ExportsInv, ExportAlone, InRange, OnPath
<1> QED
  BY <1>1, <1>2, QueriesKeep, ExportStepsKeep
  DEF Next, StoreBar, RbReads, RbHashes, RbInserts, RbInsertFails, RbEnds, RbKilled,
      AuLists, AuOpens, AuReads, AuEnds

-----------------------------------------------------------------------------
(* The rebuild.                                                            *)

\* What is repaired stays repaired while rows are added and no file changes.
LEMMA StaysRepaired ==
    ASSUME UNCHANGED file, NEW i, Repaired(i),
           \A j \in DOMAIN rows : j \in DOMAIN rows' /\ rows'[j] = rows[j]
    PROVE  Repaired(i)'
<1>1. \A row : Accepted(row)' = Accepted(row)
  BY DEF Accepted
<1> QED
  BY <1>1 DEF Repaired

\* The loop goes on to the next file: what it leaves behind has to be repaired,
\* unless its insert failed.
LEMMA SkipKeeps ==
    ASSUME ExportInv, rb.left # {}, UNCHANGED <<file, ex>>,
           NEW k, k = Min(rb.left),
           \A j \in DOMAIN rows : j \in DOMAIN rows' /\ rows'[j] = rows[j],
           \/ rb' = Skip /\ (rb.solo /\ ~rb.dry => Repaired(k)')
           \/ rb' = [Skip EXCEPT !.skipped = TRUE]
    PROVE  RebuildInv'
<1>0. TypeOK /\ RebuildInv
  BY DEF ExportInv
<1>1. /\ rb'.pc = "read" /\ rb'.left = rb.left \ {Min(rb.left)}
      /\ rb'.solo = rb.solo /\ rb'.dry = rb.dry
      /\ ~rb'.skipped => ~rb.skipped /\ rb' = Skip
  BY <1>0, SkipType DEF Rebuild
<1>2. ASSUME rb.solo, ~rb.dry, ~rb'.skipped, NEW i \in DOMAIN PathOrder \ rb'.left
      PROVE  Repaired(i)'
  <2>1. Repaired(k)'
    <3>1. rb' = Skip /\ Skip.skipped = rb.skipped
      BY <1>0, <1>1, <1>2, SkipType
    <3>2. ~(rb' = [Skip EXCEPT !.skipped = TRUE])
      <4>1. [Skip EXCEPT !.skipped = TRUE].skipped = TRUE
        BY <1>0, SkipType DEF Rebuild
      <4> QED
        BY <1>2, <4>1
    <3> QED
      BY <1>2, <3>2
  <2>2. CASE i \notin rb.left
    BY <1>0, <1>1, <1>2, <2>2, StaysRepaired DEF RebuildInv
  <2> QED
    BY <1>1, <2>1, <2>2
<1> QED
  BY <1>0, <1>1, <1>2 DEF RebuildInv

LEMMA RebuildKept ==
    ASSUME ExportInv, Next PROVE RebuildInv'
<1> PICK k : k = Min(rb.left)
  OBVIOUS
<1>0. TypeOK /\ RebuildInv /\ rb \in Rebuild
  BY DEF ExportInv, TypeOK
<1>1. ASSUME UNCHANGED <<rb, ex, file, rows>> PROVE RebuildInv'
  BY <1>0, <1>1 DEF RebuildInv, RbPath, Repaired, Accepted
<1>2. ASSUME NEW e \in Exporters, ExQueries(e) PROVE RebuildInv'
  <2>1. rb'.solo = FALSE /\ rb'.pc = rb.pc /\ rb'.left = rb.left
    BY <1>0, <1>2 DEF ExQueries, Rebuild
  <2> QED
    BY <1>0, <2>1 DEF RebuildInv
<1>3. ASSUME NEW e \in Exporters,
             \/ ExOpens(e) \/ ExFlushes(e) \/ ExWritten(e)
             \/ ExHashes(e) \/ ExInserts(e) \/ ExStops(e)
      PROVE  RebuildInv'
  <2>1. UNCHANGED rb /\ ex[e].pc # "idle"
    BY <1>3 DEF ExOpens, ExFlushes, ExWritten, ExHashes, ExInserts, ExStops
  <2>2. ~rb.solo
    BY <1>0, <2>1 DEF RebuildInv
  <2> QED
    BY <1>0, <2>1, <2>2 DEF RebuildInv
<1>4. ASSUME RbStarts PROVE RebuildInv'
  <2>1. /\ rb'.pc = "read"
        /\ rb'.left = {i \in DOMAIN PathOrder : Exists(PathOrder[i])}
        /\ rb'.solo => \A e \in Exporters : ex[e].pc = "idle"
    BY <1>4 DEF RbStarts, IdleRebuild
  <2>2. ASSUME NEW e \in Exporters PROVE ex'[e].pc = ex[e].pc
    <3>1. ex[e] \in Export /\ ex'[e] = [ex[e] EXCEPT !.solo = FALSE]
      BY <1>0, <1>4 DEF RbStarts, TypeOK
    <3> QED
      BY <3>1 DEF Export
  <2>3. UNCHANGED file
    BY <1>4 DEF RbStarts
  <2>4. ASSUME NEW i \in DOMAIN PathOrder \ rb'.left PROVE Repaired(i)'
    BY <2>1, <2>3 DEF Repaired, Exists, NoFile
  <2> QED
    BY <2>1, <2>2, <2>4 DEF RebuildInv
<1>5. ASSUME RbReads PROVE RebuildInv'
  <2>1. rb.left # {} /\ UNCHANGED <<file, rows, ex>>
    BY <1>5 DEF RbReads
  <2>2. CASE file[RbPath].kind = "full"
    <3>1. /\ rb'.pc = "hash" /\ rb'.left = rb.left /\ rb'.solo = rb.solo
          /\ rb'.dry = rb.dry /\ rb'.skipped = rb.skipped
          /\ rb'.read = file[RbPath].bars
      BY <1>0, <1>5, <2>2 DEF RbReads, Rebuild
    <3>2. RbPath' = RbPath
      BY <3>1 DEF RbPath
    <3>3. \A i : Repaired(i)' = Repaired(i)
      BY <2>1 DEF Repaired, Accepted
    <3> QED
      BY <1>0, <2>1, <2>2, <3>1, <3>2, <3>3 DEF RebuildInv
  <2>3. CASE file[RbPath].kind # "full"
    <3>1. rb' = Skip
      BY <1>5, <2>3 DEF RbReads
    <3>2. Repaired(k)'
      BY <2>1, <2>3 DEF Repaired, RbPath
    <3> QED
      BY <2>1, <3>1, <3>2, SkipKeeps
  <2> QED
    BY <2>2, <2>3
<1>6. ASSUME RbHashes PROVE RebuildInv'
  <2>1. rb.pc = "hash" /\ rb.left # {} /\ UNCHANGED <<file, rows, ex>>
    BY <1>0, <1>6 DEF RbHashes, RebuildInv
  <2>2. CASE rb.dry \/ ~Exists(RbPath)
    <3>1. rb' = Skip
      BY <1>6, <2>2 DEF RbHashes
    <3>2. ~rb.dry => Repaired(k)'
      BY <2>1, <2>2 DEF Repaired, RbPath, Exists, NoFile
    <3> QED
      BY <2>1, <3>1, <3>2, SkipKeeps
  <2>3. CASE ~(rb.dry \/ ~Exists(RbPath))
    <3>1. /\ rb'.pc = "insert" /\ rb'.left = rb.left /\ rb'.solo = rb.solo
          /\ rb'.dry = rb.dry /\ rb'.skipped = rb.skipped
          /\ rb'.read = rb.read /\ rb'.hash = file[RbPath]
      BY <1>0, <1>6, <2>3 DEF RbHashes, Rebuild
    <3>2. RbPath' = RbPath
      BY <3>1 DEF RbPath
    <3>3. \A i : Repaired(i)' = Repaired(i)
      BY <2>1 DEF Repaired, Accepted
    <3> QED
      BY <1>0, <2>1, <3>1, <3>2, <3>3 DEF RebuildInv
  <2> QED
    BY <2>2, <2>3
<1>7. ASSUME RbInserts PROVE RebuildInv'
  <2>1. /\ rb.pc = "insert" /\ rb.left # {} /\ UNCHANGED <<file, ex>>
        /\ rb' = Skip /\ rows' = Append(rows, RbRow)
    BY <1>0, <1>7 DEF RbInserts, RebuildInv, Insert, RbRow
  <2>2. /\ \A j \in DOMAIN rows : j \in DOMAIN rows' /\ rows'[j] = rows[j]
        /\ Len(rows) + 1 \in DOMAIN rows' /\ rows'[Len(rows) + 1] = RbRow
    BY <1>0, <2>1, RebuiltRow DEF TypeOK
  <2>3. ASSUME rb.solo PROVE Repaired(k)'
    <3>1. Accepted(RbRow) /\ RbRow.path = PathOrder[k]
      BY <2>1, <2>3, RebuiltRowIsTrue DEF RbRow, RbPath
    <3>2. PICK row : row = RbRow
      OBVIOUS
    <3>3. Accepted(row)' = Accepted(row)
      BY <2>1 DEF Accepted
    <3>4. \E j \in DOMAIN rows' : rows'[j] = row
      BY <2>2, <3>2
    <3> QED
      BY <3>1, <3>2, <3>3, <3>4 DEF Repaired
  <2> QED
    BY <2>1, <2>2, <2>3, SkipKeeps
<1>8. ASSUME RbInsertFails PROVE RebuildInv'
  <2>1. rb.left # {} /\ UNCHANGED <<file, ex, rows>> /\ rb' = [Skip EXCEPT !.skipped = TRUE]
    BY <1>0, <1>8 DEF RbInsertFails, RebuildInv
  <2> QED
    BY <2>1, SkipKeeps
<1>9. ASSUME RbEnds \/ RbKilled PROVE RebuildInv'
  <2>1. rb' = IdleRebuild
    BY <1>9 DEF RbEnds, RbKilled
  <2> QED
    BY <2>1 DEF RebuildInv, IdleRebuild
<1> QED
  BY <1>1, <1>2, <1>3, <1>4, <1>5, <1>6, <1>7, <1>8, <1>9
  DEF Next, StoreBar, AuLists, AuOpens, AuReads, AuEnds

-----------------------------------------------------------------------------
(* The audit.                                                              *)

\* A change of a file or of the table ends what the audit can promise.
LEMMA ChangeKeepsAudit ==
    ASSUME TypeOK, AuditInv, UNCHANGED au, changes' = changes + 1,
           \A j \in DOMAIN rows : rows'[j] = rows[j]
    PROVE  AuditInv'
<1>1. au.since \in Nat /\ changes \in Nat /\ au.left \subseteq DOMAIN rows
  BY DEF TypeOK, Audit
<1>2. au'.since <= changes' /\ au'.since # changes'
  BY <1>1 DEF AuditInv
<1>3. au'.pc = "read" => au'.row \in au'.left /\ Resolves(rows'[au'.row])
  BY <1>1 DEF AuditInv, Resolves
<1> QED
  BY <1>2, <1>3 DEF AuditInv

LEMMA SameAudit ==
    AuditInv /\ UNCHANGED <<au, file, rows, changes>> => AuditInv'
BY DEF AuditInv, Resolves, Unfound, Accepted

\* The verdict on one row: the counters say what they said before, and that.
LEMMA VerdictKeeps ==
    ASSUME TypeOK, AuditInv, UNCHANGED <<file, rows, changes>>, au.pc # "idle",
           NEW i \in au.left, NEW failed \in BOOLEAN, NEW notFound \in BOOLEAN,
           NEW a \in Audit, a.all = au.all, a.left = au.left, a.row = i,
           a.since = au.since, a.failures = au.failures, a.missing = au.missing,
           au' = Done(a, failed, notFound),
           au.since = changes => (failed <=> ~Accepted(rows[i])),
           au.since = changes /\ notFound => Unfound(rows[i])
    PROVE  AuditInv'
<1>1. /\ au'.pc = "open" /\ au'.all = au.all /\ au'.left = au.left \ {i}
      /\ au'.since = au.since
      /\ au'.failures = 0 <=> au.failures = 0 /\ ~failed
      /\ au'.missing > 0 <=> au.missing > 0 \/ notFound
  BY DoneType
<1>2. \A row : Accepted(row)' = Accepted(row) /\ Unfound(row)' = Unfound(row)
  BY DEF Accepted, Unfound
<1>3. i \in au.all /\ au.left \subseteq au.all
  BY DEF TypeOK
<1>4. ASSUME au.since = changes
      PROVE  /\ au'.failures = 0 <=> \A j \in au'.all \ au'.left : Accepted(rows[j])
             /\ au'.missing > 0 => \E j \in au'.all : Unfound(rows[j])
  <2>1. /\ au.failures = 0 <=> \A j \in au.all \ au.left : Accepted(rows[j])
        /\ au.missing > 0 => \E j \in au.all : Unfound(rows[j])
    BY <1>4 DEF AuditInv
  <2>2. au'.all \ au'.left = (au.all \ au.left) \cup {i}
    BY <1>1, <1>3
  <2> QED
    BY <1>1, <1>3, <1>4, <2>1, <2>2
<1>5. au'.since <= changes'
  BY <1>1 DEF AuditInv
<1> QED
  BY <1>1, <1>4, <1>5 DEF AuditInv, Accepted, Unfound

LEMMA AuditKept ==
    ASSUME ExportInv, Next PROVE AuditInv'
<1>0. /\ TypeOK /\ AuditInv /\ au \in Audit /\ rows \in Seq(Row) /\ changes \in Nat
      /\ au.left \subseteq au.all /\ au.all \subseteq DOMAIN rows
  BY DEF ExportInv, TypeOK
<1>1. ASSUME UNCHANGED <<au, file, rows, changes>> PROVE AuditInv'
  BY <1>0, <1>1, SameAudit
<1>2. ASSUME NEW e \in Exporters,
             \/ ExOpens(e) \/ ExFlushes(e) \/ ExWritten(e) \/ ExStops(e)
      PROVE  AuditInv'
  <2>1. UNCHANGED <<au, rows>> /\ (changes' = changes + 1 \/ UNCHANGED <<file, changes>>)
    BY <1>2 DEF ExOpens, ExFlushes, ExWritten, ExStops, SetFile
  <2> QED
    BY <1>0, <1>1, <2>1, ChangeKeepsAudit
<1>3. ASSUME UNCHANGED au, NEW row, NEW alone, Insert(row, alone) PROVE AuditInv'
  <2>1. changes' = changes + 1 /\ \A j \in DOMAIN rows : rows'[j] = rows[j]
    BY <1>0, <1>3 DEF Insert
  <2> QED
    BY <1>0, <1>3, <2>1, ChangeKeepsAudit
<1>4. ASSUME NEW e \in Exporters, ExInserts(e) PROVE AuditInv'
  BY <1>3, <1>4 DEF ExInserts
<1>5. ASSUME RbInserts PROVE AuditInv'
  BY <1>3, <1>5 DEF RbInserts
<1>6. ASSUME AuLists PROVE AuditInv'
  <2>1. /\ au'.pc = "open" /\ au'.left = au'.all /\ au'.since = changes
        /\ au'.failures = 0 /\ au'.missing = 0 /\ UNCHANGED changes
    BY <1>6 DEF AuLists, IdleAudit
  <2> QED
    BY <1>0, <2>1 DEF AuditInv
<1>7. ASSUME AuOpens PROVE AuditInv'
  <2>1. PICK i \in au.left :
           au' = IF ~Resolves(rows[i]) \/ ~Exists(rows[i].path)
                 THEN Done([au EXCEPT !.row = i], TRUE, TRUE)
                 ELSE [au EXCEPT !.pc = "read", !.row = i,
                                 !.drift = file[rows[i].path] # rows[i].hash]
    BY <1>7 DEF AuOpens
  <2>2. au.pc = "open" /\ UNCHANGED <<file, rows, changes>>
    BY <1>7 DEF AuOpens
  <2>3. CASE ~Resolves(rows[i]) \/ ~Exists(rows[i].path)
    <3>1. ~Accepted(rows[i]) /\ Unfound(rows[i])
      BY <2>3 DEF Accepted, Unfound, Exists, NoFile
    <3>2. PICK a : a = [au EXCEPT !.row = i]
      OBVIOUS
    <3>3. /\ a \in Audit /\ a.all = au.all /\ a.left = au.left /\ a.row = i
          /\ a.since = au.since /\ a.failures = au.failures /\ a.missing = au.missing
      BY <1>0, <3>2 DEF Audit
    <3>4. au' = Done(a, TRUE, TRUE)
      BY <2>1, <2>3, <3>2
    <3> QED
      BY <1>0, <2>2, <3>1, <3>3, <3>4, VerdictKeeps
  <2>4. CASE ~(~Resolves(rows[i]) \/ ~Exists(rows[i].path))
    <3>1. /\ au'.pc = "read" /\ au'.row = i /\ au'.all = au.all /\ au'.left = au.left
          /\ au'.since = au.since /\ au'.failures = au.failures
          /\ au'.missing = au.missing
          /\ au'.drift = (file[rows[i].path] # rows[i].hash)
      BY <1>0, <2>1, <2>4 DEF Audit
    <3> QED
      BY <1>0, <2>2, <2>4, <3>1 DEF AuditInv, Accepted, Unfound, Resolves
  <2> QED
    BY <2>3, <2>4
<1>8. ASSUME AuReads PROVE AuditInv'
  <2>1. /\ au.pc = "read" /\ UNCHANGED <<file, rows, changes>>
        /\ au.row \in au.left /\ Resolves(rows[au.row])
    BY <1>0, <1>8 DEF AuReads, AuditInv
  <2>2. PICK c : c = file[rows[au.row].path]
    OBVIOUS
  <2>3. CASE c.kind = "full"
    <3>1. PICK failed \in BOOLEAN :
             /\ failed <=> au.drift \/ ~Describes(rows[au.row], c.bars)
             /\ au' = Done(au, failed, FALSE)
      BY <1>8, <2>2, <2>3 DEF AuReads
    <3>2. au.since = changes => (failed <=> ~Accepted(rows[au.row]))
      BY <1>0, <2>1, <2>2, <2>3, <3>1 DEF AuditInv, Accepted
    <3> QED
      BY <1>0, <2>1, <3>1, <3>2, VerdictKeeps
  <2>4. CASE c.kind # "full"
    <3>1. PICK notFound \in BOOLEAN : au' = Done(au, TRUE, notFound)
      BY <1>8, <2>2, <2>4 DEF AuReads
    <3>2. ~Accepted(rows[au.row]) /\ Unfound(rows[au.row])
      BY <2>2, <2>4 DEF Accepted, Unfound
    <3> QED
      BY <1>0, <2>1, <3>1, <3>2, VerdictKeeps
  <2> QED
    BY <2>3, <2>4
<1>9. ASSUME AuEnds PROVE AuditInv'
  <2>1. au'.pc = "idle" /\ au'.since = 0 /\ UNCHANGED changes
    BY <1>9 DEF AuEnds, IdleAudit
  <2> QED
    BY <1>0, <2>1 DEF AuditInv
<1> QED
  BY <1>1, <1>2, <1>4, <1>5, <1>6, <1>7, <1>8, <1>9
  DEF Next, StoreBar, ExQueries, ExHashes, RbStarts, RbReads, RbHashes, RbInsertFails,
      RbEnds, RbKilled

-----------------------------------------------------------------------------
(* The theorems.                                                           *)

LEMMA InitInv == Init => ExportInv
<1> SUFFICES ASSUME Init PROVE ExportInv
  OBVIOUS
<1>1. TypeOK
  BY InitType
<1>2. SettledPathDescribed
  BY DEF Init, SettledPathDescribed
<1>3. ExportsInv
  BY DEF Init, ExportsInv, ExportAlone, InRange, IdleExport
<1>4. RebuildInv
  BY DEF Init, RebuildInv, IdleRebuild
<1>5. AuditInv
  BY DEF Init, AuditInv, IdleAudit
<1> QED
  BY <1>1, <1>2, <1>3, <1>4, <1>5 DEF ExportInv

LEMMA TypeKept ==
    ASSUME ExportInv, Next PROVE TypeOK'
<1>1. /\ TypeOK
      /\ rb.pc = "insert" => rb.left # {}
      /\ rb.pc = "hash" => rb.left # {}
  BY DEF ExportInv, RebuildInv
<1>2. ASSUME NEW e \in Exporters,
             \/ ExQueries(e) \/ ExOpens(e) \/ ExFlushes(e) \/ ExWritten(e)
             \/ ExHashes(e) \/ ExInserts(e) \/ ExStops(e)
      PROVE  TypeOK'
  BY <1>1, <1>2, ExportsType
<1>3. ASSUME RbStarts \/ RbReads \/ RbHashes \/ RbInserts \/ RbInsertFails
             \/ RbEnds \/ RbKilled
      PROVE  TypeOK'
  BY <1>1, <1>3, RebuildType
<1>4. ASSUME AuLists \/ AuOpens \/ AuReads \/ AuEnds PROVE TypeOK'
  BY <1>1, <1>4, AuditType
<1>5. ASSUME StoreBar PROVE TypeOK'
  BY <1>1, <1>5, StoreBarType
<1> QED
  BY <1>2, <1>3, <1>4, <1>5 DEF Next

LEMMA StutterKeepsExport == ExportInv /\ UNCHANGED vars => ExportInv'
<1> SUFFICES ASSUME ExportInv, UNCHANGED vars PROVE ExportInv'
  OBVIOUS
<1>1. TypeOK'
  BY DEF ExportInv, TypeOK, vars
<1>2. SettledPathDescribed'
  BY SameSettled DEF ExportInv, vars
<1>3. ExportsInv'
  BY DEF ExportInv, vars, ExportsInv, ExportAlone, InRange, OnPath
<1>4. RebuildInv'
  BY DEF ExportInv, vars, RebuildInv, RbPath, Repaired, Accepted
<1>5. AuditInv'
  BY SameAudit DEF ExportInv, vars
<1> QED
  BY <1>1, <1>2, <1>3, <1>4, <1>5 DEF ExportInv

\* The inductive invariant of exports, rebuilds and audits.
THEOREM ExportInvariant == Spec => []ExportInv
<1>1. ExportInv /\ [Next]_vars => ExportInv'
  BY TypeKept, SettledKept, ExportsKept, RebuildKept, AuditKept, StutterKeepsExport
  DEF ExportInv
<1> QED
  BY InitInv, <1>1, PTL DEF Spec

\* Whatever ran beside it, failed or was killed before, a path that was last touched by
\* an export or a rebuild that ran alone to its end has a newest row that is true of its
\* file (_write_and_manifest, rebuild_manifests).
THEOREM NewestRowIsTrue == Spec => []ManifestInv
<1>1. ExportInv => ManifestInv
  BY DEF ExportInv, ManifestInv
<1> QED
  BY ExportInvariant, <1>1, PTL

\* A rebuild that no export ran into and whose inserts succeeded leaves an acceptable row
\* for every file that can be read (rebuild_manifests).
THEOREM RebuildIsARepair == Spec => RebuildRepairs
<1> DEFINE Repair ==
       RbEnds /\ rb.solo /\ ~rb.dry /\ ~rb.skipped =>
          \A p \in Paths : file[p].kind = "full" =>
              \E i \in DOMAIN rows : rows[i].path = p /\ Accepted(rows[i])
<1>1. ExportInv => Repair
  <2> SUFFICES ASSUME ExportInv, RbEnds, rb.solo, ~rb.dry, ~rb.skipped,
                      NEW p \in Paths, file[p].kind = "full"
               PROVE  \E i \in DOMAIN rows : rows[i].path = p /\ Accepted(rows[i])
    OBVIOUS
  <2>1. PICK i \in DOMAIN PathOrder : PathOrder[i] = p
    BY DEF Paths, Range
  <2>2. Repaired(i)
    BY DEF ExportInv, RebuildInv, RbEnds
  <2> QED
    BY <2>1, <2>2 DEF Repaired
<1>2. ExportInv => [Repair]_vars
  BY <1>1
<1> QED
  BY ExportInvariant, <1>2, PTL DEF RebuildRepairs

\* The audit's exit code, when nothing changed while it ran (run_audit, audit_manifest).
THEOREM AuditIsRight == Spec => AuditVerdict
<1> DEFINE Verdict ==
       AuEnds /\ au.since = changes =>
          /\ au'.exit = "success" <=> \A i \in au.all : Accepted(rows[i])
          /\ au'.exit = "audit_failure" =>
                 \E i \in au.all : ~Resolves(rows[i]) \/ file[rows[i].path].kind # "full"
<1>1. ExportInv => Verdict
  <2> SUFFICES ASSUME ExportInv, AuEnds, au.since = changes PROVE Verdict
    OBVIOUS
  <2>1. au.pc = "open" /\ au.left = {}
        /\ au' = [IdleAudit EXCEPT !.exit =
                     IF au.failures = 0 THEN "success"
                     ELSE IF au.missing > 0 THEN "audit_failure" ELSE "validation_error"]
    BY DEF AuEnds
  <2>2. au'.exit = IF au.failures = 0 THEN "success"
                   ELSE IF au.missing > 0 THEN "audit_failure" ELSE "validation_error"
    BY <2>1 DEF IdleAudit
  <2>3. /\ au.failures = 0 <=> \A i \in au.all : Accepted(rows[i])
        /\ au.missing > 0 => \E i \in au.all : Unfound(rows[i])
    BY <2>1 DEF ExportInv, AuditInv
  <2> QED
    BY <2>2, <2>3 DEF Unfound
<1>2. ExportInv => [Verdict]_vars
  BY <1>1
<1> QED
  BY ExportInvariant, <1>2, PTL DEF AuditVerdict
================================================================================
