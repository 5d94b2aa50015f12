---------------------------- MODULE MigrationsProofs ----------------------------
(***************************************************************************)
(* Proofs about the schema migrations, for every number of runs, versions, *)
(* statements, edits and faults: the records are true, and no migration    *)
(* takes effect before the earlier ones.                                   *)
(***************************************************************************)
EXTENDS Migrations, FiniteSetTheorems, TLAPS

USE MigrationsAssumption

\* A bounded set of naturals has a smallest element, what Min is worth in a proof: from
\* the well-foundedness of strict inclusion, where k stands for the interval 0..k.
LEMMA MinIsSmallest ==
    ASSUME NEW n \in Nat, NEW S \in SUBSET (0..n), S # {}
    PROVE  Min(S) \in S /\ \A k \in S : Min(S) <= k
<1> DEFINE T == {0..k : k \in S}
           R == StrictSubsetOrdering(0..n)
<1>1. IsFiniteSet(0..n)
  BY FS_Interval
<1>2. IsWellFoundedOn(R, FiniteSubsetsOf(0..n))
  BY <1>1, FS_StrictSubsetOrderingWellFounded
<1>3. T \subseteq FiniteSubsetsOf(0..n) /\ T # {}
  <2>1. ASSUME NEW k \in S PROVE 0..k \in SUBSET (0..n)
    OBVIOUS
  <2>2. FiniteSubsetsOf(0..n) = SUBSET (0..n)
    BY <1>1, FS_FiniteSubsetsOfFinite
  <2>3. T \subseteq SUBSET (0..n) /\ T # {}
    BY <2>1
  <2> QED
    BY <2>2, <2>3
<1> HIDE DEF R
<1>4. PICK x \in T : \A y \in T : ~(<<y, x>> \in R)
  BY <1>2, <1>3, WFMin
<1>5. PICK m \in S : x = 0..m
  OBVIOUS
<1>6. ASSUME NEW k \in S, k < m PROVE FALSE
  <2>1. 0..k \in T /\ 0..k \in SUBSET (0..n) /\ 0..m \in SUBSET (0..n)
    OBVIOUS
  <2>2. 0..k \subseteq 0..m /\ m \in 0..m /\ m \notin 0..k
    BY <1>6
  <2> QED
    BY <1>4, <1>5, <2>1, <2>2 DEF R, StrictSubsetOrdering
<1>7. m \in S /\ \A k \in S : m <= k
  BY <1>6
<1> QED
  BY <1>7 DEF Min

-----------------------------------------------------------------------------
(* The inductive invariant.                                                *)

RunRecord == [pc : PCs, apply : BOOLEAN, files : [Versions -> Checksums] \cup {<<>>},
              todo : SUBSET Versions, k : Nat, found : BOOLEAN, result : Results]
RecordOf == {NoRecord} \cup [checksum : Checksums, status : {"success", "failed"}]
AllTables == UNION {AllOf(m) : m \in Versions}

\* Which versions a run that has something to apply can rely on, when the statements
\* in done have taken effect: the bootstrap stands before all others, and a plan
\* holds every version without success.
Relies(x, done) ==
    \/ x.result = "bootstrapping" /\ x.todo = {0}
    \/ \A j \in Versions \ x.todo : AllOf(j) \subseteq done

\* Where a run stands, and what has taken effect by then.
RunOK(x, done) ==
    /\ x.pc # "ended" => x.files \in [Versions -> Checksums]
    /\ x.pc \in {"statement", "lookup", "record", "fail_lookup", "fail_record"} => x.todo # {}
    /\ x.pc \in {"statement", "lookup", "record"} => Relies(x, done)
    /\ x.pc = "statement" => /\ x.k \in 1..Statements[Min(x.todo)]
                             /\ \A j \in 1..(x.k - 1) : <<Min(x.todo), j>> \in done
    /\ x.pc \in {"lookup", "record"} => AllOf(Min(x.todo)) \subseteq done
    /\ x.pc = "final" \/ x.result = "up_to_date" => \A m \in Versions : AllOf(m) \subseteq done

RecordsTrue == \A m \in Versions : records[m].status = "success" => AllOf(m) \subseteq tables

MigInv ==
    /\ MigTypeOK
    /\ RecordsTrue
    /\ \A r \in Runners : RunOK(run[r], tables)
    /\ AppliedInOrder

-----------------------------------------------------------------------------

\* The version at work is the lowest of those to apply.
LEMMA WorkingIsLowest ==
    ASSUME NEW todo \in SUBSET Versions, todo # {}
    PROVE  /\ Min(todo) \in todo /\ Min(todo) \in Versions /\ Min(todo) \in Nat
           /\ \A j \in todo : Min(todo) <= j
<1>1. LastVersion \in Nat /\ todo \in SUBSET (0..LastVersion)
  BY DEF Versions
<1>2. Min(todo) \in todo /\ \A j \in todo : Min(todo) <= j
  BY <1>1, MinIsSmallest
<1>3. Min(todo) \in 0..LastVersion
  BY <1>1, <1>2
<1> QED
  BY <1>1, <1>2, <1>3 DEF Versions

\* What a run relies on stays true while tables are created.
LEMMA TablesGrow ==
    ASSUME NEW x, NEW done, NEW done2, done \subseteq done2, RunOK(x, done)
    PROVE  RunOK(x, done2)
BY DEF RunOK, Relies

\* Run r goes to x; nothing else changes but the number of faults.
LEMMA OneRunMoves ==
    ASSUME MigInv, NEW r \in Runners, NEW x \in RunRecord, RunOK(x, tables),
           run' = [run EXCEPT ![r] = x], faults' \in 0..MaxFaults,
           UNCHANGED <<files, tables, records, edits>>
    PROVE  MigInv'
BY DEF MigInv, MigTypeOK, RunRecord, RecordsTrue, AppliedInOrder

\* Run r goes to x and records status s for version m.
LEMMA RecordWritten ==
    ASSUME MigInv, NEW r \in Runners, NEW x \in RunRecord, RunOK(x, tables),
           run' = [run EXCEPT ![r] = x], faults' \in 0..MaxFaults,
           UNCHANGED <<files, tables, edits>>,
           NEW m \in Versions, NEW c \in Checksums, NEW s \in {"success", "failed"},
           s = "success" => AllOf(m) \subseteq tables,
           records' = [records EXCEPT ![m] = Record(c, s)]
    PROVE  MigInv'
<1>1. Record(c, s) \in RecordOf /\ Record(c, s).status = s
  BY DEF Record, RecordOf
<1>2. records' \in [Versions -> RecordOf]
  BY <1>1 DEF MigInv, MigTypeOK, RecordOf
<1>3. RecordsTrue'
  BY <1>1 DEF MigInv, MigTypeOK, RecordsTrue
<1>4. run' \in [Runners -> RunRecord] /\ \A q \in Runners : RunOK(run'[q], tables)
  BY DEF MigInv, MigTypeOK, RunRecord
<1> QED
  BY <1>2, <1>3, <1>4 DEF MigInv, MigTypeOK, RunRecord, RecordOf, AppliedInOrder

\* A run that ends without claiming success, or gives up on a migration.
LEMMA EndIsOK ==
    ASSUME NEW done, NEW result \in Results \ {"up_to_date"}
    PROVE  Ended(result) \in RunRecord /\ RunOK(Ended(result), done)
BY DEF Ended, RunRecord, RunOK, PCs, Results

LEMMA RaiseKeeps ==
    ASSUME MigInv, NEW r \in Runners, run[r].pc \in {"statement", "lookup", "record"},
           Raise(r), faults' \in 0..MaxFaults, UNCHANGED <<files, tables, records, edits>>
    PROVE  MigInv'
<1>1. run[r] \in RunRecord /\ RunOK(run[r], tables)
  BY DEF MigInv, MigTypeOK, RunRecord
<1>2. CASE run' = [run EXCEPT ![r] = Ended("error")]
  BY <1>2, EndIsOK, OneRunMoves DEF Results
<1>3. CASE run' = [run EXCEPT ![r] = [run[r] EXCEPT !.pc = "fail_lookup"]]
  <2>1. [run[r] EXCEPT !.pc = "fail_lookup"] \in RunRecord
    BY <1>1 DEF RunRecord, PCs
  <2>2. RunOK([run[r] EXCEPT !.pc = "fail_lookup"], tables)
    BY <1>1 DEF RunRecord, RunOK
  <2> QED
    BY <1>3, <2>1, <2>2, OneRunMoves
<1> QED
  BY <1>2, <1>3 DEF Raise, To, End

-----------------------------------------------------------------------------
(* The steps of a run.                                                     *)

LEMMA InitMigInv == Init => MigInv
<1> SUFFICES ASSUME Init PROVE MigInv
  OBVIOUS
<1>1. Ended("none") \in RunRecord /\ RunOK(Ended("none"), tables)
  BY EndIsOK DEF Results
<1>2. MigTypeOK
  BY <1>1 DEF Init, MigTypeOK, RunRecord
<1>3. RecordsTrue
  BY DEF Init, RecordsTrue, NoRecord
<1>4. AppliedInOrder
  BY DEF Init, AppliedInOrder
<1> QED
  BY <1>1, <1>2, <1>3, <1>4 DEF Init, MigInv

LEMMA StartKeeps ==
    ASSUME MigInv, NEW r \in Runners, NEW apply \in BOOLEAN, Start(r, apply)
    PROVE  MigInv'
<1> DEFINE x == [Ended("none") EXCEPT !.pc = IF apply THEN "bootstrap" ELSE "fetch",
                                      !.apply = apply, !.files = files]
<1>1. x \in RunRecord /\ RunOK(x, tables)
  <2>1. Ended("none") \in RunRecord /\ Ended("none").result = "none"
    BY EndIsOK DEF Results, Ended
  <2>2. files \in [Versions -> Checksums]
    BY DEF MigInv, MigTypeOK
  <2>3. x \in RunRecord /\ x.pc \in {"bootstrap", "fetch"} /\ x.files = files
        /\ x.result = "none"
    BY <2>1, <2>2 DEF RunRecord, PCs
  <2> HIDE DEF x
  <2> QED
    BY <2>2, <2>3 DEF RunOK
<1>2. faults \in 0..MaxFaults
  BY DEF MigInv, MigTypeOK
<1>3. run' = [run EXCEPT ![r] = x] /\ UNCHANGED <<files, tables, records, edits, faults>>
  BY DEF Start, To
<1> HIDE DEF x
<1> QED
  BY <1>1, <1>2, <1>3, OneRunMoves

\* table_exists, and everything there is to know about run r before its step.
LEMMA RunFacts ==
    ASSUME MigInv, NEW r \in Runners
    PROVE  /\ run[r] \in RunRecord /\ RunOK(run[r], tables) /\ faults \in 0..MaxFaults
           /\ Pending \in SUBSET Versions
           /\ \A j \in Versions \ Pending : AllOf(j) \subseteq tables
           /\ \A m \in Versions : Statements[m] \in Nat \ {0}
BY DEF MigInv, MigTypeOK, RunRecord, Pending, RecordsTrue

\* A run that begins with the lowest version it has to apply.
LEMMA FirstStatement ==
    ASSUME NEW x, NEW done, x.pc = "statement", x.k = 1, x.files \in [Versions -> Checksums],
           x.todo \in SUBSET Versions, x.todo # {}, Relies(x, done),
           x.result = "up_to_date" => \A m \in Versions : AllOf(m) \subseteq done,
           \A m \in Versions : Statements[m] \in Nat \ {0}
    PROVE  RunOK(x, done)
<1>1. Min(x.todo) \in Versions
  BY WorkingIsLowest
<1>2. 1 \in 1..Statements[Min(x.todo)]
  BY <1>1
<1>3. 1..(x.k - 1) = {}
  OBVIOUS
<1> QED
  BY <1>2, <1>3 DEF RunOK

LEMMA BootstrapKeeps ==
    ASSUME MigInv, NEW r \in Runners, ensure_bootstrap_schema_table(r)
    PROVE  MigInv'
<1>0. /\ run[r] \in RunRecord /\ RunOK(run[r], tables) /\ run[r].pc = "bootstrap"
      /\ UNCHANGED <<files, tables, records, edits, faults>> /\ faults' \in 0..MaxFaults
      /\ \A m \in Versions : Statements[m] \in Nat \ {0}
  BY RunFacts DEF ensure_bootstrap_schema_table
<1>1. CASE table_exists
  <2> DEFINE x == [run[r] EXCEPT !.pc = "fetch"]
  <2>1. x \in RunRecord
    BY <1>0 DEF RunRecord, PCs
  <2>2. RunOK(x, tables)
    BY <1>0 DEF RunRecord, RunOK
  <2>3. run' = [run EXCEPT ![r] = x]
    BY <1>1 DEF ensure_bootstrap_schema_table, To
  <2> HIDE DEF x
  <2> QED
    BY <1>0, <2>1, <2>2, <2>3, OneRunMoves
<1>2. CASE ~table_exists
  <2> DEFINE x == [run[r] EXCEPT !.pc = "statement", !.todo = {0}, !.k = 1,
                                 !.result = "bootstrapping"]
  <2>1. {0} \in SUBSET Versions
    BY DEF Versions
  <2>2. x \in RunRecord
    BY <1>0, <2>1 DEF RunRecord, PCs, Results
  <2>3. /\ x.pc = "statement" /\ x.todo = {0} /\ x.k = 1 /\ x.result = "bootstrapping"
        /\ x.files = run[r].files
    BY <1>0 DEF RunRecord
  <2>5. run' = [run EXCEPT ![r] = x]
    BY <1>2 DEF ensure_bootstrap_schema_table, To
  <2> HIDE DEF x
  <2>6. RunOK(x, tables)
    <3>1. Relies(x, tables)
      BY <2>3 DEF Relies
    <3>2. x.files \in [Versions -> Checksums]
      BY <1>0, <2>3 DEF RunOK
    <3> QED
      BY <1>0, <2>1, <2>3, <3>1, <3>2, FirstStatement
  <2> QED
    BY <1>0, <2>2, <2>5, <2>6, OneRunMoves
<1> QED
  BY <1>1, <1>2

LEMMA FetchKeeps ==
    ASSUME MigInv, NEW r \in Runners, fetch_and_plan(r) PROVE MigInv'
<1>0. /\ run[r] \in RunRecord /\ RunOK(run[r], tables) /\ run[r].pc = "fetch"
      /\ UNCHANGED <<files, tables, records, edits, faults>> /\ faults' \in 0..MaxFaults
      /\ Pending \in SUBSET Versions
      /\ \A j \in Versions \ Pending : AllOf(j) \subseteq tables
      /\ \A m \in Versions : Statements[m] \in Nat \ {0}
  BY RunFacts DEF fetch_and_plan
<1>1. ASSUME NEW result \in {"mismatch", "pending", "up_to_date"},
             run' = [run EXCEPT ![r] = Ended(result)],
             result = "up_to_date" => Pending = {}
      PROVE  MigInv'
  <2>1. Ended(result) \in RunRecord /\ RunOK(Ended(result), tables)
    BY <1>0, <1>1 DEF Ended, RunRecord, RunOK, PCs, Results
  <2> QED
    BY <1>0, <1>1, <2>1, OneRunMoves
<1>2. ASSUME run' = [run EXCEPT ![r] = [run[r] EXCEPT
                        !.pc = IF Pending = {} THEN "final" ELSE "statement",
                        !.todo = Pending, !.k = 1]]
      PROVE  MigInv'
  <2> DEFINE x == [run[r] EXCEPT !.pc = IF Pending = {} THEN "final" ELSE "statement",
                                 !.todo = Pending, !.k = 1]
  <2>1. x \in RunRecord
    BY <1>0 DEF RunRecord, PCs
  <2>2. /\ x.pc = (IF Pending = {} THEN "final" ELSE "statement") /\ x.todo = Pending
        /\ x.k = 1 /\ x.result = run[r].result /\ x.files = run[r].files
    BY <1>0 DEF RunRecord
  <2> HIDE DEF x
  <2>3. x.result = "up_to_date" => \A m \in Versions : AllOf(m) \subseteq tables
    BY <1>0, <2>2 DEF RunOK
  <2>4. x.files \in [Versions -> Checksums] /\ Relies(x, tables)
    BY <1>0, <2>2 DEF RunOK, Relies
  <2>5. RunOK(x, tables)
    <3>1. CASE Pending = {}
      BY <1>0, <2>2, <2>3, <2>4, <3>1 DEF RunOK
    <3>2. CASE Pending # {}
      BY <1>0, <2>2, <2>3, <2>4, <3>2, FirstStatement
    <3> QED
      BY <3>1, <3>2
  <2>6. run' = [run EXCEPT ![r] = x]
    BY <1>2 DEF x
  <2> QED
    BY <1>0, <2>1, <2>5, <2>6, OneRunMoves
<1> QED
  BY <1>1, <1>2 DEF fetch_and_plan, To, End

LEMMA ExecuteKeeps ==
    ASSUME MigInv, NEW r \in Runners, execute_statement(r) PROVE MigInv'
<1> DEFINE w == Min(run[r].todo)
<1>0. /\ run[r] \in RunRecord /\ RunOK(run[r], tables) /\ run[r].pc = "statement"
      /\ run[r].todo \in SUBSET Versions /\ run[r].todo # {} /\ run[r].k \in Nat
      /\ tables' = tables \cup {<<w, run[r].k>>}
      /\ UNCHANGED <<files, records, edits, faults>>
      /\ \A m \in Versions : Statements[m] \in Nat \ {0}
  BY RunFacts DEF execute_statement, Working, RunOK, RunRecord
<1>1. /\ w \in Versions /\ w \in run[r].todo /\ w \in Nat
      /\ \A j \in run[r].todo : w <= j
  BY <1>0, WorkingIsLowest
<1>2. /\ run[r].k \in 1..Statements[w] /\ \A j \in 1..(run[r].k - 1) : <<w, j>> \in tables
      /\ run[r].files \in [Versions -> Checksums] /\ Relies(run[r], tables)
  BY <1>0 DEF RunOK
<1> HIDE DEF w
<1>3. <<w, run[r].k>> \in AllOf(w) /\ \A m \in Versions : m # w => <<w, run[r].k>> \notin AllOf(m)
  BY <1>2 DEF AllOf
<1>4. \A j \in Versions : j < w => AllOf(j) \subseteq tables
  BY <1>1, <1>2 DEF Relies, Versions
<1>5. AppliedInOrder'
  <2> SUFFICES ASSUME NEW m \in Versions, NEW j \in Versions, j < m,
                      tables' \cap AllOf(m) # {}
               PROVE  AllOf(j) \subseteq tables
    BY <1>0 DEF AppliedInOrder
  <2>1. CASE m = w
    BY <1>4, <2>1
  <2>2. CASE m # w
    <3>1. tables \cap AllOf(m) # {}
      BY <1>0, <1>3, <2>2
    <3> QED
      BY <3>1 DEF MigInv, AppliedInOrder
  <2> QED
    BY <2>1, <2>2
<1>6. tables' \in SUBSET AllTables /\ tables \subseteq tables'
  <2>1. <<w, run[r].k>> \in AllTables
    BY <1>1, <1>3 DEF AllTables
  <2> QED
    BY <1>0, <2>1 DEF MigInv, MigTypeOK, AllTables
<1>7. PICK x \in RunRecord : run' = [run EXCEPT ![r] = x] /\ RunOK(x, tables')
  <2>0. Relies(run[r], tables')
    BY <1>2, <1>6 DEF Relies
  <2>1. run[r].result = "up_to_date" => \A m \in Versions : AllOf(m) \subseteq tables'
    BY <1>0, <1>6 DEF RunOK
  <2>2. CASE run[r].k < Statements[w]
    <3> DEFINE x == [run[r] EXCEPT !.k = @ + 1]
    <3>0. x \in RunRecord
      BY SMTT(30), <1>0 DEF RunRecord
    <3>1. x \in RunRecord /\ run' = [run EXCEPT ![r] = x]
      BY <2>2, <3>0 DEF execute_statement, To, Working, w
    <3>2. /\ x.pc = "statement" /\ x.k = run[r].k + 1 /\ x.todo = run[r].todo
          /\ x.files = run[r].files /\ x.result = run[r].result
      BY <1>0 DEF RunRecord
    <3> HIDE DEF x
    <3>3. x.k \in 1..Statements[w] /\ \A j \in 1..(x.k - 1) : <<w, j>> \in tables'
      <4>1. ASSUME NEW j \in 1..(x.k - 1) PROVE <<w, j>> \in tables'
        <5>1. j = run[r].k \/ j \in 1..(run[r].k - 1)
          BY <1>0, <3>2
        <5> QED
          BY <1>0, <1>2, <5>1
      <4> QED
        BY <1>0, <1>1, <1>2, <2>2, <3>2, <4>1
    <3>4. RunOK(x, tables')
      BY <1>0, <1>2, <2>0, <2>1, <3>2, <3>3 DEF RunOK, Relies, w
    <3> QED
      BY <3>1, <3>4
  <2>3. CASE ~(run[r].k < Statements[w])
    <3> DEFINE x == [run[r] EXCEPT !.pc = "lookup"]
    <3>1. x \in RunRecord /\ run' = [run EXCEPT ![r] = x]
      BY <1>0, <2>3 DEF RunRecord, PCs, execute_statement, To, Working, w
    <3>2. /\ x.pc = "lookup" /\ x.todo = run[r].todo
          /\ x.files = run[r].files /\ x.result = run[r].result
      BY <1>0 DEF RunRecord
    <3> HIDE DEF x
    <3>3. AllOf(w) \subseteq tables'
      <4>1. ASSUME NEW j \in 1..Statements[w] PROVE <<w, j>> \in tables'
        <5>1. j = run[r].k \/ j \in 1..(run[r].k - 1)
          BY <1>0, <1>1, <1>2, <2>3
        <5> QED
          BY <1>0, <1>2, <5>1
      <4> QED
        BY <4>1 DEF AllOf
    <3>4. RunOK(x, tables')
      BY <1>0, <1>2, <2>0, <2>1, <3>2, <3>3 DEF RunOK, Relies, w
    <3> QED
      BY <3>1, <3>4
  <2> QED
    BY <2>2, <2>3
<1>8. \A q \in Runners : RunOK(run'[q], tables') /\ run'[q] \in RunRecord
  BY <1>6, <1>7, TablesGrow DEF MigInv, MigTypeOK, RunRecord
<1>9. run' \in [Runners -> RunRecord]
  BY <1>7 DEF MigInv, MigTypeOK, RunRecord
<1>10. RecordsTrue'
  BY <1>0, <1>6 DEF MigInv, RecordsTrue
<1>11. MigTypeOK'
  BY <1>0, <1>6, <1>9 DEF MigInv, MigTypeOK, RunRecord, AllTables
<1> QED
  BY <1>5, <1>8, <1>10, <1>11 DEF MigInv

\* The steps that only move the run to the next place.
LEMMA MoveKeeps ==
    ASSUME MigInv, NEW r \in Runners,
           reject_statement(r) \/ lookup_record(r) \/ lookup_failure(r) \/ final_check(r)
    PROVE  MigInv'
<1>0. /\ run[r] \in RunRecord /\ RunOK(run[r], tables) /\ faults \in 0..MaxFaults
      /\ \A j \in Versions \ Pending : AllOf(j) \subseteq tables
  BY RunFacts
<1>1. CASE reject_statement(r)
  BY <1>0, <1>1, RaiseKeeps DEF reject_statement
<1>2. CASE lookup_record(r)
  <2> DEFINE x == [run[r] EXCEPT !.pc = "record", !.found = Exists(Working(r))]
  <2>1. x \in RunRecord
    BY <1>0 DEF RunRecord, PCs, Exists
  <2>2. RunOK(x, tables)
    BY <1>0, <1>2 DEF RunRecord, RunOK, lookup_record, Relies
  <2>3. run' = [run EXCEPT ![r] = x] /\ UNCHANGED <<files, tables, records, edits, faults>>
    BY <1>2 DEF lookup_record, To
  <2> HIDE DEF x
  <2> QED
    BY <1>0, <2>1, <2>2, <2>3, OneRunMoves
<1>3. CASE lookup_failure(r)
  <2>0. run[r].pc = "fail_lookup" /\ UNCHANGED <<files, tables, records, edits, faults>>
    BY <1>3 DEF lookup_failure
  <2>1. CASE table_exists
    <3> DEFINE x == [run[r] EXCEPT !.pc = "fail_record", !.found = Exists(Working(r))]
    <3>1. x \in RunRecord
      BY <1>0 DEF RunRecord, PCs, Exists
    <3>2. RunOK(x, tables)
      BY <1>0, <2>0 DEF RunRecord, RunOK
    <3>3. run' = [run EXCEPT ![r] = x]
      BY <1>3, <2>1 DEF lookup_failure, To
    <3> HIDE DEF x
    <3> QED
      BY <1>0, <2>0, <3>1, <3>2, <3>3, OneRunMoves
  <2>2. CASE ~table_exists
    <3>1. run' = [run EXCEPT ![r] = Ended("error")]
      BY <1>3, <2>2 DEF lookup_failure, To, End
    <3>2. Ended("error") \in RunRecord /\ RunOK(Ended("error"), tables)
      BY EndIsOK DEF Results
    <3> QED
      BY <1>0, <2>0, <3>1, <3>2, OneRunMoves
  <2> QED
    BY <2>1, <2>2
<1>4. CASE final_check(r)
  <2>1. PICK result \in {"mismatch", "pending", "up_to_date"} :
          /\ run' = [run EXCEPT ![r] = Ended(result)]
          /\ result = "up_to_date" => Pending = {}
          /\ UNCHANGED <<files, tables, records, edits, faults>>
    BY <1>4 DEF final_check, To, End
  <2>2. Ended(result) \in RunRecord /\ RunOK(Ended(result), tables)
    BY <1>0, <2>1 DEF Ended, RunRecord, RunOK, PCs, Results
  <2> QED
    BY <1>0, <2>1, <2>2, OneRunMoves
<1> QED
  BY <1>1, <1>2, <1>3, <1>4

\* After a success the run relies on the version it has just applied as well.
LEMMA NextIsOK ==
    ASSUME MigInv, NEW r \in Runners, run[r].pc = "record"
    PROVE  NextMigration(r) \in RunRecord /\ RunOK(NextMigration(r), tables)
<1> DEFINE w == Min(run[r].todo)
           rest == run[r].todo \ {w}
           x == [run[r] EXCEPT !.pc = IF rest = {} THEN "final" ELSE "statement",
                               !.todo = rest, !.k = 1]
           y == [run[r] EXCEPT !.pc = "fetch", !.todo = {}, !.result = "none"]
<1>0. /\ run[r] \in RunRecord /\ RunOK(run[r], tables)
      /\ \A m \in Versions : Statements[m] \in Nat \ {0}
  BY RunFacts
<1>1. /\ run[r].todo # {} /\ Relies(run[r], tables) /\ AllOf(w) \subseteq tables
      /\ run[r].files \in [Versions -> Checksums]
      /\ run[r].result = "up_to_date" => \A m \in Versions : AllOf(m) \subseteq tables
  BY <1>0 DEF RunOK
<1>2. CASE Bootstrapping(r)
  <2>1. y \in RunRecord
    BY <1>0 DEF RunRecord, PCs, Results
  <2>2. y.pc = "fetch" /\ y.result = "none" /\ y.files = run[r].files
    BY <1>0 DEF RunRecord
  <2>3. NextMigration(r) = y
    BY <1>2 DEF NextMigration
  <2> HIDE DEF y
  <2> QED
    BY <1>1, <2>1, <2>2, <2>3 DEF RunOK
<1>3. CASE ~Bootstrapping(r)
  <2>1. x \in RunRecord
    BY <1>0 DEF RunRecord, PCs
  <2>2. /\ x.pc = (IF rest = {} THEN "final" ELSE "statement") /\ x.todo = rest /\ x.k = 1
        /\ x.result = run[r].result /\ x.files = run[r].files
    BY <1>0 DEF RunRecord
  <2>3. NextMigration(r) = x
    BY <1>3 DEF NextMigration, Working
  <2>4. rest \in SUBSET Versions /\ \A j \in Versions \ rest : AllOf(j) \subseteq tables
    BY <1>0, <1>1, <1>3 DEF Relies, Bootstrapping, RunRecord
  <2> HIDE DEF x, rest
  <2>5. Relies(x, tables)
    BY <2>2, <2>4 DEF Relies
  <2>6. RunOK(x, tables)
    <3>1. CASE rest = {}
      BY <1>1, <2>2, <2>4, <2>5, <3>1 DEF RunOK
    <3>2. CASE rest # {}
      BY <1>0, <1>1, <2>2, <2>4, <2>5, <3>2, FirstStatement
    <3> QED
      BY <3>1, <3>2
  <2> QED
    BY <2>1, <2>3, <2>6
<1> QED
  BY <1>2, <1>3

\* The version at work and the checksum the run has read for it.
LEMMA WorkingFacts ==
    ASSUME MigInv, NEW r \in Runners,
           run[r].pc \in {"statement", "lookup", "record", "fail_lookup", "fail_record"}
    PROVE  Working(r) \in Versions /\ run[r].files[Working(r)] \in Checksums
<1>1. /\ run[r].todo \in SUBSET Versions /\ run[r].todo # {}
      /\ run[r].files \in [Versions -> Checksums]
  BY RunFacts DEF RunOK, RunRecord
<1>2. Working(r) \in Versions
  BY <1>1, WorkingIsLowest DEF Working
<1> QED
  BY <1>1, <1>2

LEMMA RecordKeeps ==
    ASSUME MigInv, NEW r \in Runners, record_success(r) \/ record_failure(r)
    PROVE  MigInv'
<1>0. /\ RunOK(run[r], tables) /\ faults \in 0..MaxFaults
      /\ UNCHANGED <<files, tables, edits, faults>>
      /\ Working(r) \in Versions /\ run[r].files[Working(r)] \in Checksums
  BY RunFacts, WorkingFacts DEF record_success, record_failure
<1>1. CASE record_success(r)
  <2>1. AllOf(Working(r)) \subseteq tables
    BY <1>0, <1>1 DEF record_success, RunOK, Working
  <2>2. CASE Duplicate(r)
    BY <1>0, <1>1, <2>2, RaiseKeeps DEF record_success
  <2>3. CASE ~Duplicate(r)
    <3>1. /\ run' = [run EXCEPT ![r] = NextMigration(r)]
          /\ records' = [records EXCEPT ![Working(r)]
                            = Record(run[r].files[Working(r)], "success")]
      BY <1>1, <2>3 DEF record_success, Upsert, To
    <3>2. NextMigration(r) \in RunRecord /\ RunOK(NextMigration(r), tables)
      BY <1>1, NextIsOK DEF record_success
    <3> QED
      BY <1>0, <2>1, <3>1, <3>2, RecordWritten
  <2> QED
    BY <2>2, <2>3
<1>2. CASE record_failure(r)
  <2>1. Ended("error") \in RunRecord /\ RunOK(Ended("error"), tables)
    BY EndIsOK DEF Results
  <2>2. run' = [run EXCEPT ![r] = Ended("error")]
    BY <1>2 DEF record_failure, To, End
  <2>3. CASE Duplicate(r)
    BY <1>0, <1>2, <2>1, <2>2, <2>3, OneRunMoves DEF record_failure
  <2>4. CASE ~Duplicate(r)
    <3>1. records' = [records EXCEPT ![Working(r)]
                         = Record(run[r].files[Working(r)], "failed")]
      BY <1>2, <2>4 DEF record_failure, Upsert
    <3> QED
      BY <1>0, <2>1, <2>2, <3>1, RecordWritten
  <2> QED
    BY <2>3, <2>4
<1> QED
  BY <1>1, <1>2

LEMMA FaultsKeep ==
    ASSUME MigInv, NEW r \in Runners, LoseConnection(r) \/ Kill(r)
    PROVE  MigInv'
<1>0. /\ faults' \in 0..MaxFaults /\ UNCHANGED <<files, tables, edits>>
      /\ RunOK(run[r], tables)
      /\ Ended("error") \in RunRecord /\ RunOK(Ended("error"), tables)
  <2>1. faults \in 0..MaxFaults /\ faults < MaxFaults /\ faults' = faults + 1
    BY RunFacts DEF LoseConnection, Kill, Fault
  <2>2. faults' \in 0..MaxFaults
    BY <2>1
  <2> QED
    BY <2>2, RunFacts, EndIsOK DEF LoseConnection, Kill, Results
<1>1. CASE Kill(r)
  BY <1>0, <1>1, OneRunMoves DEF Kill, To, End
<1>2. CASE LoseConnection(r) /\ UNCHANGED records
  BY <1>0, <1>2, RaiseKeeps DEF LoseConnection
\* The COMMIT of a success was executed, and the answer lost.
<1>3. CASE LoseConnection(r) /\ run[r].pc = "record" /\ Upsert(r, "success")
  <2>1. AllOf(Working(r)) \subseteq tables
    BY <1>0, <1>3 DEF RunOK, Working
  <2>2. Working(r) \in Versions /\ run[r].files[Working(r)] \in Checksums
    BY <1>3, WorkingFacts
  <2>3. records' = [records EXCEPT ![Working(r)]
                       = Record(run[r].files[Working(r)], "success")]
    BY <1>3 DEF Upsert
  <2>4. PICK x \in RunRecord : run' = [run EXCEPT ![r] = x] /\ RunOK(x, tables)
    <3> DEFINE x == [run[r] EXCEPT !.pc = "fail_lookup"]
    <3>1. run[r] \in RunRecord
      BY RunFacts
    <3>2. x \in RunRecord
      BY <3>1 DEF RunRecord, PCs
    <3>3. RunOK(x, tables)
      BY <1>0, <1>3, <3>1 DEF RunRecord, RunOK
    <3>4. run' = [run EXCEPT ![r] = x] \/ run' = [run EXCEPT ![r] = Ended("error")]
      BY <1>3 DEF LoseConnection, Raise, To, End
    <3> HIDE DEF x
    <3> QED
      BY <1>0, <3>2, <3>3, <3>4
  <2> QED
    BY <1>0, <2>1, <2>2, <2>3, <2>4, RecordWritten
<1> QED
  BY <1>1, <1>2, <1>3 DEF LoseConnection

LEMMA EditKeeps ==
    ASSUME MigInv, NEW m \in Versions, Edit(m) PROVE MigInv'
<1>1. PICK c \in Checksums : files' = [files EXCEPT ![m] = c]
  BY DEF Edit
<1>2. UNCHANGED <<tables, records, run, faults>> /\ edits' \in 0..MaxEdits
  BY DEF Edit, MigInv, MigTypeOK
<1>3. files' \in [Versions -> Checksums]
  BY <1>1 DEF MigInv, MigTypeOK
<1> QED
  BY <1>2, <1>3 DEF MigInv, MigTypeOK, RecordsTrue, AppliedInOrder

LEMMA StutterKeepsMig == MigInv /\ UNCHANGED vars => MigInv'
BY DEF vars, MigInv, MigTypeOK, RecordsTrue, AppliedInOrder

-----------------------------------------------------------------------------
(* The theorems.                                                           *)

\* The inductive invariant of the migrations holds in every reachable state.
THEOREM MigrationsInvariant == Spec => []MigInv
<1>1. MigInv /\ [Next]_vars => MigInv'
  <2> SUFFICES ASSUME MigInv, Next PROVE MigInv'
    BY StutterKeepsMig
  <2>1. ASSUME NEW r \in Runners, NEW apply \in BOOLEAN, Start(r, apply) PROVE MigInv'
    BY <2>1, StartKeeps
  <2>2. ASSUME NEW r \in Runners, Step(r) PROVE MigInv'
    BY <2>2, BootstrapKeeps, FetchKeeps, ExecuteKeeps, MoveKeeps, RecordKeeps DEF Step
  <2>3. ASSUME NEW r \in Runners, LoseConnection(r) \/ Kill(r) PROVE MigInv'
    BY <2>3, FaultsKeep
  <2>4. ASSUME NEW m \in Versions, Edit(m) PROVE MigInv'
    BY <2>4, EditKeeps
  <2> QED
    BY <2>1, <2>2, <2>3, <2>4 DEF Next
<1> QED
  BY InitMigInv, <1>1, PTL DEF Spec

\* The type invariant: of the tables, the records and where each run stands.
THEOREM MigrationsTypeCorrect == Spec => []MigTypeOK
<1>1. MigInv => MigTypeOK
  BY DEF MigInv
<1> QED
  BY MigrationsInvariant, <1>1, PTL

\* A version recorded as success has all its tables, and "up to date" is reported
\* of a complete schema only (upsert_migration_record, run_migrations).
THEOREM RecordedSuccessIsTrue == Spec => []SuccessIsTrue
<1>1. MigInv => SuccessIsTrue
  BY DEF MigInv, RecordsTrue, RunOK, SuccessIsTrue
<1> QED
  BY MigrationsInvariant, <1>1, PTL

\* No statement of a version takes effect before those of the lower versions, however
\* many runs race (plan_pending_migrations over the files in order).
THEOREM MigrationsInOrder == Spec => []AppliedInOrder
<1>1. MigInv => AppliedInOrder
  BY DEF MigInv
<1> QED
  BY MigrationsInvariant, <1>1, PTL
================================================================================
