------------------------------ MODULE Migrations ------------------------------
(***************************************************************************)
(* persistence/migrations.py, as init_mysql_schema runs it: the versioned  *)
(* SQL files, the table schema_migrations, and any number of runs of the   *)
(* command, at once or one after the other, against one database.          *)
(*                                                                         *)
(* A run is cut where it talks to MySQL.  Each statement of a migration is *)
(* a CREATE TABLE IF NOT EXISTS and commits by itself; the record of a     *)
(* migration is a SELECT and then an INSERT or UPDATE that commits.  Of a  *)
(* file the model keeps its checksum and whether its last statement is     *)
(* wrong.                                                                  *)
(***************************************************************************)
EXTENDS Naturals, FiniteSets, FiniteSetsExt

CONSTANTS Runners,      \* processes that run the command
          LastVersion,         \* the highest version; version 0 is the bootstrap
          Statements,   \* Statements[m]: how many statements migration m has
          Checksums,    \* the contents a file may have
          Wrong,        \* those whose last statement MySQL rejects
          FirstFiles,   \* what the files may be at the start
          MaxEdits,     \* bound: edits of a file
          MaxFaults     \* bound: lost connections and killed runs

Versions == 0..LastVersion

ASSUME MigrationsAssumption ==
    /\ LastVersion \in Nat /\ MaxEdits \in Nat /\ MaxFaults \in Nat
    /\ Statements \in [Versions -> Nat \ {0}]
    /\ Wrong \subseteq Checksums
    /\ FirstFiles \subseteq [Versions -> Checksums]

VARIABLES
    files,    \* the migration files: the checksum of each version
    tables,   \* the statements that took effect: <<version, k>>
    records,  \* schema_migrations: checksum and status of each version
    run,      \* the runs
    edits, faults

vars == <<files, tables, records, run, edits, faults>>

NoRecord == [checksum |-> "none", status |-> "none"]
Record(c, s) == [checksum |-> c, status |-> s]
AllOf(m) == {m} \X (1..Statements[m])

\* todo: the versions still to apply, the lowest at work; k: its next statement;
\* found: what the SELECT of its record saw.
Ended(result) == [pc |-> "ended", apply |-> FALSE, files |-> <<>>, todo |-> {},
                  k |-> 1, found |-> FALSE, result |-> result]

PCs == {"bootstrap", "statement", "lookup", "record", "fetch", "fail_lookup",
        "fail_record", "final", "ended"}

Results == {"none", "bootstrapping", "error", "mismatch", "pending", "up_to_date"}

MigTypeOK ==
    /\ files \in [Versions -> Checksums]
    /\ tables \subseteq UNION {AllOf(m) : m \in Versions}
    /\ records \in [Versions -> {NoRecord} \cup [checksum : Checksums,
                                                status : {"success", "failed"}]]
    /\ run \in [Runners -> [pc : PCs, apply : BOOLEAN,
                           files : [Versions -> Checksums] \cup {<<>>},
                           todo : SUBSET Versions, k : Nat, found : BOOLEAN,
                           result : Results]]
    /\ edits \in 0..MaxEdits /\ faults \in 0..MaxFaults

Init ==
    /\ files \in FirstFiles
    /\ tables = {}
    /\ records = [m \in Versions |-> NoRecord]
    /\ run = [r \in Runners |-> Ended("none")]
    /\ edits = 0 /\ faults = 0

-----------------------------------------------------------------------------
table_exists == AllOf(0) \subseteq tables
Exists(m) == records[m] # NoRecord
Working(r) == Min(run[r].todo)

\* The bootstrap migration is being applied by ensure_bootstrap_schema_table.
Bootstrapping(r) == run[r].result = "bootstrapping"

To(r, state) == run' = [run EXCEPT ![r] = state]
End(r, result) == To(r, Ended(result))

\* plan_pending_migrations over the files the run has loaded.
Mismatch(r) == \E m \in Versions : Exists(m) /\ records[m].checksum # run[r].files[m]
Pending == {m \in Versions : records[m].status # "success"}

-----------------------------------------------------------------------------
Start(r, apply) ==
    /\ run[r].pc = "ended"
    /\ To(r, [Ended("none") EXCEPT !.pc = IF apply THEN "bootstrap" ELSE "fetch",
                                   !.apply = apply, !.files = files])
    /\ UNCHANGED <<files, tables, records, edits, faults>>

ensure_bootstrap_schema_table(r) ==
    /\ run[r].pc = "bootstrap"
    /\ IF table_exists
       THEN To(r, [run[r] EXCEPT !.pc = "fetch"])
       ELSE To(r, [run[r] EXCEPT !.pc = "statement", !.todo = {0}, !.k = 1,
                                 !.result = "bootstrapping"])
    /\ UNCHANGED <<files, tables, records, edits, faults>>

fetch_and_plan(r) ==
    /\ run[r].pc = "fetch"
    /\ \/ Mismatch(r) /\ End(r, "mismatch")
       \/ ~Mismatch(r) /\ ~run[r].apply
          /\ End(r, IF Pending = {} THEN "up_to_date" ELSE "pending")
       \/ ~Mismatch(r) /\ run[r].apply
          /\ To(r, [run[r] EXCEPT !.pc = IF Pending = {} THEN "final" ELSE "statement",
                                  !.todo = Pending, !.k = 1])
    /\ UNCHANGED <<files, tables, records, edits, faults>>

\* One statement: the last one of a wrong file is rejected.
Rejected(r) == /\ run[r].files[Working(r)] \in Wrong
               /\ run[r].k = Statements[Working(r)]

execute_statement(r) ==
    /\ run[r].pc = "statement" /\ ~Rejected(r)
    /\ tables' = tables \cup {<<Working(r), run[r].k>>}
    /\ To(r, IF run[r].k < Statements[Working(r)]
             THEN [run[r] EXCEPT !.k = @ + 1] ELSE [run[r] EXCEPT !.pc = "lookup"])
    /\ UNCHANGED <<files, records, edits, faults>>

\* An exception: apply_single_migration records the failure in a transaction of its
\* own and gives up; ensure_bootstrap_schema_table only gives up.
Raise(r) == IF Bootstrapping(r) THEN End(r, "error")
            ELSE To(r, [run[r] EXCEPT !.pc = "fail_lookup"])

\* Mutant: the error of a statement is ignored.
MutRejectStatement(r) ==
    /\ run[r].pc = "statement" /\ Rejected(r)
    /\ To(r, [run[r] EXCEPT !.pc = "lookup"])
    /\ UNCHANGED <<files, tables, records, edits, faults>>

reject_statement(r) ==
    /\ run[r].pc = "statement" /\ Rejected(r)
    /\ Raise(r)
    /\ UNCHANGED <<files, tables, records, edits, faults>>

lookup_record(r) ==
    /\ run[r].pc = "lookup"
    /\ To(r, [run[r] EXCEPT !.pc = "record", !.found = Exists(Working(r))])
    /\ UNCHANGED <<files, tables, records, edits, faults>>

\* The INSERT of a version that another run has inserted meanwhile violates the
\* unique key.
Duplicate(r) == ~run[r].found /\ Exists(Working(r))

\* Mutant: a plain INSERT, an existing record stays as it is.
MutUpsertInsert(r, status) ==
    records' = IF Exists(Working(r)) THEN records
               ELSE [records EXCEPT ![Working(r)] = Record(run[r].files[Working(r)], status)]

\* Mutant: the status is not one that plan_pending_migrations supports.
MutUpsertStatus(r, status) ==
    records' = [records EXCEPT ![Working(r)] = Record(run[r].files[Working(r)], "running")]

Upsert(r, status) ==
    records' = [records EXCEPT ![Working(r)] = Record(run[r].files[Working(r)], status)]

\* The migration is recorded, and the next one begins.
NextMigration(r) ==
    LET rest == run[r].todo \ {Working(r)} IN
    IF Bootstrapping(r) THEN [run[r] EXCEPT !.pc = "fetch", !.todo = {}, !.result = "none"]
    ELSE [run[r] EXCEPT !.pc = IF rest = {} THEN "final" ELSE "statement",
                        !.todo = rest, !.k = 1]

record_success(r) ==
    /\ run[r].pc = "record"
    /\ IF Duplicate(r) THEN Raise(r) /\ UNCHANGED records
                       ELSE Upsert(r, "success") /\ To(r, NextMigration(r))
    /\ UNCHANGED <<files, tables, edits, faults>>

lookup_failure(r) ==
    /\ run[r].pc = "fail_lookup"
    /\ IF table_exists
       THEN To(r, [run[r] EXCEPT !.pc = "fail_record", !.found = Exists(Working(r))])
       ELSE End(r, "error")
    /\ UNCHANGED <<files, tables, records, edits, faults>>

\* Mutant: the failure is recorded, and the run goes on with the next migration.
MutRecordFailure(r) ==
    /\ run[r].pc = "fail_record"
    /\ IF Duplicate(r) THEN UNCHANGED records ELSE Upsert(r, "failed")
    /\ To(r, NextMigration(r))
    /\ UNCHANGED <<files, tables, edits, faults>>

\* Whatever goes wrong here is swallowed.
record_failure(r) ==
    /\ run[r].pc = "fail_record"
    /\ IF Duplicate(r) THEN UNCHANGED records ELSE Upsert(r, "failed")
    /\ End(r, "error")
    /\ UNCHANGED <<files, tables, edits, faults>>

final_check(r) ==
    /\ run[r].pc = "final"
    /\ End(r, IF Mismatch(r) THEN "mismatch"
              ELSE IF Pending = {} THEN "up_to_date" ELSE "pending")
    /\ UNCHANGED <<files, tables, records, edits, faults>>

Step(r) ==
    \/ ensure_bootstrap_schema_table(r) \/ fetch_and_plan(r)
    \/ execute_statement(r) \/ reject_statement(r)
    \/ lookup_record(r) \/ record_success(r)
    \/ lookup_failure(r) \/ record_failure(r) \/ final_check(r)

-----------------------------------------------------------------------------
(* Faults, and the people around the command.                                 *)

Fault == faults < MaxFaults /\ faults' = faults + 1

\* A statement or a record loses the connection; a COMMIT may have been executed.
LoseConnection(r) ==
    /\ run[r].pc \in {"statement", "lookup", "record"}
    /\ Fault /\ Raise(r)
    /\ \/ UNCHANGED records
       \/ run[r].pc = "record" /\ ~Duplicate(r) /\ Upsert(r, "success")
    /\ UNCHANGED <<files, tables, edits>>

\* The run is killed, or an exception nobody handles ends it.
Kill(r) ==
    /\ run[r].pc # "ended"
    /\ Fault /\ End(r, "error")
    /\ UNCHANGED <<files, tables, records, edits>>

\* A developer changes a migration file.
Edit(m) ==
    /\ edits < MaxEdits /\ edits' = edits + 1
    /\ \E c \in Checksums \ {files[m]} : files' = [files EXCEPT ![m] = c]
    /\ UNCHANGED <<tables, records, run, faults>>

Next ==
    \/ \E r \in Runners : \/ \E apply \in BOOLEAN : Start(r, apply)
                          \/ Step(r) \/ LoseConnection(r) \/ Kill(r)
    \/ \E m \in Versions : Edit(m)

Spec == Init /\ [][Next]_vars

\* A run that is under way goes on, and the command is run with --apply again and again.
FairSpec == Spec /\ \A r \in Runners : WF_vars(Step(r)) /\ SF_vars(Start(r, TRUE))

-----------------------------------------------------------------------------
(* Properties.                                                                *)

\* A migration recorded as successful has all its tables, and a run that reports
\* the schema as up to date reports the truth, whichever other runs were racing
\* with it, failing or being killed.
SuccessIsTrue ==
    /\ \A m \in Versions : records[m].status = "success" => AllOf(m) \subseteq tables
    /\ \A r \in Runners : run[r].result = "up_to_date" =>
                              \A m \in Versions : AllOf(m) \subseteq tables

\* No statement of a migration has taken effect before all those of the earlier
\* ones: a later file may rely on the tables of an earlier one.
AppliedInOrder ==
    \A m, j \in Versions : j < m /\ tables \cap AllOf(m) # {} => AllOf(j) \subseteq tables

\* If the command is run again and again, every migration is in the end recorded as
\* successful, also when a racing run recorded it as failed, unless a file is wrong
\* or differs from the checksum recorded for it.
Blocked == \E m \in Versions : \/ files[m] \in Wrong
                               \/ Exists(m) /\ records[m].checksum # files[m]
Converges == <>[](Pending = {}) \/ <>[]Blocked
================================================================================
