--------------------------- MODULE ExportManifest ---------------------------
(* Dataset files and the manifest rows that describe them: run_export_dataset *)
(* overwrites one file per dataset path and adds a row, rebuild_manifest adds *)
(* rows for the files it finds, run_manifest_audit compares rows and files.   *)
(* Any of them may run at the same time, each is a process without a lock.    *)
(* A content stands for its size and its hash: equal hashes are equal files.  *)
EXTENDS Integers, FiniteSets, Sequences, FiniteSetsExt, Functions

CONSTANTS
    PathOrder,      \* the dataset paths, in the order of sorted(rglob)
    Exporters,      \* processes of run_export_dataset
    Times,          \* the timestamps a bar can have
    Ranges,         \* <<start, end>> arguments of an export
    MaxStores,      \* bound: bars written by the sync while the commands run
    MaxRuns,        \* bound: commands started
    MaxFaults       \* bound: kills and errors

Paths == Range(PathOrder)

ASSUME ExportAssumption ==
    /\ PathOrder \in Seq(Paths) /\ PathOrder # <<>>
    /\ Times \subseteq Nat \ {0} /\ IsFiniteSet(Times)
    /\ Ranges \subseteq Times \X Times
    /\ MaxStores \in Nat /\ MaxRuns \in Nat /\ MaxFaults \in Nat

VARIABLES
    db,      \* per path, the version of the bar at each time, 0 when absent
    file,    \* per path, what is on disk
    rows,    \* table file_manifests, by id
    ex,      \* the export processes
    rb,      \* the rebuild process
    au,      \* the audit process
    changes, \* how often a file or the table changed
    settled, \* per path: the last to change it ran alone and finished
    stores, runs, faults

vars == <<db, file, rows, ex, rb, au, changes, settled, stores, runs, faults>>
bounds == <<stores, runs, faults>>

Bars == Times \X (1..MaxStores + 1)
NoFile == [kind |-> "none", bars |-> {}, at |-> 0]
Torn(n) == [kind |-> "torn", bars |-> {}, at |-> n]
Full(bars) == [kind |-> "full", bars |-> bars, at |-> 0]

IdleExport == [pc |-> "idle", path |-> PathOrder[1], range |-> <<0, 0>>,
               bars |-> {}, hash |-> NoFile, mixed |-> FALSE, solo |-> FALSE]
IdleRebuild == [pc |-> "idle", left |-> {}, dry |-> FALSE, read |-> {},
                hash |-> NoFile, skipped |-> FALSE, solo |-> FALSE]
IdleAudit == [pc |-> "idle", all |-> {}, left |-> {}, row |-> 0, drift |-> FALSE,
              failures |-> 0, missing |-> 0, since |-> 0, exit |-> "none"]

Init ==
    /\ db = [p \in Paths |-> [t \in Times |-> IF t = 1 THEN 1 ELSE 0]]
    /\ file = [p \in Paths |-> NoFile]
    /\ rows = <<>>
    /\ ex = [e \in Exporters |-> IdleExport]
    /\ rb = IdleRebuild
    /\ au = IdleAudit
    /\ changes = 0
    /\ settled = [p \in Paths |-> FALSE]
    /\ stores = 0 /\ runs = 0 /\ faults = 0

Exists(p) == file[p] # NoFile
StartRun == runs < MaxRuns /\ runs' = runs + 1 /\ UNCHANGED <<stores, faults>>
Fault == faults < MaxFaults /\ faults' = faults + 1 /\ UNCHANGED <<stores, runs>>

SetFile(p, content) ==
    /\ file' = [file EXCEPT ![p] = content]
    /\ changes' = changes + 1
    /\ settled' = [settled EXCEPT ![p] = FALSE]

\* ManifestRepository.insert; alone tells whether its writer ran alone.
Insert(row, alone) ==
    /\ rows' = Append(rows, row)
    /\ changes' = changes + 1
    /\ settled' = [settled EXCEPT ![row.path] = alone]

-----------------------------------------------------------------------------
(* run_export_dataset.                                                       *)

OnPath(p) == {e \in Exporters : ex[e].pc # "idle" /\ ex[e].path = p}

QueryRange(p, r) ==
    {<<t, db[p][t]>> : t \in {u \in Times : db[p][u] > 0 /\ r[1] <= u /\ u <= r[2]}}

ExQueries(e) ==
    /\ ex[e].pc = "idle" /\ StartRun
    /\ \E p \in Paths, r \in Ranges :
          ex' = [f \in Exporters |->
                    IF f = e
                    THEN [IdleExport EXCEPT
                             !.pc = "open", !.path = p, !.range = r, !.bars = QueryRange(p, r),
                             !.solo = OnPath(p) = {} /\ rb.pc = "idle"]
                    ELSE [ex[f] EXCEPT !.solo = @ /\ f \notin OnPath(p)]]
    /\ rb' = [rb EXCEPT !.solo = FALSE]
    /\ UNCHANGED <<db, file, rows, au, changes, settled>>

\* to_parquet opens the path for writing: the file that was there is gone.
Writing(p) == {f \in OnPath(p) : ex[f].pc = "write"}
ExOpens(e) ==
    LET p == ex[e].path IN
    /\ ex[e].pc = "open"
    /\ SetFile(p, Torn(changes + 1))
    /\ ex' = [f \in Exporters |->
                 IF f = e THEN [ex[e] EXCEPT !.pc = "write", !.mixed = Writing(p) # {}]
                 ELSE [ex[f] EXCEPT !.mixed = @ \/ f \in Writing(p)]]
    /\ UNCHANGED <<db, rows, rb, au, bounds>>

\* Two that have the path open overwrite each other's bytes.
ExFlushes(e) ==
    LET p == ex[e].path IN
    /\ ex[e].pc = "write" /\ ex[e].mixed /\ file[p].kind = "full"
    /\ SetFile(p, Torn(changes + 1))
    /\ UNCHANGED <<db, rows, ex, rb, au, bounds>>

\* Mutant: the hash is taken before the file is closed.
MutExWritten(e) ==
    LET p == ex[e].path IN
    /\ ex[e].pc = "write"
    /\ SetFile(p, Full(ex[e].bars))
    /\ ex' = [ex EXCEPT ![e].pc = "insert", ![e].hash = file[p]]
    /\ UNCHANGED <<db, rows, rb, au, bounds>>

ExWritten(e) ==
    LET p == ex[e].path IN
    /\ ex[e].pc = "write"
    /\ \/ Exists(p) /\ SetFile(p, Full(ex[e].bars))
       \/ ex[e].mixed /\ UNCHANGED <<file, changes, settled>>
    /\ ex' = [ex EXCEPT ![e].pc = "hash"]
    /\ UNCHANGED <<db, rows, rb, au, bounds>>

\* getsize and _sha256_file read the path again.
ExHashes(e) ==
    /\ ex[e].pc = "hash"
    /\ ex' = IF file[ex[e].path] = NoFile THEN [ex EXCEPT ![e] = IdleExport]
             ELSE [ex EXCEPT ![e].pc = "insert", ![e].hash = file[ex[e].path]]
    /\ UNCHANGED <<db, file, rows, rb, au, changes, settled, bounds>>

\* The row has the range that was asked for, the count that was queried and the
\* path as it was given: with a relative --output-dir, relative to wherever the
\* command was started.
ExInserts(e) ==
    LET x == ex[e] IN
    /\ x.pc = "insert"
    /\ \E form \in {"absolute", "started"} :
          Insert([path |-> x.path, form |-> form, start |-> x.range[1], end |-> x.range[2],
                  count |-> Cardinality(x.bars), hash |-> x.hash], x.solo)
    /\ ex' = [ex EXCEPT ![e] = IdleExport]
    /\ UNCHANGED <<db, file, rb, au, bounds>>

\* An error of the query, the write or the insert, or a kill.  A write that
\* fails removes its file, a kill leaves the part that was written.
ExStops(e) ==
    /\ ex[e].pc # "idle" /\ Fault
    /\ ex' = [ex EXCEPT ![e] = IdleExport]
    /\ \/ UNCHANGED <<file, changes, settled>>
       \/ ex[e].pc = "write" /\ SetFile(ex[e].path, NoFile)
    /\ UNCHANGED <<db, rows, rb, au>>

-----------------------------------------------------------------------------
(* rebuild_manifest.                                                         *)

RbStarts ==
    /\ rb.pc = "idle" /\ StartRun
    /\ \E dry \in BOOLEAN :
          rb' = [IdleRebuild EXCEPT
                    !.pc = "read", !.dry = dry,
                    !.left = {i \in DOMAIN PathOrder : Exists(PathOrder[i])},
                    !.solo = \A e \in Exporters : ex[e].pc = "idle"]
    /\ ex' = [e \in Exporters |-> [ex[e] EXCEPT !.solo = FALSE]]
    /\ UNCHANGED <<db, file, rows, au, changes, settled>>

\* The files are taken in the order of their paths.
RbPath == PathOrder[Min(rb.left)]

\* Mutant: the loop is left at the first file that cannot be read.
MutSkip ==
    [rb EXCEPT !.pc = "read", !.left = IF rb.pc = "read" THEN {} ELSE @ \ {Min(@)}]

\* A file that cannot be read is left out.
Skip == [rb EXCEPT !.pc = "read", !.left = @ \ {Min(@)}]

RbReads ==
    /\ rb.pc = "read" /\ rb.left # {}
    /\ rb' = LET c == file[RbPath] IN
             IF c.kind = "full" THEN [rb EXCEPT !.pc = "hash", !.read = c.bars] ELSE Skip
    /\ UNCHANGED <<db, file, rows, ex, au, changes, settled, bounds>>

RbHashes ==
    /\ rb.pc = "hash"
    /\ rb' = IF rb.dry \/ ~Exists(RbPath) THEN Skip
             ELSE [rb EXCEPT !.pc = "insert", !.hash = file[RbPath]]
    /\ UNCHANGED <<db, file, rows, ex, au, changes, settled, bounds>>

\* _extract_timestamp_range
TimesOf(bars) == {b[1] : b \in bars}
FirstTime(bars) == IF bars = {} THEN 0 ELSE Min(TimesOf(bars))
LastTime(bars) == IF bars = {} THEN 0 ELSE Max(TimesOf(bars))

RbInserts ==
    /\ rb.pc = "insert"
    /\ Insert([path |-> RbPath, form |-> "root",
               start |-> FirstTime(rb.read), end |-> LastTime(rb.read),
               count |-> Cardinality(rb.read), hash |-> rb.hash], rb.solo)
    /\ rb' = Skip
    /\ UNCHANGED <<db, file, ex, au, bounds>>

\* The error of an insert is swallowed and the next file is taken.
RbInsertFails ==
    /\ rb.pc = "insert" /\ Fault
    /\ rb' = [Skip EXCEPT !.skipped = TRUE]
    /\ UNCHANGED <<db, file, rows, ex, au, changes, settled>>

RbEnds ==
    /\ rb.pc = "read" /\ rb.left = {}
    /\ rb' = IdleRebuild
    /\ UNCHANGED <<db, file, rows, ex, au, changes, settled, bounds>>

RbKilled ==
    /\ rb.pc # "idle" /\ Fault
    /\ rb' = IdleRebuild
    /\ UNCHANGED <<db, file, rows, ex, au, changes, settled>>

-----------------------------------------------------------------------------
(* run_manifest_audit.                                                       *)

\* Without a dataset name or a symbol no manifest is loaded.
AuLists ==
    /\ au.pc = "idle" /\ StartRun
    /\ \E all \in {DOMAIN rows, {}} :
          au' = [IdleAudit EXCEPT !.pc = "open", !.all = all, !.left = all, !.since = changes]
    /\ UNCHANGED <<db, file, rows, ex, rb, changes, settled>>

\* _resolve_file_path takes what is not absolute as relative to the export root.
Resolves(row) == row.form # "started"

Done(a, failed, notFound) ==
    [a EXCEPT !.pc = "open", !.left = @ \ {a.row}, !.drift = FALSE,
              !.failures = @ + (IF failed THEN 1 ELSE 0),
              !.missing = @ + (IF notFound THEN 1 ELSE 0)]

AuOpens ==
    /\ au.pc = "open"
    /\ \E i \in au.left :
          LET row == rows[i] IN
          au' = IF ~Resolves(row) \/ ~Exists(row.path)
                THEN Done([au EXCEPT !.row = i], TRUE, TRUE)
                ELSE [au EXCEPT !.pc = "read", !.row = i, !.drift = file[row.path] # row.hash]
    /\ UNCHANGED <<db, file, rows, ex, rb, changes, settled, bounds>>

Describes(row, bars) ==
    /\ row.count = Cardinality(bars)
    /\ bars # {} => row.start = FirstTime(bars) /\ row.end = LastTime(bars)

\* Mutant: what the hash said is forgotten when the rows are right.
MutAuReads ==
    LET row == rows[au.row]
        c == file[row.path] IN
    /\ au.pc = "read"
    /\ \/ c.kind = "full" /\ au' = Done(au, ~Describes(row, c.bars), FALSE)
       \/ c.kind # "full" /\ au' = Done(au, TRUE, FALSE)
    /\ UNCHANGED <<db, file, rows, ex, rb, changes, settled, bounds>>

\* "not found" is looked for in every finding, and the error of a cut file
\* says that the magic bytes were not found.
AuReads ==
    LET row == rows[au.row]
        c == file[row.path] IN
    /\ au.pc = "read"
    /\ \/ c.kind = "full" /\ au' = Done(au, au.drift \/ ~Describes(row, c.bars), FALSE)
       \/ c.kind = "none" /\ au' = Done(au, TRUE, FALSE)
       \/ c.kind = "torn" /\ \E cut \in BOOLEAN : au' = Done(au, TRUE, cut)
    /\ UNCHANGED <<db, file, rows, ex, rb, changes, settled, bounds>>

AuEnds ==
    /\ au.pc = "open" /\ au.left = {}
    /\ au' = [IdleAudit EXCEPT !.exit =
                 IF au.failures = 0 THEN "success"
                 ELSE IF au.missing > 0 THEN "audit_failure" ELSE "validation_error"]
    /\ UNCHANGED <<db, file, rows, ex, rb, changes, settled, bounds>>

-----------------------------------------------------------------------------

\* The sync commands store a bar, or overwrite one.
StoreBar ==
    /\ stores < MaxStores /\ stores' = stores + 1
    /\ \E p \in Paths, t \in Times : db' = [db EXCEPT ![p][t] = @ + 1]
    /\ UNCHANGED <<file, rows, ex, rb, au, changes, settled, runs, faults>>

Next ==
    \/ StoreBar
    \/ \E e \in Exporters :
          \/ ExQueries(e) \/ ExOpens(e) \/ ExFlushes(e) \/ ExWritten(e)
          \/ ExHashes(e) \/ ExInserts(e) \/ ExStops(e)
    \/ RbStarts \/ RbReads \/ RbHashes \/ RbInserts \/ RbInsertFails \/ RbEnds \/ RbKilled
    \/ AuLists \/ AuOpens \/ AuReads \/ AuEnds

Spec == Init /\ [][Next]_vars

-----------------------------------------------------------------------------

Content == [kind : {"none", "torn", "full"}, bars : SUBSET Bars, at : Nat]
Row == [path : Paths, form : {"absolute", "started", "root"}, start : Times \cup {0},
        end : Times \cup {0}, count : Nat, hash : Content]
Export == [pc : {"idle", "open", "write", "hash", "insert"}, path : Paths,
           range : Ranges \cup {<<0, 0>>}, bars : SUBSET Bars, hash : Content,
           mixed : BOOLEAN, solo : BOOLEAN]
Rebuild == [pc : {"idle", "read", "hash", "insert"}, left : SUBSET DOMAIN PathOrder,
            dry : BOOLEAN, read : SUBSET Bars, hash : Content, skipped : BOOLEAN,
            solo : BOOLEAN]
Audit == [pc : {"idle", "open", "read"}, all : SUBSET Nat, left : SUBSET Nat, row : Nat,
          drift : BOOLEAN, failures : Nat, missing : Nat, since : Nat,
          exit : {"none", "success", "audit_failure", "validation_error"}]

TypeOK ==
    /\ db \in [Paths -> [Times -> 0..stores + 1]]
    /\ file \in [Paths -> Content]
    /\ rows \in Seq(Row)
    /\ ex \in [Exporters -> Export]
    /\ rb \in Rebuild
    /\ au \in Audit
    /\ au.left \subseteq au.all /\ au.all \subseteq DOMAIN rows
    /\ settled \in [Paths -> BOOLEAN] /\ changes \in Nat
    /\ stores \in 0..MaxStores /\ runs \in 0..MaxRuns /\ faults \in 0..MaxFaults

\* Where the last command to touch a dataset path was an export or a rebuild
\* that ran alone and reached its insert, the newest manifest row of the path
\* describes the file that is there: its hash, its number of rows, and a range
\* that holds every bar - whatever ran, failed or was killed before
\* (_write_and_manifest, rebuild_manifests).
Newest(p) == Max({i \in DOMAIN rows : rows[i].path = p})
SettledPathDescribed ==
    \A p \in Paths : settled[p] =>
        /\ \E i \in DOMAIN rows : rows[i].path = p
        /\ LET row == rows[Newest(p)] IN
           /\ file[p].kind = "full" /\ row.hash = file[p]
           /\ row.count = Cardinality(file[p].bars)
           /\ \A t \in TimesOf(file[p].bars) : row.start <= t /\ t <= row.end

ManifestInv == TypeOK /\ SettledPathDescribed

\* A rebuild that no export ran into and whose inserts all succeeded ends with a
\* row that the audit would accept for every file that can be read, whatever was
\* left half-done before (rebuild_manifests: one bad file does not stop it).
Accepted(row) ==
    /\ Resolves(row) /\ file[row.path].kind = "full"
    /\ row.hash = file[row.path] /\ Describes(row, file[row.path].bars)
RebuildRepairs ==
    [][RbEnds /\ rb.solo /\ ~rb.dry /\ ~rb.skipped =>
          \A p \in Paths : file[p].kind = "full" =>
              \E i \in DOMAIN rows : rows[i].path = p /\ Accepted(rows[i])]_vars

\* An audit during which nothing changed says success exactly when every row it
\* listed is true of its file, and says that files are missing only when one
\* cannot be found or opened (run_audit, audit_manifest).
AuditVerdict ==
    [][AuEnds /\ au.since = changes =>
          /\ au'.exit = "success" <=> \A i \in au.all : Accepted(rows[i])
          /\ au'.exit = "audit_failure" =>
                 \E i \in au.all : ~Resolves(rows[i]) \/ file[rows[i].path].kind # "full"]_vars
=============================================================================
