----------------------------- MODULE MCMigrations -----------------------------
(* Values of the constants for the run of Migrations. *)
EXTENDS Migrations

CONSTANTS r1, r2

MCRunners == {r1, r2}
MCStatements == [m \in 0..LastVersion |-> IF m = 1 THEN 2 ELSE 1]
MCChecksums == {"right", "wrong"}
MCWrong == {"wrong"}

\* All files right, or migration 1 wrong in its second statement.
AllRight == [m \in 0..LastVersion |-> "right"]
MCFirstFiles == {AllRight, [AllRight EXCEPT ![1] = "wrong"]}
================================================================================
