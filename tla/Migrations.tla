----------------------------- MODULE Migrations -----------------------------
(***************************************************************************)
(* Postgres.Migrate of internal/store/postgres.go, run by any number of    *)
(* gateway-admin processes at once (migrate and bootstrap), which may lose *)
(* their connection or die between any two statements.                     *)
(*                                                                         *)
(* PostgreSQL is modelled by what the code relies on: a transaction's      *)
(* writes become visible together at its commit, at the default isolation  *)
(* level a statement sees what is committed when it starts, and the        *)
(* advisory lock is released when its transaction ends.  A migration file  *)
(* is its position in the sorted list.                                     *)
(*                                                                         *)
(* Definitions whose name ends in _Bug are deliberately wrong variants.    *)
(***************************************************************************)
EXTENDS Integers, Sequences

CONSTANTS Migrators, Files

ASSUME FilesAssumption == Files \in Nat \ {0}

VARIABLES
    table,      \* schema_migrations exists
    recorded,   \* committed rows of schema_migrations
    schema,     \* committed migrations, in the order of their commits
    lock,       \* transactions that hold the advisory lock
    pc, file,   \* per migrator: next statement, current file
    wrote       \* per migrator: what its open transaction has written

vars == <<table, recorded, schema, lock, pc, file, wrote>>

Init ==
    /\ table = FALSE /\ recorded = {} /\ schema = <<>> /\ lock = {}
    /\ pc = [m \in Migrators |-> "idle"]
    /\ file = [m \in Migrators |-> 1]
    /\ wrote = [m \in Migrators |-> {}]

Goto(m, at) == pc' = [pc EXCEPT ![m] = at]

\* The transaction of m is over, its lock released and its writes gone or published.
EndTransaction(m) ==
    /\ lock' = lock \ {m}
    /\ wrote' = [wrote EXCEPT ![m] = {}]

\* CREATE TABLE IF NOT EXISTS schema_migrations, outside the lock.
Migrate(m) ==
    /\ pc[m] = "idle"
    /\ table' = TRUE
    /\ file' = [file EXCEPT ![m] = 1]
    /\ Goto(m, "lock")
    /\ UNCHANGED <<recorded, schema, lock, wrote>>

Lock_Bug(m) ==
    /\ pc[m] = "lock"
    /\ lock' = lock \cup {m}
    /\ Goto(m, "check")
    /\ UNCHANGED <<table, recorded, schema, file, wrote>>

\* Begin and pg_advisory_xact_lock.
Lock(m) ==
    /\ pc[m] = "lock" /\ lock = {}
    /\ lock' = {m}
    /\ Goto(m, "check")
    /\ UNCHANGED <<table, recorded, schema, file, wrote>>

Check_Bug(m) ==
    /\ pc[m] = "check"
    /\ Goto(m, IF file[m] \in recorded THEN "done" ELSE "apply")
    /\ UNCHANGED <<table, recorded, schema, lock, file, wrote>>

\* SELECT EXISTS.
Check(m) ==
    /\ pc[m] = "check"
    /\ Goto(m, IF file[m] \in recorded THEN "commit" ELSE "apply")
    /\ UNCHANGED <<table, recorded, schema, lock, file, wrote>>

\* The statements of the file.
Apply(m) ==
    /\ pc[m] = "apply"
    /\ wrote' = [wrote EXCEPT ![m] = @ \cup {"schema"}]
    /\ Goto(m, "record")
    /\ UNCHANGED <<table, recorded, schema, lock, file>>

\* INSERT INTO schema_migrations.
Record(m) ==
    /\ pc[m] = "record"
    /\ wrote' = [wrote EXCEPT ![m] = @ \cup {"row"}]
    /\ Goto(m, "commit")
    /\ UNCHANGED <<table, recorded, schema, lock, file>>

\* What a commit makes visible.
Publish(m) ==
    /\ schema' = IF "schema" \in wrote[m] THEN Append(schema, file[m]) ELSE schema
    /\ recorded' = IF "row" \in wrote[m] THEN recorded \cup {file[m]} ELSE recorded
    /\ EndTransaction(m)

Commit(m) ==
    /\ pc[m] = "commit"
    /\ Publish(m)
    /\ file' = [file EXCEPT ![m] = @ + 1]
    /\ Goto(m, IF file[m] = Files THEN "done" ELSE "lock")
    /\ UNCHANGED table

\* The connection is lost after the commit and before its answer.
CommitUnknown(m) ==
    /\ pc[m] = "commit"
    /\ Publish(m)
    /\ Goto(m, "failed")
    /\ UNCHANGED <<table, file>>

Fail_Bug(m) ==
    /\ pc[m] \in {"idle", "lock", "check", "apply", "record", "commit"}
    /\ wrote' = [wrote EXCEPT ![m] = {}]
    /\ Goto(m, "failed")
    /\ UNCHANGED <<table, recorded, schema, lock, file>>

\* A statement fails, the context expires or the process dies: rollback.
Fail(m) ==
    /\ pc[m] \in {"idle", "lock", "check", "apply", "record", "commit"}
    /\ EndTransaction(m)
    /\ Goto(m, "failed")
    /\ UNCHANGED <<table, recorded, schema, file>>

\* The operator, or the container runtime, starts the command again.
Retry(m) ==
    /\ pc[m] \in {"failed", "done"}
    /\ Goto(m, "idle")
    /\ UNCHANGED <<table, recorded, schema, lock, file, wrote>>

Step(m) == Migrate(m) \/ Lock(m) \/ Check(m) \/ Apply(m) \/ Record(m) \/ Commit(m)

Next ==
    \E m \in Migrators : Step(m) \/ CommitUnknown(m) \/ Fail(m) \/ Retry(m)

Spec == Init /\ [][Next]_vars

\* Statements return, the lock queue of PostgreSQL is fair, and failures end.
LiveSpec == Spec /\ \A m \in Migrators : SF_vars(Step(m))

-----------------------------------------------------------------------------
(* Properties *)

\* Types: applyMigration never moves past the last file, and only files that exist
\* are applied or recorded.
TypeOK ==
    /\ table \in BOOLEAN /\ recorded \subseteq 1..Files /\ schema \in Seq(1..Files)
    /\ lock \subseteq Migrators
    /\ pc \in [Migrators -> {"idle", "lock", "check", "apply", "record", "commit", "done", "failed"}]
    /\ file \in [Migrators -> 1..(Files + 1)]
    /\ wrote \in [Migrators -> SUBSET {"schema", "row"}]

\* Every migration is applied at most once and in the order of the file names, and
\* schema_migrations lists exactly the applied ones, whatever fails and however
\* many processes run Migrate.
AppliedOnceInOrder ==
    /\ Len(schema) <= Files
    /\ \A i \in 1..Len(schema) : schema[i] = i
    /\ recorded = 1..Len(schema)

\* Migrate returns nil only if the schema is complete, also when another process
\* applied the files.
DoneMeansMigrated ==
    \A m \in Migrators : pc[m] = "done" => Len(schema) = Files

\* A migrator that has started ends, successfully or not: nobody waits for ever for
\* the advisory lock, because a failed transaction gives it back.
MigrateEnds ==
    \A m \in Migrators : pc[m] = "lock" ~> pc[m] \in {"done", "failed"}
=============================================================================
