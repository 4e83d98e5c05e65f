-------------------------- MODULE MigrationsProofs --------------------------
(***************************************************************************)
(* Proofs about Migrations, for any set of migrators and number of files.  *)
(***************************************************************************)
EXTENDS Migrations, TLAPS

InTransaction == {"check", "apply", "record", "commit"}

\* The advisory lock is held by at most one transaction, and by every transaction
\* that has got past it.
LockInv ==
    /\ \A m, k \in lock : m = k
    /\ \A m \in Migrators : pc[m] \in InTransaction <=> m \in lock

\* A migrator comes to a file only after all earlier ones are committed, and runs
\* it only if it is the next one.
FileInv ==
    \A m \in Migrators :
        /\ pc[m] \in InTransaction \cup {"lock"} => file[m] <= Files /\ file[m] <= Len(schema) + 1
        /\ pc[m] \in {"apply", "record"} => file[m] = Len(schema) + 1
        /\ pc[m] = "commit" /\ wrote[m] = {} => file[m] <= Len(schema)
        /\ pc[m] = "commit" /\ wrote[m] # {} => file[m] = Len(schema) + 1

\* A transaction commits a file together with its row, or nothing.
WroteInv ==
    \A m \in Migrators :
        /\ pc[m] = "record" => wrote[m] = {"schema"}
        /\ pc[m] = "commit" => wrote[m] \in {{}, {"schema", "row"}}
        /\ pc[m] \notin {"record", "commit"} => wrote[m] = {}

MigrationInv ==
    TypeOK /\ LockInv /\ FileInv /\ WroteInv /\ AppliedOnceInOrder /\ DoneMeansMigrated

\* An empty database without migrators satisfies the invariant.
LEMMA MigrationInit == Init => MigrationInv
<1> SUFFICES ASSUME Init PROVE MigrationInv OBVIOUS
<1> USE FilesAssumption DEF Init
<1>1. TypeOK
  <2>1. schema \in Seq(1..Files) /\ recorded \subseteq 1..Files OBVIOUS
  <2>2. table \in BOOLEAN /\ lock \subseteq Migrators BY Zenon
  <2>3. pc \in [Migrators -> {"idle", "lock", "check", "apply", "record", "commit", "done", "failed"}]
    OBVIOUS
  <2>4. file \in [Migrators -> 1..(Files + 1)] OBVIOUS
  <2>5. wrote \in [Migrators -> SUBSET {"schema", "row"}] OBVIOUS
  <2> QED BY <2>1, <2>2, <2>3, <2>4, <2>5 DEF TypeOK
<1>2. LockInv BY DEF LockInv, InTransaction
<1>3. FileInv BY DEF FileInv, InTransaction
<1>4. WroteInv BY DEF WroteInv
<1>5. AppliedOnceInOrder /\ DoneMeansMigrated
  BY DEF AppliedOnceInOrder, DoneMeansMigrated
<1> QED BY <1>1, <1>2, <1>3, <1>4, <1>5 DEF MigrationInv

\* The steps that commit nothing keep the invariant: they move one migrator and
\* leave the tables alone.
LEMMA QuietPreserves ==
    ASSUME MigrationInv, NEW m \in Migrators,
           Migrate(m) \/ Lock(m) \/ Check(m) \/ Apply(m) \/ Record(m) \/ Fail(m) \/ Retry(m)
    PROVE  MigrationInv'
<1> USE FilesAssumption DEF MigrationInv, TypeOK, Goto, EndTransaction, InTransaction
<1>0. Len(schema) \in Nat /\ schema' = schema /\ recorded' = recorded
  BY DEF Migrate, Lock, Check, Apply, Record, Fail, Retry
<1>1. TypeOK'
  <2>1. (table \in BOOLEAN /\ recorded \subseteq 1..Files /\ schema \in Seq(1..Files))'
    BY <1>0, Zenon DEF Migrate, Lock, Check, Apply, Record, Fail, Retry
  <2>2. (lock \subseteq Migrators)'
    BY DEF Migrate, Lock, Check, Apply, Record, Fail, Retry
  <2>3. (pc \in [Migrators -> {"idle", "lock", "check", "apply", "record", "commit", "done", "failed"}])'
    BY DEF Migrate, Lock, Check, Apply, Record, Fail, Retry
  <2>4. (file \in [Migrators -> 1..(Files + 1)])'
    BY DEF Migrate, Lock, Check, Apply, Record, Fail, Retry
  <2>5. (wrote \in [Migrators -> SUBSET {"schema", "row"}])'
    <3>1. CASE wrote' = wrote BY <3>1
    <3>2. CASE \E x \in {{}, wrote[m] \cup {"schema"}, wrote[m] \cup {"row"}} :
                  wrote' = [wrote EXCEPT ![m] = x]
      BY <3>2
    <3> QED BY <3>1, <3>2 DEF Migrate, Lock, Check, Apply, Record, Fail, Retry
  <2> QED BY <2>1, <2>2, <2>3, <2>4, <2>5 DEF TypeOK
<1>2. LockInv' BY DEF LockInv, Migrate, Lock, Check, Apply, Record, Fail, Retry
<1>3. WroteInv'
  <2>1. CASE Migrate(m) \/ Lock(m) \/ Check(m) \/ Retry(m)
    BY <2>1 DEF WroteInv, Migrate, Lock, Check, Retry
  <2>2. CASE Apply(m)
    <3>1. wrote'[m] = {"schema"} BY <2>2, Zenon DEF WroteInv, Apply
    <3> QED BY <2>2, <3>1 DEF WroteInv, Apply
  <2>3. CASE Record(m)
    <3>1. wrote'[m] = {"schema", "row"} BY <2>3 DEF WroteInv, Record
    <3> QED BY <2>3, <3>1, Zenon DEF WroteInv, Record
  <2>4. CASE Fail(m) BY <2>4, Zenon DEF WroteInv, Fail
  <2> QED BY <2>1, <2>2, <2>3, <2>4
<1>4. AppliedOnceInOrder' BY <1>0 DEF AppliedOnceInOrder
<1>5. DoneMeansMigrated'
  BY <1>0 DEF DoneMeansMigrated, Migrate, Lock, Check, Apply, Record, Fail, Retry
<1>6. FileInv'
  <2>1. CASE Migrate(m) BY <1>0, <2>1 DEF FileInv, Migrate
  <2>2. CASE Lock(m) BY <1>0, <2>2 DEF FileInv, Lock
  <2>3. CASE Check(m)
    <3>1. wrote[m] = {} /\ file[m] <= Len(schema) + 1 /\ file[m] \in 1..(Files + 1)
      BY <2>3 DEF WroteInv, FileInv, Check
    <3>2. file[m] \in recorded <=> file[m] <= Len(schema)
      BY <1>0, <3>1 DEF AppliedOnceInOrder
    <3> QED BY <1>0, <2>3, <3>1, <3>2 DEF FileInv, Check
  <2>4. CASE Apply(m) BY <1>0, <2>4 DEF FileInv, WroteInv, Apply
  <2>5. CASE Record(m)
    <3>1. wrote'[m] # {} BY <2>5 DEF Record
    <3> QED BY <1>0, <2>5, <3>1, Zenon DEF FileInv, Record
  <2>6. CASE Fail(m) BY <1>0, <2>6 DEF FileInv, Fail
  <2>7. CASE Retry(m) BY <1>0, <2>7 DEF FileInv, Retry
  <2> QED BY <2>1, <2>2, <2>3, <2>4, <2>5, <2>6, <2>7
<1> QED BY <1>1, <1>2, <1>3, <1>4, <1>5, <1>6

\* A commit adds the next file and its row, or neither; as it holds the lock, no
\* other migrator is between its check and its commit.
LEMMA PublishPreserves ==
    ASSUME MigrationInv, NEW m \in Migrators, Commit(m) \/ CommitUnknown(m)
    PROVE  MigrationInv'
<1> USE FilesAssumption DEF InTransaction
<1>0. /\ Len(schema) \in Nat /\ schema \in Seq(1..Files) /\ file[m] \in 1..(Files + 1)
      /\ file \in [Migrators -> 1..(Files + 1)] /\ recorded = 1..Len(schema)
      /\ pc[m] = "commit" /\ file[m] <= Files
  BY DEF MigrationInv, TypeOK, FileInv, AppliedOnceInOrder, Commit, CommitUnknown
<1>1. \/ /\ wrote[m] = {} /\ file[m] <= Len(schema)
         /\ schema' = schema /\ recorded' = recorded
      \/ /\ wrote[m] # {} /\ file[m] = Len(schema) + 1
         /\ schema' = Append(schema, file[m]) /\ recorded' = recorded \cup {file[m]}
  <2>1. wrote[m] \in {{}, {"schema", "row"}} BY <1>0 DEF MigrationInv, WroteInv
  <2>2. /\ wrote[m] = {} => file[m] <= Len(schema)
        /\ wrote[m] # {} => file[m] = Len(schema) + 1
    BY <1>0 DEF MigrationInv, FileInv
  <2>3. Publish(m) BY DEF Commit, CommitUnknown
  <2> QED BY <2>1, <2>2, <2>3 DEF Publish
<1>2. /\ schema' \in Seq(1..Files) /\ Len(schema') \in Nat
      /\ Len(schema) <= Len(schema') /\ file[m] <= Len(schema')
      /\ Len(schema') <= Files
      /\ recorded' = 1..Len(schema') /\ recorded' \subseteq 1..Files
      /\ \A i \in 1..Len(schema') : schema'[i] = i
  <2>1. Len(schema) <= Files /\ \A i \in 1..Len(schema) : schema[i] = i
    BY DEF MigrationInv, AppliedOnceInOrder
  <2>2. CASE schema' = schema /\ recorded' = recorded /\ file[m] <= Len(schema)
    BY <1>0, <2>1, <2>2
  <2>3. CASE /\ file[m] = Len(schema) + 1
             /\ schema' = Append(schema, file[m]) /\ recorded' = recorded \cup {file[m]}
    <3>1. file[m] \in 1..Files BY <1>0
    <3>2. Len(schema') = Len(schema) + 1 /\ schema' \in Seq(1..Files) BY <1>0, <2>3, <3>1
    <3>3. \A i \in 1..Len(schema') : schema'[i] = i BY <1>0, <2>1, <2>3, <3>1, <3>2
    <3>4. recorded' = 1..Len(schema') BY <1>0, <2>3, <3>2
    <3> QED BY <1>0, <2>3, <3>1, <3>2, <3>3, <3>4
  <2> QED BY <1>1, <2>2, <2>3
<1>3. /\ lock' = lock \ {m} /\ wrote' = [wrote EXCEPT ![m] = {}]
      /\ \/ pc' = [pc EXCEPT ![m] = "failed"] /\ file' = file
         \/ /\ pc' = [pc EXCEPT ![m] = IF file[m] = Files THEN "done" ELSE "lock"]
            /\ file' = [file EXCEPT ![m] = file[m] + 1]
      /\ UNCHANGED table
  BY DEF Commit, CommitUnknown, Publish, EndTransaction, Goto
<1>4. lock = {m} /\ \A k \in Migrators \ {m} : pc[k] \notin InTransaction
  BY <1>0 DEF MigrationInv, LockInv, TypeOK
<1>5. TypeOK'
  <2>1. (wrote \in [Migrators -> SUBSET {"schema", "row"}])' BY <1>3 DEF MigrationInv, TypeOK
  <2>2. (file \in [Migrators -> 1..(Files + 1)])'
    <3>1. file[m] + 1 \in 1..(Files + 1) BY <1>0
    <3>2. [file EXCEPT ![m] = file[m] + 1] \in [Migrators -> 1..(Files + 1)] BY ONLY <1>0, <3>1
    <3> QED BY <1>0, <1>3, <3>2
  <2>3. (pc \in [Migrators -> {"idle", "lock", "check", "apply", "record", "commit", "done", "failed"}])'
    BY <1>3 DEF MigrationInv, TypeOK
  <2>4. (table \in BOOLEAN /\ lock \subseteq Migrators)' BY <1>3 DEF MigrationInv, TypeOK
  <2> QED BY <1>2, <2>1, <2>2, <2>3, <2>4 DEF TypeOK
<1>6. LockInv' BY <1>0, <1>3, <1>4, Zenon DEF MigrationInv, LockInv, TypeOK
<1>7. WroteInv' BY <1>0, <1>3, Zenon DEF MigrationInv, WroteInv, TypeOK
<1>8. AppliedOnceInOrder' BY <1>2 DEF AppliedOnceInOrder
<1>9. DoneMeansMigrated'
  BY <1>0, <1>2, <1>3 DEF MigrationInv, DoneMeansMigrated, TypeOK, AppliedOnceInOrder
<1>10. FileInv'
  <2> SUFFICES ASSUME NEW k \in Migrators, pc'[k] \in InTransaction \cup {"lock"}
               PROVE  pc'[k] = "lock" /\ file'[k] <= Files /\ file'[k] <= Len(schema') + 1
    BY DEF FileInv
  <2>1. CASE k = m BY <1>0, <1>2, <1>3, <2>1 DEF MigrationInv, TypeOK
  <2>2. CASE k # m
    <3>1. pc'[k] = pc[k] /\ file'[k] = file[k] /\ pc[k] = "lock"
      BY <1>3, <1>4, <2>2 DEF MigrationInv, TypeOK
    <3>2. file[k] <= Files /\ file[k] <= Len(schema) + 1 /\ file[k] \in Int
      BY <1>0, <3>1 DEF MigrationInv, FileInv
    <3> QED BY <1>0, <1>2, <3>1, <3>2
  <2> QED BY <2>1, <2>2
<1> QED BY <1>5, <1>6, <1>7, <1>8, <1>9, <1>10 DEF MigrationInv

\* Every reachable state satisfies the invariant.
THEOREM MigrationInvariance == Spec => []MigrationInv
<1>1. MigrationInv /\ [Next]_vars => MigrationInv'
  <2> SUFFICES ASSUME MigrationInv, [Next]_vars PROVE MigrationInv' OBVIOUS
  <2>1. CASE Next BY <2>1, QuietPreserves, PublishPreserves DEF Next, Step
  <2>2. CASE UNCHANGED vars
    BY <2>2 DEF vars, MigrationInv, TypeOK, LockInv, FileInv, WroteInv,
                AppliedOnceInOrder, DoneMeansMigrated
  <2> QED BY <2>1, <2>2
<1> QED BY <1>1, MigrationInit, PTL DEF Spec

\* Whatever fails and however many processes run Migrate, the files are committed
\* once each, in the order of their names, each with its row of schema_migrations.
THEOREM AppliedOnceInOrderHolds == Spec => []AppliedOnceInOrder
<1>1. MigrationInv => AppliedOnceInOrder BY DEF MigrationInv
<1> QED BY <1>1, MigrationInvariance, PTL

\* A Migrate that returns nil leaves a complete schema.
THEOREM DoneMeansMigratedHolds == Spec => []DoneMeansMigrated
<1>1. MigrationInv => DoneMeansMigrated BY DEF MigrationInv
<1> QED BY <1>1, MigrationInvariance, PTL

\* Types: no migrator counts past the last file, and schema_migrations names only files.
THEOREM TypeCorrect == Spec => []TypeOK
<1>1. MigrationInv => TypeOK BY DEF MigrationInv
<1> QED BY <1>1, MigrationInvariance, PTL
-----------------------------------------------------------------------------
(* What a commit may do, and whom the lock waits for *)

\* Nothing that a migration has committed is undone or overtaken: the schema and
\* schema_migrations change together, by the next file and its row.
SchemaOnlyGrows ==
    [][\/ UNCHANGED <<schema, recorded>>
       \/ /\ Len(schema) < Files
          /\ schema' = Append(schema, Len(schema) + 1)
          /\ recorded' = recorded \cup {Len(schema) + 1}]_vars

\* A migrator that has to wait for the advisory lock waits for one other process, which
\* is inside its transaction and gives the lock back with its next failure or commit.
WaitsForTransaction ==
    \A m \in Migrators : pc[m] = "lock" =>
        \/ lock = {}
        \/ \E k \in Migrators \ {m} : lock = {k} /\ pc[k] \in InTransaction

\* Every step that changes a table commits the next file, whoever takes it.
THEOREM SchemaOnlyGrowsHolds == Spec => SchemaOnlyGrows
<1>1. ASSUME MigrationInv, [Next]_vars
      PROVE  \/ UNCHANGED <<schema, recorded>>
             \/ /\ Len(schema) < Files
                /\ schema' = Append(schema, Len(schema) + 1)
                /\ recorded' = recorded \cup {Len(schema) + 1}
  <2>1. ASSUME NEW m \in Migrators, Commit(m) \/ CommitUnknown(m)
        PROVE  \/ UNCHANGED <<schema, recorded>>
               \/ /\ Len(schema) < Files
                  /\ schema' = Append(schema, Len(schema) + 1)
                  /\ recorded' = recorded \cup {Len(schema) + 1}
    <3>1. Publish(m) /\ pc[m] = "commit" BY <2>1 DEF Commit, CommitUnknown
    <3>2. CASE wrote[m] = {} BY <3>1, <3>2 DEF Publish
    <3>3. CASE wrote[m] = {"schema", "row"}
      <4>1. file[m] = Len(schema) + 1 /\ file[m] <= Files
        BY <1>1, <3>1, <3>3 DEF MigrationInv, FileInv, InTransaction
      <4>2. Len(schema) \in Nat /\ Files \in Nat
        BY <1>1, FilesAssumption DEF MigrationInv, TypeOK
      <4> QED BY <3>1, <3>3, <4>1, <4>2 DEF Publish
    <3> QED BY <1>1, <3>1, <3>2, <3>3 DEF MigrationInv, WroteInv
  <2>2. ASSUME NEW m \in Migrators,
               Migrate(m) \/ Lock(m) \/ Check(m) \/ Apply(m) \/ Record(m) \/ Fail(m) \/ Retry(m)
        PROVE  UNCHANGED <<schema, recorded>>
    BY <2>2 DEF Migrate, Lock, Check, Apply, Record, Fail, Retry
  <2>3. CASE UNCHANGED vars BY <2>3 DEF vars
  <2> QED BY <1>1, <2>1, <2>2, <2>3 DEF Next, Step
<1> QED BY <1>1, MigrationInvariance, PTL DEF Spec, SchemaOnlyGrows

\* Nobody waits for a lock that a finished or failed process has kept.
THEOREM WaitsForTransactionHolds == Spec => []WaitsForTransaction
<1>1. MigrationInv => WaitsForTransaction
  <2> SUFFICES ASSUME MigrationInv, NEW m \in Migrators, pc[m] = "lock", lock # {}
               PROVE  \E k \in Migrators \ {m} : lock = {k} /\ pc[k] \in InTransaction
    BY DEF WaitsForTransaction
  <2>1. PICK k \in lock : TRUE OBVIOUS
  <2>2. k \in Migrators /\ lock = {k} BY DEF MigrationInv, TypeOK, LockInv
  <2>3. pc[k] \in InTransaction BY <2>2 DEF MigrationInv, LockInv
  <2>4. k # m BY <2>3 DEF InTransaction
  <2> QED BY <2>2, <2>3, <2>4
<1> QED BY <1>1, MigrationInvariance, PTL
=============================================================================
