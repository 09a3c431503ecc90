--------------------------- MODULE IndexInstaller ---------------------------
(***************************************************************************)
(* The PQS index installer: `canton-explorer indexes apply` and `repair`   *)
(* (backend/src/indexes/pqs-index-installer.ts, pqs-index-sql.ts).         *)
(*                                                                         *)
(* Several invocations may run at once against one PQS schema.  Each takes *)
(* the session-level advisory lock, checks the schema, then walks the five *)
(* migrations: it builds the indexes that are missing, rebuilds the broken *)
(* ones when it runs as `repair`, re-reads the catalogue and records the   *)
(* migration's version.  Every statement is a separate round trip that may *)
(* fail, and the process may die between any two of them.                  *)
(*                                                                         *)
(* The catalogue (index states, partitions, the advisory lock) belongs to  *)
(* PostgreSQL and is modelled from how the code reads and writes it.       *)
(***************************************************************************)
EXTENDS Naturals, FiniteSets

CONSTANTS
    Installer,            \* invocations of the command
    NoInstaller,          \* the advisory lock is free
    ContractPartition,    \* partitions __contracts may have
    ExercisePartition,    \* partitions __exercises may have
    InitialPartitions,    \* partitions attached at the start
    TransactionIdIsText,  \* the type of __transactions.transaction_id
    OperatorIndexes,      \* index names a database operator may touch
    OperatorRaces         \* whether the operator acts while a run holds the lock

Partition == ContractPartition \union ExercisePartition

ASSUME InstallerAssumption ==
    /\ NoInstaller \notin Installer
    /\ InitialPartitions \subseteq Partition
    /\ TransactionIdIsText \in BOOLEAN
    /\ OperatorRaces \in BOOLEAN

-----------------------------------------------------------------------------
(* The migrations *)

(* pqsIndexMigrations, in the order reconcilePqsIndexes walks them:
   001-witnesses, 002-active-contracts, 003-transaction-id-pattern,
   004-update-event-order, 005-all-contracts. *)
Version == 1..5

(* An index is named by its kind and its relation. *)
Index ==
    ({"witnesses", "active", "created", "archived", "all"} \X ContractPartition)
    \union ({"witnesses", "exercised"} \X ExercisePartition)
    \union ({"pattern"} \X {"__transactions"})

(* IndexMigration.indexes(context): what one migration expects, given the
   partitions the run discovered. *)
IndexesOf(v, parts) ==
    LET contracts == parts \intersect ContractPartition
        exercises == parts \intersect ExercisePartition
    IN  CASE v = 1 -> {"witnesses"} \X (contracts \union exercises)
          [] v = 2 -> {"active"} \X contracts
          [] v = 3 -> IF TransactionIdIsText THEN {"pattern"} \X {"__transactions"} ELSE {}
          [] v = 4 -> ({"created", "archived"} \X contracts) \union ({"exercised"} \X exercises)
          [] OTHER -> {"all"} \X contracts

PlannedIndexes(parts) == UNION {IndexesOf(v, parts) : v \in Version}

(* toIndexStatus: a mismatched definition is a conflict even when the index
   is also invalid; an index PostgreSQL is still building is not valid. *)
IndexState == {"absent", "invalid", "ready", "conflict"}

Mode == {"apply", "repair"}

Stage == {"idle", "locking", "inspecting", "creatingTable", "readingVersions",
          "migrating", "reconciling", "dropping", "creating", "building",
          "verifying", "recording", "unlocking"}

(* The stages inside one migration, where the loop variable is in range. *)
InMigration == {"reconciling", "dropping", "creating", "building",
                "verifying", "recording"}

Outcome == {"none", "ok", "failed", "crashed"}

-----------------------------------------------------------------------------
VARIABLES
    supported,   \* whether the schema has the shape the installer supports
    partitions,  \* attached partitions
    idx,         \* state of every index in the catalogue
    table,       \* canton_explorer_index_migrations exists
    recorded,    \* versions in canton_explorer_index_migrations
    lock,        \* holder of the advisory lock
    pc,          \* stage of each invocation
    mode,        \* apply or repair
    plan,        \* partitions the run discovered
    applied,     \* appliedVersions
    newly,       \* newlyAppliedVersions
    version,     \* migration the loop is at
    seen,        \* catalogue rows read at the start of the migration
    todo,        \* expected indexes the migration has yet to reconcile
    current,     \* set with the index being dropped, created or built
    outcome      \* how the last run ended

database == <<supported, partitions, idx, table, recorded, lock>>
locals == <<mode, plan, applied, newly, version, seen, todo, current, outcome>>
vars == <<database, pc, locals>>

Nothing == [i \in Index |-> "absent"]

Init ==
    /\ supported \in BOOLEAN
    /\ partitions = InitialPartitions
    /\ idx = Nothing
    /\ table = FALSE
    /\ recorded = {}
    /\ lock = NoInstaller
    /\ pc = [p \in Installer |-> "idle"]
    /\ mode = [p \in Installer |-> "apply"]
    /\ plan = [p \in Installer |-> {}]
    /\ applied = [p \in Installer |-> {}]
    /\ newly = [p \in Installer |-> {}]
    /\ version = [p \in Installer |-> 1]
    /\ seen = [p \in Installer |-> Nothing]
    /\ todo = [p \in Installer |-> {}]
    /\ current = [p \in Installer |-> {}]
    /\ outcome = [p \in Installer |-> "none"]

-----------------------------------------------------------------------------
(* Helpers *)

Goto(p, stage) == pc' = [pc EXCEPT ![p] = stage]

Expected(p) == IndexesOf(version[p], plan[p])

(* The statement order inside a migration is fixed; which order it is does
   not matter. *)
NextTodo(p) == CHOOSE i \in todo[p] : TRUE

(* A throw or a return reaches the `finally` that releases the lock. *)
LeaveLoop(p, result) ==
    /\ Goto(p, "unlocking")
    /\ outcome' = [outcome EXCEPT ![p] = result]
    /\ seen' = [seen EXCEPT ![p] = Nothing]
    /\ todo' = [todo EXCEPT ![p] = {}]
    /\ current' = [current EXCEPT ![p] = {}]
    /\ UNCHANGED <<mode, plan, applied, newly, version>>

(* The connection is closed and the invocation is over. *)
EndRun(p, result) ==
    /\ Goto(p, "idle")
    /\ outcome' = [outcome EXCEPT ![p] = result]
    /\ mode' = [mode EXCEPT ![p] = "apply"]
    /\ plan' = [plan EXCEPT ![p] = {}]
    /\ applied' = [applied EXCEPT ![p] = {}]
    /\ newly' = [newly EXCEPT ![p] = {}]
    /\ version' = [version EXCEPT ![p] = 1]
    /\ seen' = [seen EXCEPT ![p] = Nothing]
    /\ todo' = [todo EXCEPT ![p] = {}]
    /\ current' = [current EXCEPT ![p] = {}]

(* Mutant of ReleasedBy: the finally block forgets the lock. *)
ReleasedByNobody(p) == lock

ReleasedBy(p) == IF lock = p THEN NoInstaller ELSE lock

-----------------------------------------------------------------------------
(* One invocation *)

(* applyPqsIndexes / repairPqsIndexes open a dedicated connection. *)
Start(p, m) ==
    /\ pc[p] = "idle"
    /\ Goto(p, "locking")
    /\ mode' = [mode EXCEPT ![p] = m]
    /\ outcome' = [outcome EXCEPT ![p] = "none"]
    /\ UNCHANGED <<database, plan, applied, newly, version, seen, todo, current>>

(* Mutant of AcquireLock: pg_try_advisory_lock with its answer ignored. *)
AcquireLockWithoutWaiting(p) ==
    /\ pc[p] = "locking"
    /\ lock' = p
    /\ Goto(p, "inspecting")
    /\ UNCHANGED <<supported, partitions, idx, table, recorded, locals>>

(* select pg_advisory_lock(...) blocks until the lock is free. *)
AcquireLock(p) ==
    /\ pc[p] = "locking"
    /\ lock = NoInstaller
    /\ lock' = p
    /\ Goto(p, "inspecting")
    /\ UNCHANGED <<supported, partitions, idx, table, recorded, locals>>

(* Mutant of Acceptable: the inspection looks at the shape only. *)
AcceptableShape(m) == supported

(* What the first inspection accepts: a supported shape, no conflicting
   definition and, for apply, no invalid index. *)
Acceptable(m) ==
    /\ supported
    /\ \A i \in PlannedIndexes(partitions) :
          idx[i] # "conflict" /\ (m = "apply" => idx[i] # "invalid")

InspectAccepts(p) ==
    /\ pc[p] = "inspecting"
    /\ Acceptable(mode[p])
    /\ plan' = [plan EXCEPT ![p] = partitions]
    /\ Goto(p, "creatingTable")
    /\ UNCHANGED <<database, mode, applied, newly, version, seen, todo, current, outcome>>

InspectRejects(p) ==
    /\ pc[p] = "inspecting"
    /\ ~Acceptable(mode[p])
    /\ LeaveLoop(p, "failed")
    /\ UNCHANGED database

(* create table if not exists canton_explorer_index_migrations *)
CreateMigrationTable(p) ==
    /\ pc[p] = "creatingTable"
    /\ table' = TRUE
    /\ Goto(p, "readingVersions")
    /\ UNCHANGED <<supported, partitions, idx, recorded, lock, locals>>

ReadVersions(p) ==
    /\ pc[p] = "readingVersions"
    /\ applied' = [applied EXCEPT ![p] = recorded]
    /\ Goto(p, "migrating")
    /\ UNCHANGED <<database, mode, plan, newly, version, seen, todo, current, outcome>>

(* The head of the migration loop: a migration without indexes is skipped,
   any other reads the catalogue once before its first statement. *)
SkipMigration(p) ==
    /\ pc[p] = "migrating"
    /\ version[p] \in Version
    /\ Expected(p) = {}
    /\ version' = [version EXCEPT ![p] = @ + 1]
    /\ UNCHANGED <<database, pc, mode, plan, applied, newly, seen, todo, current, outcome>>

BeginMigration(p) ==
    /\ pc[p] = "migrating"
    /\ version[p] \in Version
    /\ Expected(p) # {}
    /\ seen' = [seen EXCEPT ![p] = idx]
    /\ todo' = [todo EXCEPT ![p] = Expected(p)]
    /\ Goto(p, "reconciling")
    /\ UNCHANGED <<database, mode, plan, applied, newly, version, current, outcome>>

FinishMigrations(p) ==
    /\ pc[p] = "migrating"
    /\ version[p] \notin Version
    /\ LeaveLoop(p, "ok")
    /\ UNCHANGED database

(* The body of the inner loop decides from the rows read at the start of the
   migration, not from the catalogue as it is now. *)
KeepReadyIndex(p) ==
    /\ pc[p] = "reconciling"
    /\ todo[p] # {}
    /\ seen[p][NextTodo(p)] = "ready"
    /\ todo' = [todo EXCEPT ![p] = @ \ {NextTodo(p)}]
    /\ UNCHANGED <<database, pc, mode, plan, applied, newly, version, seen, current, outcome>>

ChooseCreate(p) ==
    /\ pc[p] = "reconciling"
    /\ todo[p] # {}
    /\ seen[p][NextTodo(p)] = "absent"
    /\ current' = [current EXCEPT ![p] = {NextTodo(p)}]
    /\ Goto(p, "creating")
    /\ UNCHANGED <<database, mode, plan, applied, newly, version, seen, todo, outcome>>

ChooseRepair(p) ==
    /\ pc[p] = "reconciling"
    /\ todo[p] # {}
    /\ seen[p][NextTodo(p)] = "invalid"
    /\ mode[p] = "repair"
    /\ current' = [current EXCEPT ![p] = {NextTodo(p)}]
    /\ Goto(p, "dropping")
    /\ UNCHANGED <<database, mode, plan, applied, newly, version, seen, todo, outcome>>

RejectIndex(p) ==
    /\ pc[p] = "reconciling"
    /\ todo[p] # {}
    /\ \/ seen[p][NextTodo(p)] = "conflict"
       \/ seen[p][NextTodo(p)] = "invalid" /\ mode[p] # "repair"
    /\ LeaveLoop(p, "failed")
    /\ UNCHANGED database

(* drop index concurrently if exists: whatever has that name goes. *)
DropIndex(p) ==
    /\ pc[p] = "dropping"
    /\ idx' = [i \in Index |-> IF i \in current[p] THEN "absent" ELSE idx[i]]
    /\ Goto(p, "creating")
    /\ UNCHANGED <<supported, partitions, table, recorded, lock, locals>>

(* create index concurrently if not exists enters the index in the catalogue
   before it is valid; it does nothing when the name is taken. *)
BeginBuild(p) ==
    /\ pc[p] = "creating"
    /\ \A i \in current[p] : idx[i] = "absent"
    /\ idx' = [i \in Index |-> IF i \in current[p] THEN "invalid" ELSE idx[i]]
    /\ Goto(p, "building")
    /\ UNCHANGED <<supported, partitions, table, recorded, lock, locals>>

SkipBuild(p) ==
    /\ pc[p] = "creating"
    /\ \E i \in current[p] : idx[i] # "absent"
    /\ todo' = [todo EXCEPT ![p] = @ \ current[p]]
    /\ current' = [current EXCEPT ![p] = {}]
    /\ Goto(p, "reconciling")
    /\ UNCHANGED <<database, mode, plan, applied, newly, version, seen, outcome>>

FinishBuild(p) ==
    /\ pc[p] = "building"
    /\ idx' = [i \in Index |->
                 IF i \in current[p] /\ idx[i] = "invalid" THEN "ready" ELSE idx[i]]
    /\ todo' = [todo EXCEPT ![p] = @ \ current[p]]
    /\ current' = [current EXCEPT ![p] = {}]
    /\ Goto(p, "reconciling")
    /\ UNCHANGED <<supported, partitions, table, recorded, lock,
                   mode, plan, applied, newly, version, seen, outcome>>

(* All expected indexes handled: the catalogue is read again. *)
EndReconcile(p) ==
    /\ pc[p] = "reconciling"
    /\ todo[p] = {}
    /\ Goto(p, "verifying")
    /\ UNCHANGED <<database, locals>>

(* Mutant of Complete: an index that exists counts as built. *)
CompleteWhenPresent(p) == \A i \in Expected(p) : idx[i] # "absent"

(* The second look at the catalogue: every expected index is there, with
   Explorer's definition, and valid. *)
Complete(p) == \A i \in Expected(p) : idx[i] = "ready"

(* A version recorded by an earlier run is verified again but not written. *)
VerifyRecorded(p) ==
    /\ pc[p] = "verifying"
    /\ Complete(p)
    /\ version[p] \in applied[p]
    /\ version' = [version EXCEPT ![p] = @ + 1]
    /\ seen' = [seen EXCEPT ![p] = Nothing]
    /\ Goto(p, "migrating")
    /\ UNCHANGED <<database, mode, plan, applied, newly, todo, current, outcome>>

VerifyNew(p) ==
    /\ pc[p] = "verifying"
    /\ Complete(p)
    /\ version[p] \notin applied[p]
    /\ seen' = [seen EXCEPT ![p] = Nothing]
    /\ Goto(p, "recording")
    /\ UNCHANGED <<database, mode, plan, applied, newly, version, todo, current, outcome>>

VerifyRejects(p) ==
    /\ pc[p] = "verifying"
    /\ ~Complete(p)
    /\ LeaveLoop(p, "failed")
    /\ UNCHANGED database

(* insert into canton_explorer_index_migrations ... on conflict do nothing *)
RecordVersion(p) ==
    /\ pc[p] = "recording"
    /\ recorded' = recorded \union {version[p]}
    /\ applied' = [applied EXCEPT ![p] = @ \union {version[p]}]
    /\ newly' = [newly EXCEPT ![p] = @ \union {version[p]}]
    /\ version' = [version EXCEPT ![p] = @ + 1]
    /\ Goto(p, "migrating")
    /\ UNCHANGED <<supported, partitions, idx, table, lock,
                   mode, plan, seen, todo, current, outcome>>

(* The `finally` block: unlock, then end the connection.  When the unlock
   statement fails the run reports a failure, and the lock goes with the
   session. *)
Unlock(p) ==
    /\ pc[p] = "unlocking"
    /\ lock' = ReleasedBy(p)
    /\ \E result \in {outcome[p], "failed"} : EndRun(p, result)
    /\ UNCHANGED <<supported, partitions, idx, table, recorded>>

(* Mutant of StatementFails: an error is logged and the run goes on to report
   success. *)
StatementFailsQuietly(p) ==
    /\ pc[p] \notin {"idle", "locking", "unlocking"}
    /\ LeaveLoop(p, "ok")
    /\ UNCHANGED database

(* Any awaited statement may reject: permissions, a full disk, a timeout, or
   a deadlock between an index build and a session waiting for the lock.
   Before the lock is held there is nothing to release. *)
LockFails(p) ==
    /\ pc[p] = "locking"
    /\ EndRun(p, "failed")
    /\ UNCHANGED database

StatementFails(p) ==
    /\ pc[p] \notin {"idle", "locking", "unlocking"}
    /\ LeaveLoop(p, "failed")
    /\ UNCHANGED database

(* The process dies.  PostgreSQL ends the session, which frees the lock; a
   build it was running is either abandoned or already complete. *)
Crash(p) ==
    /\ pc[p] # "idle"
    /\ \/ idx' = idx
       \/ /\ pc[p] = "building"
          /\ idx' = [i \in Index |->
                       IF i \in current[p] /\ idx[i] = "invalid" THEN "ready" ELSE idx[i]]
    /\ lock' = ReleasedBy(p)
    /\ EndRun(p, "crashed")
    /\ UNCHANGED <<supported, partitions, table, recorded>>

-----------------------------------------------------------------------------
(* The environment *)

(* PQS attaches a partition for a template it has not seen before. *)
AttachPartition(r) ==
    /\ r \notin partitions
    /\ partitions' = partitions \union {r}
    /\ UNCHANGED <<supported, idx, table, recorded, lock, pc, locals>>

OperatorMayAct == OperatorRaces \/ lock = NoInstaller

(* An operator takes an Explorer index name for an index of another shape. *)
OperatorCreates(i) ==
    /\ OperatorMayAct
    /\ idx[i] = "absent"
    /\ idx' = [idx EXCEPT ![i] = "conflict"]
    /\ UNCHANGED <<supported, partitions, table, recorded, lock, pc, locals>>

(* An operator removes a conflicting or broken index by hand. *)
OperatorDrops(i) ==
    /\ OperatorMayAct
    /\ idx[i] \in {"conflict", "invalid"}
    /\ idx' = [idx EXCEPT ![i] = "absent"]
    /\ UNCHANGED <<supported, partitions, table, recorded, lock, pc, locals>>

-----------------------------------------------------------------------------
Proceed(p) ==
    \/ InspectAccepts(p) \/ InspectRejects(p)
    \/ CreateMigrationTable(p) \/ ReadVersions(p)
    \/ SkipMigration(p) \/ BeginMigration(p) \/ FinishMigrations(p)
    \/ KeepReadyIndex(p) \/ ChooseCreate(p) \/ ChooseRepair(p) \/ RejectIndex(p)
    \/ DropIndex(p) \/ BeginBuild(p) \/ SkipBuild(p) \/ FinishBuild(p)
    \/ EndReconcile(p)
    \/ VerifyRecorded(p) \/ VerifyNew(p) \/ VerifyRejects(p)
    \/ RecordVersion(p) \/ Unlock(p)

Disturb(p) == LockFails(p) \/ StatementFails(p) \/ Crash(p)

Environment ==
    \/ \E r \in Partition : AttachPartition(r)
    \/ \E i \in OperatorIndexes \intersect Index : OperatorCreates(i) \/ OperatorDrops(i)

Next ==
    \/ \E p \in Installer :
          (\E m \in Mode : Start(p, m)) \/ AcquireLock(p) \/ Proceed(p) \/ Disturb(p)
    \/ Environment

Spec == Init /\ [][Next]_vars

(* Every statement eventually returns or rejects; PostgreSQL serves the
   waiters of an advisory lock in order, so none is passed over for ever. *)
Fairness ==
    \A p \in Installer : WF_vars(Proceed(p)) /\ SF_vars(AcquireLock(p))

FairSpec == Spec /\ Fairness

-----------------------------------------------------------------------------
(* Properties *)

DatabaseOK ==
    /\ supported \in BOOLEAN
    /\ partitions \in SUBSET Partition
    /\ idx \in [Index -> IndexState]
    /\ table \in BOOLEAN
    /\ recorded \in SUBSET Version
    /\ lock \in Installer \union {NoInstaller}

LocalsOK ==
    /\ pc \in [Installer -> Stage]
    /\ mode \in [Installer -> Mode]
    /\ plan \in [Installer -> SUBSET Partition]
    /\ applied \in [Installer -> SUBSET Version]
    /\ newly \in [Installer -> SUBSET Version]
    /\ version \in [Installer -> 1..6]
    /\ seen \in [Installer -> [Index -> IndexState]]
    /\ todo \in [Installer -> SUBSET Index]
    /\ current \in [Installer -> SUBSET Index]
    /\ outcome \in [Installer -> Outcome]
    /\ \A p \in Installer : pc[p] \in InMigration => version[p] \in Version

TypeOK == DatabaseOK /\ LocalsOK

Reconciling(p) == pc[p] \notin {"idle", "locking", "inspecting", "unlocking"}

(* A version is recorded only when its indexes are ready, and no later run,
   failure or crash takes one of them away: whatever the interleaving of
   installers, a recorded migration covers every partition that has existed
   since the start. *)
RecordedVersionsAreIndexed ==
    \A v \in recorded : \A i \in IndexesOf(v, InitialPartitions) : idx[i] = "ready"

(* A run that is about to report success leaves every index it planned
   ready, the ones of the migrations it verified long before included. *)
SuccessMeansReady ==
    \A p \in Installer :
        pc[p] = "unlocking" /\ outcome[p] = "ok" =>
            \A i \in PlannedIndexes(plan[p]) : idx[i] = "ready"

(* While a run reconciles, none of its planned names is held by a foreign
   definition, and an apply run has no broken index other than the one it is
   building: conflicts and broken indexes stop a run before it changes
   anything. *)
CleanWhileReconciling ==
    \A p \in Installer : Reconciling(p) =>
        \A i \in PlannedIndexes(plan[p]) :
            /\ idx[i] # "conflict"
            /\ mode[p] = "apply" /\ idx[i] = "invalid" => pc[p] = "building" /\ i \in current[p]

(* An index leaves the catalogue in two ways only: the holder of the lock
   runs repair and the index is broken, or an operator removes it. *)
OnlyRepairDrops ==
    [][\A i \in Index : idx[i] # "absent" /\ idx'[i] = "absent" =>
          \/ \E p \in Installer :
                pc[p] = "dropping" /\ lock = p /\ mode[p] = "repair" /\ idx[i] = "invalid"
          \/ pc' = pc /\ idx[i] # "ready"]_vars

(* Every invocation ends: no set of installers waits for ever on the lock. *)
RunTerminates ==
    \A p \in Installer : pc[p] # "idle" ~> pc[p] = "idle"
-----------------------------------------------------------------------------
(* The inductive invariant behind RecordedVersionsAreIndexed and
   SuccessMeansReady. *)

Held == Stage \ {"idle", "locking"}
Loop == InMigration \union {"migrating"}
Inner == {"reconciling", "dropping", "creating", "building"}

(* Exactly the holder of the advisory lock is past the lock statement. *)
LockInv == \A p \in Installer : pc[p] \in Held <=> lock = p

(* A plan covers every partition attached since the start, and the versions a
   run knows of are in the table. *)
PlanInv ==
    /\ InitialPartitions \subseteq partitions
    /\ \A p \in Installer :
          /\ pc[p] \in Loop \union {"creatingTable", "readingVersions"} =>
                InitialPartitions \subseteq plan[p]
          /\ pc[p] \notin Loop \union {"unlocking"} => version[p] = 1
          /\ applied[p] \subseteq recorded

(* The rows read at the start of a migration still tell the ready indexes
   from the others, except for those already handled. *)
SeenInv ==
    \A p \in Installer :
        /\ pc[p] \notin Inner => todo[p] = {} /\ current[p] = {}
        /\ pc[p] \in Inner => \A i \in todo[p] : seen[p][i] = "ready" <=> idx[i] = "ready"
        /\ \A i \in current[p] : i \in todo[p] /\ seen[p][i] # "ready"

(* The migrations a run has left behind are complete, and so is the one it is
   about to record. *)
DoneInv ==
    \A p \in Installer :
        /\ pc[p] \in Loop =>
              \A v \in Version : v < version[p] =>
                  \A i \in IndexesOf(v, plan[p]) : idx[i] = "ready"
        /\ pc[p] = "recording" => Complete(p)

(* As long as no operator interferes, what a run has read of the indexes it
   has yet to handle is still so, and what it is about to drop is broken. *)
ReadInv ==
    \A p \in Installer :
        /\ pc[p] \in Inner => \A i \in todo[p] \ current[p] : seen[p][i] = idx[i]
        /\ pc[p] = "reconciling" => current[p] = {}
        /\ pc[p] = "dropping" =>
              mode[p] = "repair" /\ \A i \in current[p] : idx[i] = "invalid"

(* What the migration table says of the migrations a run has left behind, and
   what the table and the runs say of each other. *)
TableOf(p) ==
    /\ pc[p] \in Loop =>
          /\ applied[p] = recorded
          /\ \A v \in Version : v < version[p] /\ IndexesOf(v, plan[p]) # {} => v \in recorded
    /\ pc[p] \in InMigration => Expected(p) # {}
    /\ pc[p] \in Inner => todo[p] \subseteq Expected(p)
    /\ pc[p] = "recording" => version[p] \notin applied[p]
    /\ \A i, j \in current[p] : i = j
    /\ pc[p] \in {"dropping", "creating", "building"} => current[p] # {}
    /\ pc[p] = "unlocking" => outcome[p] \in {"ok", "failed"}
    /\ pc[p] = "unlocking" /\ outcome[p] = "ok" =>
          /\ InitialPartitions \subseteq plan[p]
          /\ \A v \in Version : IndexesOf(v, plan[p]) # {} => v \in recorded
    /\ pc[p] = "idle" /\ outcome[p] = "ok" =>
          \A v \in Version : IndexesOf(v, InitialPartitions) # {} => v \in recorded

TableInv == \A p \in Installer : TableOf(p)

(* Once a run has told of success, every migration that the partitions of the
   start call for is recorded and indexed, and stays so: whatever other runs do
   later, fail at or leave half done takes nothing back. *)
SuccessStands ==
    \A p \in Installer : pc[p] = "idle" /\ outcome[p] = "ok" =>
        \A v \in Version :
            /\ IndexesOf(v, InitialPartitions) # {} => v \in recorded
            /\ \A i \in IndexesOf(v, InitialPartitions) : idx[i] = "ready"

(* How far a run is: the part of the command, inside the loop the migration and
   the part of it, inside that the indexes left to handle and the statement for
   the one at hand. *)
Part(stage) ==
    CASE stage = "idle" -> 6 [] stage = "locking" -> 0 [] stage = "inspecting" -> 1
      [] stage = "creatingTable" -> 2 [] stage = "readingVersions" -> 3
      [] stage = "unlocking" -> 5 [] OTHER -> 4

PartOfMigration(stage) ==
    CASE stage = "migrating" -> 0 [] stage = "verifying" -> 2 [] stage = "recording" -> 3
      [] OTHER -> 1

Statement(stage) ==
    CASE stage = "dropping" -> 1 [] stage = "creating" -> 2 [] stage = "building" -> 3
      [] OTHER -> 0

Further(p) ==
    \/ Part(pc[p]) < Part(pc'[p])
    \/ /\ {pc[p], pc'[p]} \subseteq Loop
       /\ \/ version[p] < version'[p]
          \/ /\ version'[p] = version[p]
             /\ \/ PartOfMigration(pc[p]) < PartOfMigration(pc'[p])
                \/ /\ {pc[p], pc'[p]} \subseteq Inner
                   /\ \/ todo'[p] \subseteq todo[p] /\ todo'[p] # todo[p]
                      \/ todo'[p] = todo[p] /\ Statement(pc[p]) < Statement(pc'[p])

(* A run never goes back, waits in place while it works or is set back by
   another: each of its steps takes it further, and no step of another run or of
   the environment moves it.  With versions up to five and finitely many
   indexes, no run goes on for ever. *)
RunsMoveOn ==
    [][\A p \in Installer :
          \/ pc[p] = "idle"
          \/ Further(p)
          \/ UNCHANGED <<pc[p], version[p], todo[p]>> /\ ~Proceed(p)]_vars

(* What a reader of the migration table, or of the report of a run, sees of the
   installer: the lock, the statements, broken indexes and whoever interferes
   with them are hidden. *)
Phase(p) ==
    CASE pc[p] = "idle" -> "idle"
      [] pc[p] = "locking" -> "waiting"
      [] pc[p] = "inspecting" -> "surveying"
      [] pc[p] = "unlocking" /\ outcome[p] # "ok" -> "failing"
      [] OTHER -> "working"

Ready == {i \in Index : idx[i] = "ready"}
Phases == [p \in Installer |-> Phase(p)]
Surveyed == [p \in Installer |-> IF Phase(p) = "working" THEN plan[p] ELSE {}]
Told == [p \in Installer |-> IF pc[p] = "idle" THEN outcome[p] ELSE "none"]

Ledger == INSTANCE MigrationLedger WITH
    Run <- Installer, Initial <- InitialPartitions, Needs <- IndexesOf,
    attached <- partitions, ready <- Ready, phase <- Phases, plan <- Surveyed, told <- Told

(* The installer implements the migration ledger: whatever fails, dies or
   interferes, a version is recorded by one run and when all its indexes are
   ready, nothing ready is lost, and success is told when nothing of what was
   surveyed is left to build or to record. *)
ImplementsMigrationLedger == Ledger!LedgerSpec

IInv ==
    /\ TypeOK
    /\ LockInv
    /\ PlanInv
    /\ SeenInv
    /\ DoneInv
    /\ SuccessMeansReady
    /\ RecordedVersionsAreIndexed
=============================================================================
