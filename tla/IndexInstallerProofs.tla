------------------------ MODULE IndexInstallerProofs ------------------------
(***************************************************************************)
(* Proofs about IndexInstaller, for any number of invocations, any set of  *)
(* partitions, and an operator who may interfere at any time.              *)
(***************************************************************************)
EXTENDS IndexInstaller, TLAPS

-----------------------------------------------------------------------------
(* The migrations *)

(* Every index a migration expects is one of the catalogue's names. *)
LEMMA IndexesOfType ==
    ASSUME NEW v, NEW parts \in SUBSET Partition
    PROVE  IndexesOf(v, parts) \subseteq Index
  BY DEF IndexesOf, Index, Partition

(* A run that discovered more partitions expects more indexes. *)
LEMMA IndexesOfMonotone ==
    ASSUME NEW v, NEW small, NEW large, small \subseteq large
    PROVE  IndexesOf(v, small) \subseteq IndexesOf(v, large)
  BY DEF IndexesOf

(* The state of the loop variables before the loop. *)
LEMMA NothingType == Nothing \in [Index -> IndexState]
  BY DEF Nothing, IndexState

-----------------------------------------------------------------------------
(* What a throw, a return and the end of a run do to the loop variables. *)
LEMMA LeaveLoopType ==
    ASSUME NEW p \in Installer, NEW result \in Outcome, LocalsOK, LeaveLoop(p, result)
    PROVE  LocalsOK'
  BY NothingType DEF LocalsOK, LeaveLoop, Goto, Stage, InMigration

LEMMA EndRunType ==
    ASSUME NEW p \in Installer, NEW result \in Outcome, LocalsOK, EndRun(p, result)
    PROVE  LocalsOK'
  BY NothingType DEF LocalsOK, EndRun, Goto, Stage, InMigration, Mode, Version

(* The initial state is well typed. *)
LEMMA TypeInit == Init => TypeOK
<1> SUFFICES ASSUME Init PROVE TypeOK
  OBVIOUS
<1>1. /\ supported \in BOOLEAN /\ partitions \in SUBSET Partition /\ idx \in [Index -> IndexState]
      /\ table \in BOOLEAN /\ recorded \in SUBSET Version
      /\ lock \in Installer \union {NoInstaller}
  BY InstallerAssumption, NothingType DEF Init
<1>2. /\ pc \in [Installer -> Stage] /\ mode \in [Installer -> Mode]
      /\ outcome \in [Installer -> Outcome] /\ version \in [Installer -> 1..6]
      /\ \A p \in Installer : pc[p] \in InMigration => version[p] \in Version
  BY DEF Init, Stage, Mode, Outcome, InMigration
<1>3. /\ plan \in [Installer -> SUBSET Partition] /\ applied \in [Installer -> SUBSET Version]
      /\ newly \in [Installer -> SUBSET Version] /\ todo \in [Installer -> SUBSET Index]
      /\ current \in [Installer -> SUBSET Index] /\ seen \in [Installer -> [Index -> IndexState]]
  BY NothingType DEF Init
<1>4. QED
  BY <1>1, <1>2, <1>3 DEF TypeOK, DatabaseOK, LocalsOK

(* Every variable keeps its type. *)
THEOREM TypeCorrect == Spec => []TypeOK
<1>1. Init => TypeOK
  BY TypeInit
<1>2. TypeOK /\ [Next]_vars => TypeOK'
  <2> SUFFICES ASSUME TypeOK, [Next]_vars PROVE TypeOK'
    OBVIOUS
  <2> USE DEF TypeOK
  <2>1. ASSUME NEW p \in Installer, NEW m \in Mode, Start(p, m) PROVE TypeOK'
    BY <2>1 DEF Start, Goto, database, DatabaseOK, LocalsOK, Stage, InMigration, Outcome
  <2>2. ASSUME NEW p \in Installer, AcquireLock(p) PROVE TypeOK'
    BY <2>2 DEF AcquireLock, Goto, locals, DatabaseOK, LocalsOK, Stage, InMigration
  <2>3. ASSUME NEW p \in Installer, Proceed(p) PROVE TypeOK'
    <3>1. CASE InspectAccepts(p)
      BY <3>1 DEF InspectAccepts, Goto, DatabaseOK, LocalsOK, database, Stage, InMigration
    <3>2. CASE InspectRejects(p)
      BY <3>2, LeaveLoopType DEF InspectRejects, database, DatabaseOK, Outcome
    <3>3. CASE CreateMigrationTable(p)
      BY <3>3 DEF CreateMigrationTable, Goto, DatabaseOK, LocalsOK, locals, Stage, InMigration
    <3>4. CASE ReadVersions(p)
      BY <3>4 DEF ReadVersions, Goto, DatabaseOK, LocalsOK, database, Stage, InMigration
    <3>5. CASE SkipMigration(p)
      BY <3>5 DEF SkipMigration, Goto, DatabaseOK, LocalsOK, database, Version, InMigration
    <3>6. CASE BeginMigration(p)
      BY <3>6, IndexesOfType DEF BeginMigration, Goto, DatabaseOK, LocalsOK, Expected, database, Stage, InMigration
    <3>7. CASE FinishMigrations(p)
      BY <3>7, LeaveLoopType DEF FinishMigrations, database, DatabaseOK, Outcome
    <3>8. CASE KeepReadyIndex(p)
      BY <3>8 DEF KeepReadyIndex, Goto, DatabaseOK, LocalsOK, database
    <3>9. CASE ChooseCreate(p)
      <4>1. NextTodo(p) \in todo[p]
        BY <3>9 DEF ChooseCreate, NextTodo
      <4>2. QED
        BY <3>9, <4>1 DEF ChooseCreate, Goto, DatabaseOK, LocalsOK, database, Stage, InMigration
    <3>10. CASE ChooseRepair(p)
      <4>1. NextTodo(p) \in todo[p]
        BY <3>10 DEF ChooseRepair, NextTodo
      <4>2. QED
        BY <3>10, <4>1 DEF ChooseRepair, Goto, DatabaseOK, LocalsOK, database, Stage, InMigration
    <3>11. CASE RejectIndex(p)
      BY <3>11, LeaveLoopType DEF RejectIndex, database, DatabaseOK, Outcome
    <3>12. CASE DropIndex(p)
      BY <3>12 DEF DropIndex, Goto, DatabaseOK, LocalsOK, locals, Stage, InMigration, IndexState
    <3>13. CASE BeginBuild(p)
      BY <3>13 DEF BeginBuild, Goto, DatabaseOK, LocalsOK, locals, Stage, InMigration, IndexState
    <3>14. CASE SkipBuild(p)
      BY <3>14 DEF SkipBuild, Goto, DatabaseOK, LocalsOK, database, Stage, InMigration
    <3>15. CASE FinishBuild(p)
      BY <3>15 DEF FinishBuild, Goto, DatabaseOK, LocalsOK, Stage, InMigration, IndexState
    <3>16. CASE EndReconcile(p)
      BY <3>16 DEF EndReconcile, Goto, DatabaseOK, LocalsOK, database, locals, Stage, InMigration
    <3>17. CASE VerifyRecorded(p)
      <4>1. version[p] \in Version
        BY <3>17 DEF VerifyRecorded, LocalsOK, InMigration
      <4>2. version' \in [Installer -> 1..6]
        BY <3>17, <4>1 DEF VerifyRecorded, LocalsOK, Version
      <4>3. QED
        BY <3>17, <4>2, NothingType
        DEF VerifyRecorded, Goto, DatabaseOK, LocalsOK, database, Stage, InMigration
    <3>18. CASE VerifyNew(p)
      BY <3>18, NothingType DEF VerifyNew, Goto, DatabaseOK, LocalsOK, database, Stage, InMigration
    <3>19. CASE VerifyRejects(p)
      BY <3>19, LeaveLoopType DEF VerifyRejects, database, DatabaseOK, Outcome
    <3>20. CASE RecordVersion(p)
      <4>1. version[p] \in Version
        BY <3>20 DEF RecordVersion, LocalsOK, InMigration
      <4>2. version' \in [Installer -> 1..6]
        BY <3>20, <4>1 DEF RecordVersion, LocalsOK, Version
      <4>3. QED
        BY <3>20, <4>1, <4>2 DEF RecordVersion, Goto, DatabaseOK, LocalsOK, Stage, InMigration
    <3>21. CASE Unlock(p)
      <4>1. PICK result \in {outcome[p], "failed"} : EndRun(p, result)
        BY <3>21 DEF Unlock
      <4>2. result \in Outcome
        BY <4>1 DEF LocalsOK, Outcome
      <4>3. LocalsOK'
        BY <4>1, <4>2, EndRunType
      <4>4. QED
        BY <3>21, <4>3 DEF Unlock, ReleasedBy, DatabaseOK
    <3>22. QED
      BY <2>3, <3>1, <3>2, <3>3, <3>4, <3>5, <3>6, <3>7, <3>8, <3>9, <3>10, <3>11, <3>12, <3>13, <3>14, <3>15, <3>16, <3>17, <3>18, <3>19, <3>20, <3>21 DEF Proceed
  <2>4. ASSUME NEW p \in Installer, Disturb(p) PROVE TypeOK'
    <3>1. CASE LockFails(p)
      BY <3>1, EndRunType DEF LockFails, database, DatabaseOK, Outcome
    <3>2. CASE StatementFails(p)
      BY <3>2, LeaveLoopType DEF StatementFails, database, DatabaseOK, Outcome
    <3>3. CASE Crash(p)
      <4>1. LocalsOK'
        BY <3>3, EndRunType DEF Crash, Outcome
      <4>2. DatabaseOK'
        BY <3>3 DEF Crash, ReleasedBy, DatabaseOK, IndexState
      <4>3. QED
        BY <4>1, <4>2
    <3>4. QED
      BY <2>4, <3>1, <3>2, <3>3 DEF Disturb
  <2>5. CASE Environment
    BY <2>5 DEF Environment, AttachPartition, OperatorCreates, OperatorDrops,
                locals, DatabaseOK, LocalsOK, IndexState
  <2>6. CASE UNCHANGED vars
    BY <2>6 DEF vars, database, locals, DatabaseOK, LocalsOK
  <2>7. QED
    BY <2>1, <2>2, <2>3, <2>4, <2>5, <2>6 DEF Next
<1>3. QED
  BY <1>1, <1>2, PTL DEF Spec

-----------------------------------------------------------------------------
(* A step of a run between lock and unlock moves no other run, and leaves the
   lock where it is. *)
LEMMA ProceedStage ==
    ASSUME NEW p \in Installer, TypeOK, Proceed(p), ~Unlock(p)
    PROVE  /\ pc' = [pc EXCEPT ![p] = pc'[p]]
           /\ pc[p] \in Held /\ pc'[p] \in Held
           /\ lock' = lock
<1> USE DEF Held, Stage, Goto, TypeOK, LocalsOK
<1>1. CASE InspectAccepts(p) \/ ReadVersions(p) \/ SkipMigration(p) \/ BeginMigration(p)
           \/ KeepReadyIndex(p) \/ ChooseCreate(p) \/ ChooseRepair(p) \/ SkipBuild(p)
           \/ EndReconcile(p) \/ VerifyRecorded(p) \/ VerifyNew(p)
  BY <1>1 DEF InspectAccepts, ReadVersions, SkipMigration, BeginMigration, KeepReadyIndex,
              ChooseCreate, ChooseRepair, SkipBuild, EndReconcile, VerifyRecorded, VerifyNew, database
<1>2. CASE InspectRejects(p) \/ FinishMigrations(p) \/ RejectIndex(p) \/ VerifyRejects(p)
  BY <1>2 DEF InspectRejects, FinishMigrations, RejectIndex, VerifyRejects, LeaveLoop, database
<1>3. CASE CreateMigrationTable(p) \/ DropIndex(p) \/ BeginBuild(p) \/ FinishBuild(p) \/ RecordVersion(p)
  BY <1>3 DEF CreateMigrationTable, DropIndex, BeginBuild, FinishBuild, RecordVersion
<1>4. QED
  BY <1>1, <1>2, <1>3 DEF Proceed

(* Whatever fails or crashes, exactly the run that holds the advisory lock is
   between the lock statement and the unlock statement: at most one installer
   ever changes the catalogue. *)
THEOREM LockHolderOnly == Spec => []LockInv
<1>1. Init => LockInv
  BY InstallerAssumption DEF Init, LockInv, Held
<1>2. TypeOK /\ LockInv /\ [Next]_vars => LockInv'
  <2> SUFFICES ASSUME TypeOK, LockInv, [Next]_vars PROVE LockInv'
    OBVIOUS
  <2> USE InstallerAssumption DEF LockInv, TypeOK, LocalsOK, DatabaseOK
  <2>1. ASSUME NEW p \in Installer, NEW m \in Mode, Start(p, m) PROVE LockInv'
    BY <2>1 DEF Start, Goto, database, Held
  <2>2. ASSUME NEW p \in Installer, AcquireLock(p) PROVE LockInv'
    BY <2>2 DEF AcquireLock, Goto, Held, Stage
  <2>3. ASSUME NEW p \in Installer, Proceed(p), ~Unlock(p) PROVE LockInv'
    BY <2>3, ProceedStage
  <2>4. ASSUME NEW p \in Installer, Unlock(p) PROVE LockInv'
    BY <2>4 DEF Unlock, EndRun, Goto, ReleasedBy, Held, Stage
  <2>5. ASSUME NEW p \in Installer, Disturb(p) PROVE LockInv'
    <3>1. CASE LockFails(p)
      BY <3>1 DEF LockFails, EndRun, Goto, Held, database
    <3>2. CASE StatementFails(p)
      BY <3>2 DEF StatementFails, LeaveLoop, Goto, Held, Stage, database
    <3>3. CASE Crash(p)
      BY <3>3 DEF Crash, EndRun, Goto, ReleasedBy, Held, Stage
    <3>4. QED
      BY <2>5, <3>1, <3>2, <3>3 DEF Disturb
  <2>6. CASE Environment
    BY <2>6 DEF Environment, AttachPartition, OperatorCreates, OperatorDrops
  <2>7. CASE UNCHANGED vars
    BY <2>7 DEF vars, database
  <2>8. QED
    BY <2>1, <2>2, <2>3, <2>4, <2>5, <2>6, <2>7 DEF Next
<1>3. QED
  BY <1>1, <1>2, TypeCorrect, PTL DEF Spec

-----------------------------------------------------------------------------
(* An index that is ready stays ready: what repair drops was not ready when
   the migration began, and nobody else made it so. *)
LEMMA ReadyKept ==
    ASSUME TypeOK, LockInv, SeenInv, [Next]_vars
    PROVE  \A i \in Index : idx[i] = "ready" => idx'[i] = "ready"
<1> USE DEF TypeOK, DatabaseOK, LocalsOK
<1>1. ASSUME NEW p \in Installer, DropIndex(p)
      PROVE  \A i \in Index : idx[i] = "ready" => idx'[i] = "ready"
  BY <1>1 DEF DropIndex, SeenInv, Inner
<1>2. ASSUME NEW p \in Installer, BeginBuild(p) \/ FinishBuild(p)
      PROVE  \A i \in Index : idx[i] = "ready" => idx'[i] = "ready"
  BY <1>2 DEF BeginBuild, FinishBuild
<1>3. ASSUME NEW p \in Installer, Crash(p)
      PROVE  \A i \in Index : idx[i] = "ready" => idx'[i] = "ready"
  BY <1>3 DEF Crash
<1>4. ASSUME NEW p \in Installer, Proceed(p), ~DropIndex(p), ~BeginBuild(p), ~FinishBuild(p)
      PROVE  idx' = idx
  BY <1>4 DEF Proceed, InspectAccepts, InspectRejects, CreateMigrationTable, ReadVersions,
              SkipMigration, BeginMigration, FinishMigrations, KeepReadyIndex, ChooseCreate,
              ChooseRepair, RejectIndex, SkipBuild, EndReconcile, VerifyRecorded, VerifyNew,
              VerifyRejects, RecordVersion, Unlock, database
<1>5. ASSUME NEW p \in Installer,
             (\E m \in Mode : Start(p, m)) \/ AcquireLock(p) \/ LockFails(p) \/ StatementFails(p)
      PROVE  idx' = idx
  BY <1>5 DEF Start, AcquireLock, LockFails, StatementFails, database
<1>6. CASE Environment
  BY <1>6 DEF Environment, AttachPartition, OperatorCreates, OperatorDrops
<1>7. CASE UNCHANGED vars
  BY <1>7 DEF vars, database
<1>8. QED
  BY <1>1, <1>2, <1>3, <1>4, <1>5, <1>6, <1>7 DEF Next, Disturb

(* Versions are only ever added, and partitions only ever attached. *)
LEMMA DatabaseGrows ==
    ASSUME TypeOK, [Next]_vars
    PROVE  recorded \subseteq recorded' /\ partitions \subseteq partitions'
<1>1. ASSUME NEW p \in Installer, Proceed(p)
      PROVE  recorded \subseteq recorded' /\ partitions \subseteq partitions'
  BY <1>1 DEF Proceed, InspectAccepts, InspectRejects, CreateMigrationTable, ReadVersions,
              SkipMigration, BeginMigration, FinishMigrations, KeepReadyIndex, ChooseCreate,
              ChooseRepair, RejectIndex, DropIndex, BeginBuild, SkipBuild, FinishBuild,
              EndReconcile, VerifyRecorded, VerifyNew, VerifyRejects, RecordVersion, Unlock, database
<1>2. ASSUME NEW p \in Installer, (\E m \in Mode : Start(p, m)) \/ AcquireLock(p) \/ Disturb(p)
      PROVE  recorded \subseteq recorded' /\ partitions \subseteq partitions'
  BY <1>2 DEF Start, AcquireLock, Disturb, LockFails, StatementFails, Crash, database
<1>3. CASE Environment
  BY <1>3 DEF Environment, AttachPartition, OperatorCreates, OperatorDrops
<1>4. CASE UNCHANGED vars
  BY <1>4 DEF vars, database
<1>5. QED
  BY <1>1, <1>2, <1>3, <1>4 DEF Next

(* PlanInv is inductive. *)
LEMMA PlanStep ==
    ASSUME TypeOK, PlanInv, [Next]_vars
    PROVE  PlanInv'
<1> USE DatabaseGrows DEF TypeOK, DatabaseOK, LocalsOK, PlanInv, Loop, InMigration, Goto
<1>1. ASSUME NEW p \in Installer,
             InspectAccepts(p) \/ CreateMigrationTable(p) \/ ReadVersions(p)
      PROVE  PlanInv'
  <2>1. CASE InspectAccepts(p)
    BY <2>1 DEF InspectAccepts, database
  <2>2. CASE CreateMigrationTable(p)
    BY <2>2 DEF CreateMigrationTable, locals
  <2>3. CASE ReadVersions(p)
    BY <2>3 DEF ReadVersions, database
  <2>4. QED
    BY <1>1, <2>1, <2>2, <2>3
<1>2. ASSUME NEW p \in Installer,
             SkipMigration(p) \/ BeginMigration(p) \/ VerifyRecorded(p) \/ VerifyNew(p) \/ RecordVersion(p)
      PROVE  PlanInv'
  <2>1. CASE SkipMigration(p)
    BY <2>1 DEF SkipMigration, database
  <2>2. CASE BeginMigration(p) \/ VerifyNew(p)
    BY <2>2 DEF BeginMigration, VerifyNew, database
  <2>3. CASE VerifyRecorded(p)
    BY <2>3 DEF VerifyRecorded, database
  <2>4. CASE RecordVersion(p)
    BY <2>4 DEF RecordVersion
  <2>5. QED
    BY <1>2, <2>1, <2>2, <2>3, <2>4
<1>3. ASSUME NEW p \in Installer,
             KeepReadyIndex(p) \/ ChooseCreate(p) \/ ChooseRepair(p) \/ SkipBuild(p) \/ EndReconcile(p)
      PROVE  PlanInv'
  <2>1. CASE KeepReadyIndex(p)
    BY <2>1 DEF KeepReadyIndex, database
  <2>2. CASE ChooseCreate(p)
    BY <2>2 DEF ChooseCreate, database
  <2>3. CASE ChooseRepair(p)
    BY <2>3 DEF ChooseRepair, database
  <2>4. CASE SkipBuild(p)
    BY <2>4 DEF SkipBuild, database
  <2>5. CASE EndReconcile(p)
    BY <2>5 DEF EndReconcile, database, locals
  <2>6. QED
    BY <1>3, <2>1, <2>2, <2>3, <2>4, <2>5
<1>4. ASSUME NEW p \in Installer, DropIndex(p) \/ BeginBuild(p) \/ FinishBuild(p)
      PROVE  PlanInv'
  <2>1. CASE DropIndex(p)
    BY <2>1 DEF DropIndex, locals
  <2>2. CASE BeginBuild(p)
    BY <2>2 DEF BeginBuild, locals
  <2>3. CASE FinishBuild(p)
    BY <2>3 DEF FinishBuild
  <2>4. QED
    BY <1>4, <2>1, <2>2, <2>3
<1>5. ASSUME NEW p \in Installer,
             InspectRejects(p) \/ FinishMigrations(p) \/ RejectIndex(p) \/ VerifyRejects(p) \/ StatementFails(p)
      PROVE  PlanInv'
  <2>1. CASE InspectRejects(p)
    BY <2>1 DEF InspectRejects, LeaveLoop, database
  <2>2. CASE FinishMigrations(p)
    BY <2>2 DEF FinishMigrations, LeaveLoop, database
  <2>3. CASE RejectIndex(p)
    BY <2>3 DEF RejectIndex, LeaveLoop, database
  <2>4. CASE VerifyRejects(p)
    BY <2>4 DEF VerifyRejects, LeaveLoop, database
  <2>5. CASE StatementFails(p)
    BY <2>5 DEF StatementFails, LeaveLoop, database
  <2>6. QED
    BY <1>5, <2>1, <2>2, <2>3, <2>4, <2>5
<1>6. ASSUME NEW p \in Installer, Unlock(p) \/ LockFails(p) \/ Crash(p)
      PROVE  PlanInv'
  <2>1. PICK result \in {outcome[p], "failed", "crashed"} : EndRun(p, result)
    BY <1>6 DEF Unlock, LockFails, Crash
  <2>2. recorded' = recorded /\ partitions' = partitions
    BY <1>6 DEF Unlock, LockFails, Crash, database
  <2>3. QED
    BY <2>1, <2>2 DEF EndRun
<1>7. ASSUME NEW p \in Installer, (\E m \in Mode : Start(p, m)) \/ AcquireLock(p)
      PROVE  PlanInv'
  BY <1>7 DEF Start, AcquireLock, database, locals
<1>8. CASE Environment
  BY <1>8 DEF Environment, AttachPartition, OperatorCreates, OperatorDrops, locals
<1>9. CASE UNCHANGED vars
  BY <1>9 DEF vars, database, locals
<1>10. QED
  BY <1>1, <1>2, <1>3, <1>4, <1>5, <1>6, <1>7, <1>8, <1>9 DEF Next, Proceed, Disturb

(* SeenInv is inductive: only the lock holder is inside a migration, and what
   it changes it takes off its own list. *)
LEMMA SeenStep ==
    ASSUME TypeOK, LockInv, SeenInv, [Next]_vars
    PROVE  SeenInv'
<1> USE DEF TypeOK, DatabaseOK, LocalsOK, SeenInv, Inner, Goto
<1>1. ASSUME NEW p \in Installer, InspectAccepts(p) \/ CreateMigrationTable(p) \/ ReadVersions(p)
                                   \/ SkipMigration(p)
      PROVE  SeenInv'
  <2>1. CASE InspectAccepts(p)
    BY <2>1 DEF InspectAccepts, database
  <2>2. CASE CreateMigrationTable(p)
    BY <2>2 DEF CreateMigrationTable, locals
  <2>3. CASE ReadVersions(p)
    BY <2>3 DEF ReadVersions, database
  <2>4. CASE SkipMigration(p)
    BY <2>4 DEF SkipMigration, database
  <2>5. QED
    BY <1>1, <2>1, <2>2, <2>3, <2>4
<1>2. ASSUME NEW p \in Installer, BeginMigration(p)
      PROVE  SeenInv'
  BY <1>2 DEF BeginMigration, database
<1>3. ASSUME NEW p \in Installer, KeepReadyIndex(p) \/ EndReconcile(p)
      PROVE  SeenInv'
  <2>1. CASE KeepReadyIndex(p)
    <3>1. \A i \in current[p] : i # NextTodo(p)
      BY <2>1 DEF KeepReadyIndex
    <3>2. QED
      BY <2>1, <3>1 DEF KeepReadyIndex, database
  <2>2. CASE EndReconcile(p)
    BY <2>2 DEF EndReconcile, database, locals
  <2>3. QED
    BY <1>3, <2>1, <2>2
<1>4. ASSUME NEW p \in Installer, ChooseCreate(p) \/ ChooseRepair(p)
      PROVE  SeenInv'
  <2>1. NextTodo(p) \in todo[p] /\ seen[p][NextTodo(p)] # "ready"
    BY <1>4 DEF ChooseCreate, ChooseRepair, NextTodo
  <2>2. CASE ChooseCreate(p)
    BY <2>2, <2>1 DEF ChooseCreate, database
  <2>3. CASE ChooseRepair(p)
    BY <2>3, <2>1 DEF ChooseRepair, database
  <2>4. QED
    BY <1>4, <2>2, <2>3
<1>5. ASSUME NEW p \in Installer, DropIndex(p) \/ BeginBuild(p)
      PROVE  SeenInv'
  <2>1. \A i \in Index : idx[i] = "ready" <=> idx'[i] = "ready"
    BY <1>5 DEF DropIndex, BeginBuild
  <2>2. CASE DropIndex(p)
    BY <2>2, <2>1 DEF DropIndex, locals
  <2>3. CASE BeginBuild(p)
    BY <2>3, <2>1 DEF BeginBuild, locals
  <2>4. QED
    BY <1>5, <2>2, <2>3
<1>6. ASSUME NEW p \in Installer, SkipBuild(p)
      PROVE  SeenInv'
  BY <1>6 DEF SkipBuild, database
<1>7. ASSUME NEW p \in Installer, FinishBuild(p)
      PROVE  SeenInv'
  <2>1. lock = p
    BY <1>7 DEF FinishBuild, LockInv, Held, Stage
  <2>2. \A q \in Installer \ {p} : pc[q] \notin Inner
    BY <2>1 DEF LockInv, Held, Stage
  <2>3. \A i \in Index \ current[p] : idx'[i] = idx[i]
    BY <1>7 DEF FinishBuild
  <2>4. QED
    BY <1>7, <2>2, <2>3 DEF FinishBuild
<1>8. ASSUME NEW p \in Installer, VerifyRecorded(p) \/ VerifyNew(p) \/ RecordVersion(p)
      PROVE  SeenInv'
  <2>1. CASE VerifyRecorded(p)
    BY <2>1 DEF VerifyRecorded, database
  <2>2. CASE VerifyNew(p)
    BY <2>2 DEF VerifyNew, database
  <2>3. CASE RecordVersion(p)
    BY <2>3 DEF RecordVersion
  <2>4. QED
    BY <1>8, <2>1, <2>2, <2>3
<1>9. ASSUME NEW p \in Installer,
             InspectRejects(p) \/ FinishMigrations(p) \/ RejectIndex(p) \/ VerifyRejects(p) \/ StatementFails(p)
      PROVE  SeenInv'
  <2>1. CASE InspectRejects(p)
    BY <2>1 DEF InspectRejects, LeaveLoop, database
  <2>2. CASE FinishMigrations(p)
    BY <2>2 DEF FinishMigrations, LeaveLoop, database
  <2>3. CASE RejectIndex(p)
    BY <2>3 DEF RejectIndex, LeaveLoop, database
  <2>4. CASE VerifyRejects(p)
    BY <2>4 DEF VerifyRejects, LeaveLoop, database
  <2>5. CASE StatementFails(p)
    BY <2>5 DEF StatementFails, LeaveLoop, database
  <2>6. QED
    BY <1>9, <2>1, <2>2, <2>3, <2>4, <2>5
<1>10. ASSUME NEW p \in Installer, Unlock(p) \/ LockFails(p)
       PROVE  SeenInv'
  <2>1. CASE Unlock(p)
    BY <2>1 DEF Unlock, EndRun
  <2>2. CASE LockFails(p)
    BY <2>2 DEF LockFails, EndRun, database
  <2>3. QED
    BY <1>10, <2>1, <2>2
<1>11. ASSUME NEW p \in Installer, Crash(p)
       PROVE  SeenInv'
  <2>1. CASE idx' = idx
    BY <1>11, <2>1 DEF Crash, EndRun
  <2>2. CASE pc[p] = "building"
    <3>1. \A q \in Installer \ {p} : pc[q] \notin Inner
      BY <2>2 DEF LockInv, Held, Stage
    <3>2. QED
      BY <1>11, <3>1 DEF Crash, EndRun
  <2>3. QED
    BY <1>11, <2>1, <2>2 DEF Crash
<1>12. ASSUME NEW p \in Installer, (\E m \in Mode : Start(p, m)) \/ AcquireLock(p)
       PROVE  SeenInv'
  <2>1. CASE \E m \in Mode : Start(p, m)
    BY <2>1 DEF Start, database
  <2>2. CASE AcquireLock(p)
    BY <2>2 DEF AcquireLock, locals
  <2>3. QED
    BY <1>12, <2>1, <2>2
<1>13. CASE Environment
  <2>1. \A i \in Index : idx[i] = "ready" <=> idx'[i] = "ready"
    BY <1>13 DEF Environment, AttachPartition, OperatorCreates, OperatorDrops
  <2>2. QED
    BY <1>13, <2>1 DEF Environment, AttachPartition, OperatorCreates, OperatorDrops, locals
<1>14. CASE UNCHANGED vars
  BY <1>14 DEF vars, database, locals
<1>15. QED
  BY <1>1, <1>2, <1>3, <1>4, <1>5, <1>6, <1>7, <1>8, <1>9, <1>10, <1>11, <1>12, <1>13, <1>14
  DEF Next, Proceed, Disturb

(* DoneInv and SuccessMeansReady are inductive together: a migration is left
   behind only after the catalogue showed it complete, and ready indexes stay. *)
LEMMA DoneStep ==
    ASSUME TypeOK, LockInv, PlanInv, SeenInv, DoneInv, SuccessMeansReady, [Next]_vars
    PROVE  DoneInv' /\ SuccessMeansReady'
<1> DEFINE Kept(i) == idx[i] = "ready" => idx'[i] = "ready"
<1>1. \A q \in Installer, v \in Version : \A i \in IndexesOf(v, plan[q]) : Kept(i)
  BY ReadyKept, IndexesOfType DEF TypeOK, LocalsOK
<1>2. \A q \in Installer : \A i \in PlannedIndexes(plan[q]) : Kept(i)
  BY <1>1 DEF PlannedIndexes
<1> HIDE DEF Kept
<1>3. ASSUME NEW q \in Installer,
             pc'[q] = pc[q], plan'[q] = plan[q], version'[q] = version[q], outcome'[q] = outcome[q]
      PROVE  /\ pc'[q] \in Loop => \A v \in Version : v < version'[q] =>
                  \A i \in IndexesOf(v, plan'[q]) : idx'[i] = "ready"
             /\ pc'[q] = "recording" => \A i \in IndexesOf(version'[q], plan'[q]) : idx'[i] = "ready"
             /\ pc'[q] = "unlocking" /\ outcome'[q] = "ok" =>
                  \A i \in PlannedIndexes(plan'[q]) : idx'[i] = "ready"
  <2>1. pc[q] = "recording" => version[q] \in Version
    BY DEF TypeOK, LocalsOK, InMigration
  <2>2. QED
    BY <1>1, <1>2, <1>3, <2>1 DEF DoneInv, SuccessMeansReady, Complete, Expected, Kept
<1> DEFINE Good(q) ==
             /\ pc'[q] \in Loop => \A v \in Version : v < version'[q] =>
                  \A i \in IndexesOf(v, plan'[q]) : idx'[i] = "ready"
             /\ pc'[q] = "recording" => \A i \in IndexesOf(version'[q], plan'[q]) : idx'[i] = "ready"
             /\ pc'[q] = "unlocking" /\ outcome'[q] = "ok" =>
                  \A i \in PlannedIndexes(plan'[q]) : idx'[i] = "ready"
<1>4. ASSUME \A q \in Installer : Good(q) PROVE DoneInv' /\ SuccessMeansReady'
  BY <1>4 DEF DoneInv, SuccessMeansReady, Complete, Expected
<1> SUFFICES ASSUME NEW q \in Installer PROVE Good(q)
  BY <1>4
<1>5. CASE UNCHANGED <<pc, plan, version, outcome>>
  BY <1>3, <1>5
<1>6. ASSUME NEW p \in Installer, p # q,
             (\E m \in Mode : Start(p, m)) \/ AcquireLock(p) \/ Proceed(p) \/ Disturb(p)
      PROVE  pc'[q] = pc[q] /\ plan'[q] = plan[q] /\ version'[q] = version[q] /\ outcome'[q] = outcome[q]
  <2> USE DEF TypeOK, LocalsOK, Goto
  <2>1. CASE (\E m \in Mode : Start(p, m)) \/ AcquireLock(p) \/ Disturb(p)
    BY <1>6, <2>1 DEF Start, AcquireLock, Disturb, LockFails, StatementFails, Crash,
                      EndRun, LeaveLoop, locals
  <2>2. CASE Proceed(p)
    BY <1>6, <2>2 DEF Proceed, InspectAccepts, InspectRejects, CreateMigrationTable, ReadVersions,
              SkipMigration, BeginMigration, FinishMigrations, KeepReadyIndex, ChooseCreate,
              ChooseRepair, RejectIndex, DropIndex, BeginBuild, SkipBuild, FinishBuild,
              EndReconcile, VerifyRecorded, VerifyNew, VerifyRejects, RecordVersion, Unlock,
              LeaveLoop, EndRun, locals
  <2>3. QED
    BY <1>6, <2>1, <2>2
<1>7. ASSUME (\E m \in Mode : Start(q, m)) \/ AcquireLock(q) \/ InspectAccepts(q)
             \/ CreateMigrationTable(q) \/ Unlock(q) \/ LockFails(q) \/ Crash(q)
      PROVE  Good(q)
  <2>1. pc'[q] \notin Loop \union {"unlocking"}
    BY <1>7 DEF Start, AcquireLock, InspectAccepts, CreateMigrationTable, Unlock, LockFails, Crash,
                EndRun, Goto, Loop, InMigration, TypeOK, LocalsOK
  <2>2. QED
    BY <2>1 DEF Loop, InMigration
<1>8. ASSUME ReadVersions(q) PROVE Good(q)
  <2>1. version'[q] = 1 /\ pc'[q] = "migrating"
    BY <1>8 DEF ReadVersions, Goto, PlanInv, Loop, InMigration, TypeOK, LocalsOK
  <2>2. QED
    BY <2>1 DEF Version
<1>9. ASSUME InspectRejects(q) \/ RejectIndex(q) \/ VerifyRejects(q) \/ StatementFails(q)
      PROVE  Good(q)
  <2>1. pc'[q] = "unlocking" /\ outcome'[q] = "failed"
    BY <1>9 DEF InspectRejects, RejectIndex, VerifyRejects, StatementFails, LeaveLoop, Goto,
                TypeOK, LocalsOK
  <2>2. QED
    BY <2>1 DEF Loop, InMigration
<1>10. ASSUME FinishMigrations(q) PROVE Good(q)
  <2>1. /\ pc[q] = "migrating" /\ version[q] = 6
        /\ pc'[q] = "unlocking" /\ plan' = plan /\ idx' = idx
    BY <1>10 DEF FinishMigrations, LeaveLoop, Goto, TypeOK, LocalsOK, Version, database
  <2>2. \A v \in Version : \A i \in IndexesOf(v, plan[q]) : idx[i] = "ready"
    BY <2>1 DEF DoneInv, Loop, Version
  <2>3. QED
    BY <2>1, <2>2 DEF PlannedIndexes, Loop, InMigration
<1>11. ASSUME SkipMigration(q) \/ VerifyRecorded(q) \/ RecordVersion(q) PROVE Good(q)
  <2>1. /\ version[q] \in Version /\ version'[q] = version[q] + 1
        /\ plan' = plan /\ pc'[q] = "migrating" /\ pc[q] \in Loop
    BY <1>11 DEF SkipMigration, VerifyRecorded, RecordVersion, Goto, TypeOK, LocalsOK, database,
                 Loop, InMigration
  <2>2. \A i \in IndexesOf(version[q], plan[q]) : idx[i] = "ready"
    BY <1>11 DEF SkipMigration, VerifyRecorded, RecordVersion, Expected, Complete, DoneInv
  <2>3. \A v \in Version : v < version[q] + 1 => v < version[q] \/ v = version[q]
    BY <2>1 DEF Version
  <2>4. \A v \in Version : v < version'[q] => \A i \in IndexesOf(v, plan[q]) : idx[i] = "ready"
    BY <2>1, <2>2, <2>3 DEF DoneInv
  <2>5. QED
    BY <1>1, <2>1, <2>4 DEF Kept
<1>12. ASSUME VerifyNew(q) PROVE Good(q)
  <2>1. /\ version' = version /\ plan' = plan /\ idx' = idx
        /\ pc[q] = "verifying" /\ pc'[q] = "recording" /\ Complete(q)
    BY <1>12 DEF VerifyNew, Goto, TypeOK, LocalsOK, database
  <2>2. QED
    BY <2>1 DEF DoneInv, Loop, InMigration, Complete, Expected
<1>13. ASSUME BeginMigration(q) \/ KeepReadyIndex(q) \/ ChooseCreate(q) \/ ChooseRepair(q)
              \/ DropIndex(q) \/ BeginBuild(q) \/ SkipBuild(q) \/ FinishBuild(q) \/ EndReconcile(q)
       PROVE  Good(q)
  <2>1. /\ version' = version /\ plan' = plan
        /\ pc[q] \in Loop /\ pc'[q] \notin {"recording", "unlocking"}
    BY <1>13 DEF BeginMigration, KeepReadyIndex, ChooseCreate, ChooseRepair, DropIndex, BeginBuild,
                 SkipBuild, FinishBuild, EndReconcile, Goto, TypeOK, LocalsOK, locals, database,
                 Loop, InMigration
  <2>2. QED
    BY <1>1, <2>1 DEF DoneInv, Kept
<1>14. CASE \E p \in Installer :
              (\E m \in Mode : Start(p, m)) \/ AcquireLock(p) \/ Proceed(p) \/ Disturb(p)
  <2>1. PICK p \in Installer :
              (\E m \in Mode : Start(p, m)) \/ AcquireLock(p) \/ Proceed(p) \/ Disturb(p)
    BY <1>14
  <2>2. CASE p # q
    BY <1>3, <1>6, <2>1, <2>2
  <2>3. CASE p = q
    BY <1>7, <1>8, <1>9, <1>10, <1>11, <1>12, <1>13, <2>1, <2>3 DEF Proceed, Disturb
  <2>4. QED
    BY <2>2, <2>3
<1>15. CASE Environment
  BY <1>5, <1>15 DEF Environment, AttachPartition, OperatorCreates, OperatorDrops, locals
<1>16. CASE UNCHANGED vars
  BY <1>5, <1>16 DEF vars, locals
<1>17. QED
  BY <1>14, <1>15, <1>16 DEF Next

(* The only version that joins the table is one whose plan, which covers the
   initial partitions, was just seen complete. *)
LEMMA RecordedStep ==
    ASSUME TypeOK, LockInv, PlanInv, SeenInv, DoneInv, RecordedVersionsAreIndexed, [Next]_vars
    PROVE  RecordedVersionsAreIndexed'
<1>1. \A v : \A i \in IndexesOf(v, InitialPartitions) : idx[i] = "ready" => idx'[i] = "ready"
  BY ReadyKept, IndexesOfType, InstallerAssumption
<1>2. CASE recorded' = recorded
  BY <1>1, <1>2 DEF RecordedVersionsAreIndexed
<1>3. ASSUME NEW p \in Installer, RecordVersion(p)
      PROVE  RecordedVersionsAreIndexed'
  <2>1. /\ recorded' = recorded \union {version[p]}
        /\ Complete(p) /\ InitialPartitions \subseteq plan[p]
    BY <1>3 DEF RecordVersion, DoneInv, PlanInv, Loop, InMigration
  <2>2. \A i \in IndexesOf(version[p], InitialPartitions) : idx[i] = "ready"
    BY <2>1, IndexesOfMonotone DEF Complete, Expected
  <2>3. QED
    BY <1>1, <2>1, <2>2 DEF RecordedVersionsAreIndexed
<1>4. ASSUME NEW p \in Installer, Proceed(p), ~RecordVersion(p)
      PROVE  recorded' = recorded
  BY <1>4 DEF Proceed, InspectAccepts, InspectRejects, CreateMigrationTable, ReadVersions,
              SkipMigration, BeginMigration, FinishMigrations, KeepReadyIndex, ChooseCreate,
              ChooseRepair, RejectIndex, DropIndex, BeginBuild, SkipBuild, FinishBuild,
              EndReconcile, VerifyRecorded, VerifyNew, VerifyRejects, Unlock, database
<1>5. ASSUME NEW p \in Installer, (\E m \in Mode : Start(p, m)) \/ AcquireLock(p) \/ Disturb(p)
      PROVE  recorded' = recorded
  BY <1>5 DEF Start, AcquireLock, Disturb, LockFails, StatementFails, Crash, database
<1>6. CASE Environment \/ UNCHANGED vars
  BY <1>2, <1>6 DEF Environment, AttachPartition, OperatorCreates, OperatorDrops, vars, database
<1>7. QED
  BY <1>2, <1>3, <1>4, <1>5, <1>6 DEF Next

-----------------------------------------------------------------------------
(* The invariant of the installer. *)
THEOREM InstallerInvariant == Spec => []IInv
<1>1. Init => IInv
  <2> SUFFICES ASSUME Init PROVE PlanInv /\ SeenInv /\ DoneInv /\ SuccessMeansReady
                                 /\ RecordedVersionsAreIndexed /\ LockInv /\ TypeOK
    BY DEF IInv
  <2>1. PlanInv /\ SeenInv
    BY DEF Init, PlanInv, SeenInv, Loop, InMigration, Inner
  <2>2. DoneInv /\ SuccessMeansReady /\ RecordedVersionsAreIndexed
    BY DEF Init, DoneInv, SuccessMeansReady, RecordedVersionsAreIndexed, Loop, InMigration
  <2>3. LockInv
    BY InstallerAssumption DEF Init, LockInv, Held
  <2>4. QED
    BY <2>1, <2>2, <2>3, TypeInit
<1>2. IInv /\ [Next]_vars => PlanInv' /\ SeenInv' /\ DoneInv' /\ SuccessMeansReady'
                             /\ RecordedVersionsAreIndexed'
  BY PlanStep, SeenStep, DoneStep, RecordedStep DEF IInv
<1>3. (TypeOK /\ LockInv /\ PlanInv /\ SeenInv /\ DoneInv /\ SuccessMeansReady
       /\ RecordedVersionsAreIndexed) <=> IInv
  BY DEF IInv
<1>4. QED
  BY <1>1, <1>2, <1>3, TypeCorrect, LockHolderOnly, PTL DEF Spec

(* A recorded version has every index it promises, in every reachable state. *)
THEOREM RecordedVersionsIndexed == Spec => []RecordedVersionsAreIndexed
<1>1. IInv => RecordedVersionsAreIndexed
  BY DEF IInv
<1>2. QED
  BY <1>1, InstallerInvariant, PTL

(* A run that reports success has all its planned indexes ready. *)
THEOREM SuccessReady == Spec => []SuccessMeansReady
<1>1. IInv => SuccessMeansReady
  BY DEF IInv
<1>2. QED
  BY <1>1, InstallerInvariant, PTL

(* No step of any installer, and no failure, takes a ready index away. *)
THEOREM ReadyIndexesStay ==
    Spec => [][\A i \in Index : idx[i] = "ready" => idx'[i] = "ready"]_vars
<1>1. IInv /\ [Next]_vars => \A i \in Index : idx[i] = "ready" => idx'[i] = "ready"
  BY ReadyKept DEF IInv
<1>2. QED
  BY <1>1, InstallerInvariant, PTL DEF Spec

-----------------------------------------------------------------------------
(* Runs no operator interferes with: OperatorRaces is FALSE.               *)

(* Whoever holds the lock is the only one to change the catalogue or its own
   place in it: what a step of another run, or of the environment, leaves
   alone while run q is between lock and unlock. *)
LEMMA HolderUndisturbed ==
    ASSUME OperatorRaces = FALSE, TypeOK, LockInv, [Next]_vars, NEW q \in Installer, pc[q] \in Held,
           ~Proceed(q), ~Disturb(q)
    PROVE  /\ idx' = idx /\ pc'[q] = pc[q] /\ mode'[q] = mode[q] /\ plan'[q] = plan[q]
           /\ seen'[q] = seen[q] /\ todo'[q] = todo[q] /\ current'[q] = current[q]
<1> USE DEF TypeOK, LocalsOK, Goto
<1>1. lock = q /\ q # NoInstaller /\ \A p \in Installer \ {q} : pc[p] \notin Held
  BY InstallerAssumption DEF LockInv
<1>2. ASSUME NEW p \in Installer, NEW m \in Mode, Start(p, m)
      PROVE  /\ idx' = idx /\ pc'[q] = pc[q] /\ mode'[q] = mode[q] /\ plan'[q] = plan[q]
             /\ seen'[q] = seen[q] /\ todo'[q] = todo[q] /\ current'[q] = current[q]
  <2>1. p # q
    BY <1>2 DEF Start, Held
  <2> QED BY <1>2, <2>1 DEF Start, database
<1>3. ASSUME NEW p \in Installer PROVE ~AcquireLock(p)
  BY <1>1 DEF AcquireLock
<1>4. ASSUME NEW p \in Installer, Proceed(p) PROVE FALSE
  <2>1. pc[p] \in Held
    BY <1>4 DEF Proceed, InspectAccepts, InspectRejects, CreateMigrationTable, ReadVersions,
              SkipMigration, BeginMigration, FinishMigrations, KeepReadyIndex, ChooseCreate,
              ChooseRepair, RejectIndex, DropIndex, BeginBuild, SkipBuild, FinishBuild,
              EndReconcile, VerifyRecorded, VerifyNew, VerifyRejects, RecordVersion, Unlock,
              Held, Stage
  <2> QED BY <1>1, <1>4, <2>1
<1>5. ASSUME NEW p \in Installer, Disturb(p)
      PROVE  /\ idx' = idx /\ pc'[q] = pc[q] /\ mode'[q] = mode[q] /\ plan'[q] = plan[q]
             /\ seen'[q] = seen[q] /\ todo'[q] = todo[q] /\ current'[q] = current[q]
  <2>1. p # q /\ pc[p] \notin Held
    BY <1>1, <1>5
  <2>2. pc[p] # "building" /\ ~StatementFails(p)
    BY <2>1 DEF StatementFails, Held, Stage
  <2> QED BY <1>5, <2>1, <2>2 DEF Disturb, LockFails, Crash, EndRun, database
<1>6. CASE Environment
  BY <1>1, <1>6 DEF Environment, AttachPartition, OperatorCreates, OperatorDrops, OperatorMayAct, locals
<1>7. CASE UNCHANGED vars
  BY <1>7 DEF vars, database, locals
<1> QED BY <1>2, <1>3, <1>4, <1>5, <1>6, <1>7 DEF Next

(* ReadInv is inductive. *)
LEMMA ReadStep ==
    ASSUME OperatorRaces = FALSE, TypeOK, LockInv, SeenInv, ReadInv, [Next]_vars
    PROVE  ReadInv'
<1> DEFINE Good(q) ==
      /\ pc'[q] \in Inner => \A i \in todo'[q] \ current'[q] : seen'[q][i] = idx'[i]
      /\ pc'[q] = "reconciling" => current'[q] = {}
      /\ pc'[q] = "dropping" => mode'[q] = "repair" /\ \A i \in current'[q] : idx'[i] = "invalid"
<1> SUFFICES ASSUME NEW q \in Installer PROVE Good(q)
  BY DEF ReadInv
<1> USE DEF TypeOK, DatabaseOK, LocalsOK, Goto, Inner
<1>1. CASE Proceed(q)
  <2>1. CASE BeginMigration(q)
    BY <2>1 DEF BeginMigration, SeenInv, database
  <2>2. CASE KeepReadyIndex(q)
    <3>1. /\ pc[q] = "reconciling" /\ pc' = pc /\ idx' = idx /\ seen' = seen
          /\ current' = current /\ todo'[q] \subseteq todo[q]
      BY <2>2 DEF KeepReadyIndex, database
    <3> QED BY <3>1 DEF ReadInv
  <2>a. CASE ChooseCreate(q)
    <3>1. /\ pc[q] = "reconciling" /\ pc'[q] = "creating" /\ idx' = idx /\ seen' = seen
          /\ todo' = todo
      BY <2>a DEF ChooseCreate, database
    <3>2. \A i \in todo[q] : seen[q][i] = idx[i]
      BY <3>1 DEF ReadInv
    <3> QED BY <3>1, <3>2
  <2>3. CASE ChooseRepair(q)
    <3>1. NextTodo(q) \in todo[q] /\ current[q] = {} /\ seen[q][NextTodo(q)] = "invalid"
      BY <2>3 DEF ChooseRepair, NextTodo, ReadInv
    <3>2. idx[NextTodo(q)] = "invalid"
      BY <2>3, <3>1 DEF ChooseRepair, ReadInv
    <3> QED BY <2>3, <3>1, <3>2 DEF ChooseRepair, ReadInv, database
  <2>4. CASE DropIndex(q) \/ BeginBuild(q)
    BY <2>4 DEF DropIndex, BeginBuild, ReadInv, locals
  <2>5. CASE SkipBuild(q) \/ FinishBuild(q)
    BY <2>5 DEF SkipBuild, FinishBuild, ReadInv, database
  <2>6. CASE InspectAccepts(q) \/ CreateMigrationTable(q) \/ ReadVersions(q) \/ SkipMigration(q)
             \/ EndReconcile(q) \/ VerifyRecorded(q) \/ VerifyNew(q) \/ RecordVersion(q)
    BY <2>6 DEF InspectAccepts, CreateMigrationTable, ReadVersions, SkipMigration, EndReconcile,
                VerifyRecorded, VerifyNew, RecordVersion
  <2>7. CASE InspectRejects(q) \/ FinishMigrations(q) \/ RejectIndex(q) \/ VerifyRejects(q) \/ Unlock(q)
    BY <2>7 DEF InspectRejects, FinishMigrations, RejectIndex, VerifyRejects, Unlock, LeaveLoop, EndRun
  <2> QED BY <1>1, <2>1, <2>2, <2>a, <2>3, <2>4, <2>5, <2>6, <2>7 DEF Proceed
<1>2. CASE Disturb(q)
  BY <1>2 DEF Disturb, LockFails, StatementFails, Crash, LeaveLoop, EndRun
<1>3. CASE ~Proceed(q) /\ ~Disturb(q)
  <2>1. CASE pc[q] \in Held
    <3>1. /\ idx' = idx /\ pc'[q] = pc[q] /\ mode'[q] = mode[q]
          /\ seen'[q] = seen[q] /\ todo'[q] = todo[q] /\ current'[q] = current[q]
      BY <1>3, <2>1, HolderUndisturbed
    <3> QED BY <3>1 DEF ReadInv
  <2>2. CASE pc[q] \notin Held
    <3>1. pc'[q] \notin Inner
      <4>1. ASSUME NEW p \in Installer, NEW m \in Mode, Start(p, m) PROVE pc'[q] \notin Inner
        BY <2>2, <4>1 DEF Start, Held, Stage
      <4>2. ASSUME NEW p \in Installer, AcquireLock(p) PROVE pc'[q] \notin Inner
        BY <2>2, <4>2 DEF AcquireLock, Held, Stage
      <4>3. ASSUME NEW p \in Installer, p # q, Proceed(p) PROVE pc'[q] \notin Inner
        <5>1. CASE Unlock(p)
          BY <2>2, <4>3, <5>1 DEF Unlock, EndRun, Held, Stage
        <5>2. CASE ~Unlock(p)
          BY <2>2, <4>3, <5>2, ProceedStage DEF Held, Stage
        <5> QED BY <5>1, <5>2
      <4>4. ASSUME NEW p \in Installer, p # q, Disturb(p) PROVE pc'[q] \notin Inner
        BY <2>2, <4>4 DEF Disturb, LockFails, StatementFails, Crash, LeaveLoop, EndRun, Held, Stage
      <4>5. CASE Environment \/ UNCHANGED vars
        BY <2>2, <4>5 DEF Environment, AttachPartition, OperatorCreates, OperatorDrops, vars, Held, Stage
      <4> QED BY <1>3, <4>1, <4>2, <4>3, <4>4, <4>5 DEF Next
    <3> QED BY <3>1
  <2> QED BY <2>1, <2>2
<1> QED BY <1>1, <1>2, <1>3

(* Nothing a run planned is in conflict, or broken in an apply run. *)
LEMMA CleanStep ==
    ASSUME OperatorRaces = FALSE, TypeOK, LockInv, SeenInv, ReadInv, CleanWhileReconciling, [Next]_vars
    PROVE  CleanWhileReconciling'
<1> DEFINE Good(q) == Reconciling(q)' =>
      \A i \in PlannedIndexes(plan'[q]) :
          /\ idx'[i] # "conflict"
          /\ mode'[q] = "apply" /\ idx'[i] = "invalid" => pc'[q] = "building" /\ i \in current'[q]
<1> SUFFICES ASSUME NEW q \in Installer PROVE Good(q)
  BY DEF CleanWhileReconciling
<1>0. \A i \in PlannedIndexes(plan[q]) : i \in Index
  BY IndexesOfType DEF PlannedIndexes, TypeOK, LocalsOK
<1> USE DEF TypeOK, DatabaseOK, LocalsOK, Goto, Reconciling
<1>1. CASE Proceed(q)
  <2>1. CASE InspectAccepts(q)
    BY <2>1 DEF InspectAccepts, Acceptable, database
  <2>2. CASE DropIndex(q)
    BY <1>0, <2>2 DEF DropIndex, ReadInv, CleanWhileReconciling, locals
  <2>3. CASE BeginBuild(q)
    BY <1>0, <2>3 DEF BeginBuild, CleanWhileReconciling, locals
  <2>4. CASE FinishBuild(q)
    BY <1>0, <2>4 DEF FinishBuild, CleanWhileReconciling
  <2>5. CASE CreateMigrationTable(q) \/ ReadVersions(q) \/ SkipMigration(q) \/ BeginMigration(q)
             \/ KeepReadyIndex(q) \/ ChooseCreate(q) \/ ChooseRepair(q) \/ SkipBuild(q)
             \/ EndReconcile(q) \/ VerifyRecorded(q) \/ VerifyNew(q) \/ RecordVersion(q)
    <3>1. idx' = idx /\ plan' = plan /\ mode' = mode /\ Reconciling(q) /\ pc[q] # "building"
      BY <2>5 DEF CreateMigrationTable, ReadVersions, SkipMigration, BeginMigration,
                  KeepReadyIndex, ChooseCreate, ChooseRepair, SkipBuild, EndReconcile,
                  VerifyRecorded, VerifyNew, RecordVersion, database, locals
    <3> QED BY <3>1 DEF CleanWhileReconciling
  <2>6. CASE InspectRejects(q) \/ FinishMigrations(q) \/ RejectIndex(q) \/ VerifyRejects(q) \/ Unlock(q)
    BY <2>6 DEF InspectRejects, FinishMigrations, RejectIndex, VerifyRejects, Unlock, LeaveLoop, EndRun
  <2> QED BY <1>1, <2>1, <2>2, <2>3, <2>4, <2>5, <2>6 DEF Proceed
<1>2. CASE Disturb(q)
  BY <1>2 DEF Disturb, LockFails, StatementFails, Crash, LeaveLoop, EndRun
<1>3. CASE ~Proceed(q) /\ ~Disturb(q) /\ pc[q] \in Held
  BY <1>3, HolderUndisturbed DEF CleanWhileReconciling
<1>4. CASE ~Proceed(q) /\ ~Disturb(q) /\ pc[q] \notin Held
  <2>1. ASSUME NEW p \in Installer, NEW m \in Mode, Start(p, m) PROVE Good(q)
    BY <1>4, <2>1 DEF Start, Held, Stage
  <2>2. ASSUME NEW p \in Installer, AcquireLock(p) PROVE Good(q)
    BY <1>4, <2>2 DEF AcquireLock, Held, Stage
  <2>3. ASSUME NEW p \in Installer, p # q, Proceed(p) PROVE Good(q)
    <3>1. CASE Unlock(p)
      BY <1>4, <2>3, <3>1 DEF Unlock, EndRun, Held, Stage
    <3>2. CASE ~Unlock(p)
      BY <1>4, <2>3, <3>2, ProceedStage DEF Held, Stage
    <3> QED BY <3>1, <3>2
  <2>4. ASSUME NEW p \in Installer, p # q, Disturb(p) PROVE Good(q)
    BY <1>4, <2>4 DEF Disturb, LockFails, StatementFails, Crash, LeaveLoop, EndRun, Held, Stage
  <2>5. CASE Environment \/ UNCHANGED vars
    BY <1>4, <2>5 DEF Environment, AttachPartition, OperatorCreates, OperatorDrops, vars, Held, Stage
  <2> QED BY <1>4, <2>1, <2>2, <2>3, <2>4, <2>5 DEF Next
<1> QED BY <1>1, <1>2, <1>3, <1>4

(* What leaves the catalogue was broken and dropped by a repair that holds the
   lock, or was removed by an operator and was not ready. *)
LEMMA DropStep ==
    ASSUME TypeOK, LockInv, SeenInv, ReadInv, [Next]_vars,
           NEW i \in Index, idx[i] # "absent", idx'[i] = "absent"
    PROVE  \/ \E p \in Installer :
                 pc[p] = "dropping" /\ lock = p /\ mode[p] = "repair" /\ idx[i] = "invalid"
           \/ pc' = pc /\ idx[i] # "ready"
<1> USE DEF TypeOK, DatabaseOK, LocalsOK
<1>1. ASSUME NEW p \in Installer, DropIndex(p)
      PROVE  pc[p] = "dropping" /\ lock = p /\ mode[p] = "repair" /\ idx[i] = "invalid"
  <2>1. pc[p] = "dropping" /\ lock = p
    BY <1>1 DEF DropIndex, LockInv, Held, Stage
  <2>2. i \in current[p]
    BY <1>1 DEF DropIndex
  <2> QED BY <2>1, <2>2 DEF ReadInv
<1>2. ASSUME NEW p \in Installer, BeginBuild(p) \/ FinishBuild(p) \/ Crash(p) PROVE FALSE
  BY <1>2 DEF BeginBuild, FinishBuild, Crash
<1>3. ASSUME NEW p \in Installer, Proceed(p), ~DropIndex(p), ~BeginBuild(p), ~FinishBuild(p)
      PROVE  FALSE
  BY <1>3 DEF Proceed, InspectAccepts, InspectRejects, CreateMigrationTable, ReadVersions,
              SkipMigration, BeginMigration, FinishMigrations, KeepReadyIndex, ChooseCreate,
              ChooseRepair, RejectIndex, SkipBuild, EndReconcile, VerifyRecorded, VerifyNew,
              VerifyRejects, RecordVersion, Unlock, database
<1>4. ASSUME NEW p \in Installer,
             (\E m \in Mode : Start(p, m)) \/ AcquireLock(p) \/ LockFails(p) \/ StatementFails(p)
      PROVE  FALSE
  BY <1>4 DEF Start, AcquireLock, LockFails, StatementFails, database
<1>5. CASE Environment
  BY <1>5 DEF Environment, AttachPartition, OperatorCreates, OperatorDrops
<1>6. CASE UNCHANGED vars
  BY <1>6 DEF vars, database
<1> QED BY <1>1, <1>2, <1>3, <1>4, <1>5, <1>6 DEF Next, Disturb

(* What a run reads stays true for it, and none of its planned names is taken
   or, in an apply run, broken, while no operator interferes with runs. *)
THEOREM RunsAreClean ==
    ASSUME OperatorRaces = FALSE
    PROVE  Spec => [](ReadInv /\ CleanWhileReconciling)
<1>1. Init => ReadInv /\ CleanWhileReconciling
  BY DEF Init, ReadInv, CleanWhileReconciling, Reconciling, Inner
<1>2. IInv /\ ReadInv /\ CleanWhileReconciling /\ [Next]_vars => ReadInv' /\ CleanWhileReconciling'
  BY ReadStep, CleanStep DEF IInv
<1> QED BY <1>1, <1>2, InstallerInvariant, PTL DEF Spec

(* Only repair drops an index, and only a broken one, while no operator
   interferes with runs. *)
THEOREM RepairDropsOnly ==
    ASSUME OperatorRaces = FALSE
    PROVE  Spec => OnlyRepairDrops
<1>1. IInv /\ ReadInv /\ [Next]_vars =>
        \A i \in Index : idx[i] # "absent" /\ idx'[i] = "absent" =>
          \/ \E p \in Installer :
                pc[p] = "dropping" /\ lock = p /\ mode[p] = "repair" /\ idx[i] = "invalid"
          \/ pc' = pc /\ idx[i] # "ready"
  BY DropStep DEF IInv
<1> QED BY <1>1, InstallerInvariant, RunsAreClean, PTL DEF Spec, OnlyRepairDrops

-----------------------------------------------------------------------------
(* The migration ledger *)

(* A step of one run leaves the local variables of the others alone. *)
LEMMA OthersStay ==
    ASSUME TypeOK, NEW p \in Installer, NEW q \in Installer, p # q,
           (\E m \in Mode : Start(p, m)) \/ AcquireLock(p) \/ Proceed(p) \/ Disturb(p)
    PROVE  /\ pc'[q] = pc[q] /\ plan'[q] = plan[q] /\ version'[q] = version[q]
           /\ outcome'[q] = outcome[q] /\ applied'[q] = applied[q]
           /\ todo'[q] = todo[q] /\ current'[q] = current[q]
<1> USE DEF TypeOK, LocalsOK, Goto
<1>1. CASE (\E m \in Mode : Start(p, m)) \/ AcquireLock(p) \/ Disturb(p)
  BY <1>1 DEF Start, AcquireLock, Disturb, LockFails, StatementFails, Crash, EndRun, LeaveLoop, locals
<1>2. CASE Proceed(p)
  BY <1>2 DEF Proceed, InspectAccepts, InspectRejects, CreateMigrationTable, ReadVersions,
              SkipMigration, BeginMigration, FinishMigrations, KeepReadyIndex, ChooseCreate,
              ChooseRepair, RejectIndex, DropIndex, BeginBuild, SkipBuild, FinishBuild,
              EndReconcile, VerifyRecorded, VerifyNew, VerifyRejects, RecordVersion, Unlock,
              LeaveLoop, EndRun, locals
<1> QED BY <1>1, <1>2

(* Only recording a version changes the migration table. *)
LEMMA OnlyRecording ==
    ASSUME [Next]_vars, \A p \in Installer : ~RecordVersion(p)
    PROVE  recorded' = recorded
<1>1. ASSUME NEW p \in Installer, Proceed(p) PROVE recorded' = recorded
  BY <1>1 DEF Proceed, InspectAccepts, InspectRejects, CreateMigrationTable, ReadVersions,
              SkipMigration, BeginMigration, FinishMigrations, KeepReadyIndex, ChooseCreate,
              ChooseRepair, RejectIndex, DropIndex, BeginBuild, SkipBuild, FinishBuild,
              EndReconcile, VerifyRecorded, VerifyNew, VerifyRejects, Unlock, database
<1>2. ASSUME NEW p \in Installer, (\E m \in Mode : Start(p, m)) \/ AcquireLock(p) \/ Disturb(p)
      PROVE  recorded' = recorded
  BY <1>2 DEF Start, AcquireLock, Disturb, LockFails, StatementFails, Crash, database
<1>3. CASE Environment \/ UNCHANGED vars
  BY <1>3 DEF Environment, AttachPartition, OperatorCreates, OperatorDrops, vars, database
<1> QED BY <1>1, <1>2, <1>3 DEF Next

(* What a run knows of the table survives the steps it does not make: while it
   is in the loop nobody else records. *)
LEMMA TableKept ==
    ASSUME TypeOK, LockInv, [Next]_vars, NEW q \in Installer, TableOf(q), ~RecordVersion(q),
           pc'[q] = pc[q], plan'[q] = plan[q], version'[q] = version[q], outcome'[q] = outcome[q],
           applied'[q] = applied[q], todo'[q] = todo[q], current'[q] = current[q]
    PROVE  TableOf(q)'
<1>1. ASSUME pc[q] \in Loop PROVE recorded' = recorded
  <2>1. \A p \in Installer : ~RecordVersion(p)
    BY <1>1 DEF LockInv, RecordVersion, Loop, InMigration, Held, Stage
  <2> QED BY <2>1, OnlyRecording
<1>2. recorded \subseteq recorded'
  BY DatabaseGrows
<1> QED BY <1>1, <1>2 DEF TableOf, Expected

(* TableInv is inductive. *)
LEMMA TableStep ==
    ASSUME TypeOK, LockInv, PlanInv, SeenInv, TableInv, [Next]_vars, NEW q \in Installer
    PROVE  TableOf(q)'
<1> USE DEF TypeOK, DatabaseOK, LocalsOK
<1>1. TableOf(q)
  BY DEF TableInv
<1>2. CASE UNCHANGED vars \/ Environment
  <2>1. UNCHANGED <<pc, locals>>
    BY <1>2 DEF vars, Environment, AttachPartition, OperatorCreates, OperatorDrops
  <2>2. ~RecordVersion(q)
    BY <2>1 DEF RecordVersion, Goto
  <2> QED BY <1>1, <2>1, <2>2, TableKept DEF locals
<1>3. ASSUME NEW p \in Installer, p # q,
             (\E m \in Mode : Start(p, m)) \/ AcquireLock(p) \/ Proceed(p) \/ Disturb(p)
      PROVE  TableOf(q)'
  <2>1. /\ pc'[q] = pc[q] /\ plan'[q] = plan[q] /\ version'[q] = version[q]
        /\ outcome'[q] = outcome[q] /\ applied'[q] = applied[q]
        /\ todo'[q] = todo[q] /\ current'[q] = current[q]
    BY <1>3, OthersStay
  <2>2. ~RecordVersion(q)
    BY <2>1 DEF RecordVersion, Goto
  <2> QED BY <1>1, <2>1, <2>2, TableKept
<1>4. ASSUME (\E m \in Mode : Start(q, m)) \/ AcquireLock(q) \/ InspectAccepts(q)
             \/ CreateMigrationTable(q)
      PROVE  TableOf(q)'
  <2>1. /\ pc'[q] \in {"locking", "inspecting", "creatingTable", "readingVersions"}
        /\ current'[q] = current[q]
    BY <1>4 DEF Start, AcquireLock, InspectAccepts, CreateMigrationTable, Goto, locals
  <2> QED BY <1>1, <2>1 DEF TableOf, Loop, InMigration, Inner
<1>5. ASSUME LockFails(q) \/ Crash(q) PROVE TableOf(q)'
  <2>1. pc'[q] = "idle" /\ outcome'[q] # "ok" /\ current'[q] = {}
    BY <1>5 DEF LockFails, Crash, EndRun, Goto
  <2> QED BY <2>1 DEF TableOf, Loop, InMigration, Inner
<1>6. ASSUME InspectRejects(q) \/ RejectIndex(q) \/ VerifyRejects(q) \/ StatementFails(q)
      PROVE  TableOf(q)'
  <2>1. pc'[q] = "unlocking" /\ outcome'[q] = "failed" /\ current'[q] = {}
    BY <1>6 DEF InspectRejects, RejectIndex, VerifyRejects, StatementFails, LeaveLoop, Goto
  <2> QED BY <2>1 DEF TableOf, Loop, InMigration, Inner
<1>7. ASSUME Unlock(q) PROVE TableOf(q)'
  <2>1. /\ pc[q] = "unlocking" /\ pc'[q] = "idle" /\ current'[q] = {} /\ recorded' = recorded
        /\ outcome'[q] \in {outcome[q], "failed"}
    BY <1>7 DEF Unlock, EndRun, Goto
  <2>2. ASSUME outcome'[q] = "ok", NEW v \in Version, IndexesOf(v, InitialPartitions) # {}
        PROVE  v \in recorded'
    BY <1>1, <2>1, <2>2, IndexesOfMonotone DEF TableOf
  <2> QED BY <2>1, <2>2 DEF TableOf, Loop, InMigration, Inner
<1>8. ASSUME ReadVersions(q) PROVE TableOf(q)'
  <2>1. /\ pc'[q] = "migrating" /\ applied'[q] = recorded' /\ version'[q] = 1 /\ current'[q] = current[q]
    BY <1>8 DEF ReadVersions, Goto, database, PlanInv, Loop, InMigration
  <2>2. \A v \in Version : ~(v < version'[q])
    BY <2>1 DEF Version
  <2> QED BY <1>1, <2>1, <2>2 DEF TableOf, Loop, InMigration, Inner
<1>9. ASSUME FinishMigrations(q) PROVE TableOf(q)'
  <2>1. /\ pc[q] = "migrating" /\ version[q] = 6 /\ pc'[q] = "unlocking" /\ outcome'[q] = "ok"
        /\ current'[q] = {} /\ plan' = plan /\ recorded' = recorded
    BY <1>9 DEF FinishMigrations, LeaveLoop, Goto, database, Version
  <2>2. \A v \in Version : v < version[q]
    BY <2>1 DEF Version
  <2>3. InitialPartitions \subseteq plan[q]
    BY <2>1 DEF PlanInv, Loop, InMigration
  <2> QED BY <1>1, <2>1, <2>2, <2>3 DEF TableOf, Loop, InMigration, Inner
<1>10. ASSUME SkipMigration(q) \/ VerifyRecorded(q) \/ RecordVersion(q) PROVE TableOf(q)'
  <2>1. /\ version[q] \in Version /\ version'[q] = version[q] + 1 /\ pc[q] \in Loop
        /\ pc'[q] = "migrating" /\ plan' = plan /\ current' = current
    BY <1>10 DEF SkipMigration, VerifyRecorded, RecordVersion, Goto, database, Loop, InMigration
  <2>2. applied'[q] = recorded'
    BY <1>1, <1>10, <2>1 DEF SkipMigration, VerifyRecorded, RecordVersion, TableOf, database
  <2>3. recorded \subseteq recorded'
    BY DatabaseGrows
  <2>4. IndexesOf(version[q], plan[q]) # {} => version[q] \in recorded'
    BY <1>1, <1>10, <2>1, <2>3 DEF SkipMigration, VerifyRecorded, RecordVersion, Expected, TableOf
  <2>5. \A v \in Version : v < version[q] + 1 => v < version[q] \/ v = version[q]
    BY <2>1 DEF Version
  <2>6. \A v \in Version : v < version'[q] /\ IndexesOf(v, plan'[q]) # {} => v \in recorded'
    BY <1>1, <2>1, <2>3, <2>4, <2>5 DEF TableOf
  <2> QED BY <1>1, <2>1, <2>2, <2>6 DEF TableOf, Loop, InMigration, Inner
<1>11. ASSUME BeginMigration(q) \/ KeepReadyIndex(q) \/ ChooseCreate(q) \/ ChooseRepair(q)
              \/ DropIndex(q) \/ BeginBuild(q) \/ SkipBuild(q) \/ FinishBuild(q)
              \/ EndReconcile(q) \/ VerifyNew(q)
       PROVE  TableOf(q)'
  <2>1. /\ version' = version /\ plan' = plan /\ applied' = applied /\ recorded' = recorded
        /\ pc[q] \in Loop /\ pc'[q] \in InMigration
    BY <1>11 DEF BeginMigration, KeepReadyIndex, ChooseCreate, ChooseRepair, DropIndex, BeginBuild,
                 SkipBuild, FinishBuild, EndReconcile, VerifyNew, Goto, locals, database,
                 Loop, InMigration
  <2>2. Expected(q) # {} /\ Expected(q)' = Expected(q)
    <3>1. Expected(q) # {}
      BY <1>1, <1>11 DEF BeginMigration, KeepReadyIndex, ChooseCreate, ChooseRepair, DropIndex,
                 BeginBuild, SkipBuild, FinishBuild, EndReconcile, VerifyNew, TableOf, InMigration
    <3> QED BY <2>1, <3>1 DEF Expected
  <2>3. pc'[q] \in Inner => todo'[q] \subseteq Expected(q)
    <3>1. CASE BeginMigration(q)
      BY <3>1 DEF BeginMigration
    <3>2. CASE ~BeginMigration(q)
      <4>1. /\ todo'[q] \subseteq todo[q]
            /\ pc[q] \in Inner \/ pc'[q] \notin Inner
        BY <1>11, <3>2 DEF KeepReadyIndex, ChooseCreate, ChooseRepair, DropIndex, BeginBuild,
                 SkipBuild, FinishBuild, EndReconcile, VerifyNew, Goto, locals, database, Inner
      <4> QED BY <1>1, <4>1 DEF TableOf
    <3> QED BY <3>1, <3>2
  <2>5. pc'[q] = "recording" => version[q] \notin applied[q]
    BY <1>11 DEF BeginMigration, KeepReadyIndex, ChooseCreate, ChooseRepair, DropIndex, BeginBuild,
                 SkipBuild, FinishBuild, EndReconcile, VerifyNew, Goto
  <2>4. \A i, j \in current'[q] : i = j
    BY <1>1, <1>11 DEF BeginMigration, KeepReadyIndex, ChooseCreate, ChooseRepair, DropIndex,
                 BeginBuild, SkipBuild, FinishBuild, EndReconcile, VerifyNew, locals, TableOf
  <2>6. pc'[q] \in {"dropping", "creating", "building"} => current'[q] # {}
    <3>1. CASE ChooseCreate(q) \/ ChooseRepair(q)
      BY <3>1 DEF ChooseCreate, ChooseRepair
    <3>2. CASE DropIndex(q) \/ BeginBuild(q)
      BY <1>1, <3>2 DEF DropIndex, BeginBuild, locals, TableOf
    <3>3. CASE \/ BeginMigration(q) \/ KeepReadyIndex(q) \/ SkipBuild(q) \/ FinishBuild(q)
               \/ EndReconcile(q) \/ VerifyNew(q)
      BY <3>3 DEF BeginMigration, KeepReadyIndex, SkipBuild, FinishBuild, EndReconcile, VerifyNew, Goto
    <3> QED BY <1>11, <3>1, <3>2, <3>3
  <2> QED BY <1>1, <2>1, <2>2, <2>3, <2>4, <2>5, <2>6 DEF TableOf, InMigration, Loop
<1> QED BY <1>2, <1>3, <1>4, <1>5, <1>6, <1>7, <1>8, <1>9, <1>10, <1>11 DEF Next, Proceed, Disturb

(* What the table and the runs say of each other, in every reachable state. *)
THEOREM TableCorrect == Spec => []TableInv
<1>1. Init => TableInv
  BY DEF Init, TableInv, TableOf, Loop, InMigration, Inner
<1>2. IInv /\ TableInv /\ [Next]_vars => TableInv'
  BY TableStep DEF IInv, TableInv
<1> QED BY <1>1, <1>2, InstallerInvariant, PTL DEF Spec

(* What a reader sees of the other runs stays, when one makes a step. *)
LEMMA ReaderSeesOne ==
    ASSUME TypeOK, NEW p \in Installer,
           (\E m \in Mode : Start(p, m)) \/ AcquireLock(p) \/ Proceed(p) \/ Disturb(p)
    PROVE  /\ Phases' = [Phases EXCEPT ![p] = Phase(p)']
           /\ Surveyed' = [Surveyed EXCEPT ![p] = IF Phase(p)' = "working" THEN plan'[p] ELSE {}]
           /\ Told' = [Told EXCEPT ![p] = IF pc'[p] = "idle" THEN outcome'[p] ELSE "none"]
<1>1. \A q \in Installer \ {p} : /\ pc'[q] = pc[q] /\ plan'[q] = plan[q] /\ outcome'[q] = outcome[q]
                                /\ Phase(q)' = Phase(q)
  BY OthersStay DEF Phase
<1> HIDE DEF Phase
<1>2. Phases' = [Phases EXCEPT ![p] = Phase(p)']
  BY <1>1 DEF Phases
<1>3. Surveyed' = [Surveyed EXCEPT ![p] = IF Phase(p)' = "working" THEN plan'[p] ELSE {}]
  BY <1>1 DEF Surveyed
<1>4. Told' = [Told EXCEPT ![p] = IF pc'[p] = "idle" THEN outcome'[p] ELSE "none"]
  BY <1>1 DEF Told
<1> QED BY <1>2, <1>3, <1>4

(* A step within a phase is no step of the ledger. *)
LEMMA ReaderSeesNothing ==
    ASSUME TypeOK, NEW p \in Installer,
           (\E m \in Mode : Start(p, m)) \/ AcquireLock(p) \/ Proceed(p) \/ Disturb(p),
           pc[p] # "idle", pc'[p] # "idle", Phase(p)' = Phase(p), plan'[p] = plan[p]
    PROVE  UNCHANGED <<Phases, Surveyed, Told>>
<1>1. /\ Phases[p] = Phase(p) /\ Told[p] = "none"
      /\ Surveyed[p] = IF Phase(p) = "working" THEN plan[p] ELSE {}
  BY DEF Phases, Told, Surveyed
<1>2. /\ DOMAIN Phases = Installer /\ DOMAIN Told = Installer /\ DOMAIN Surveyed = Installer
  BY DEF Phases, Told, Surveyed
<1> HIDE DEF Phase, Phases, Told, Surveyed
<1>3. Phases' = Phases
  BY <1>1, <1>2, ReaderSeesOne DEF Phases
<1>4. Surveyed' = Surveyed
  BY <1>1, <1>2, ReaderSeesOne DEF Surveyed
<1>5. Told' = Told
  BY <1>1, <1>2, ReaderSeesOne DEF Told
<1> QED BY <1>3, <1>4, <1>5

(* Every step of the installer is a step of the ledger, or none. *)
LEMMA LedgerStep ==
    ASSUME IInv, TableInv, [Next]_vars
    PROVE  [Ledger!LedgerNext]_(Ledger!ledgerVars)
<1> DEFINE Same == UNCHANGED <<partitions, Ready, recorded, Phases, Surveyed, Told>>
           Goal == Ledger!LedgerNext \/ Same
<1> USE DEF IInv, TypeOK, DatabaseOK, LocalsOK
<1>1. ASSUME NEW p \in Installer, NEW m \in Mode, Start(p, m) PROVE Ledger!Ask(p)
  <2>1. /\ pc[p] = "idle" /\ pc'[p] = "locking"
        /\ partitions' = partitions /\ recorded' = recorded /\ idx' = idx
    BY <1>1 DEF Start, Goto, database
  <2>2. Phase(p) = "idle" /\ Phase(p)' = "waiting" /\ Phases[p] = Phase(p) /\ Surveyed[p] = {}
    BY <2>1 DEF Phase, Phases, Surveyed
  <2>3. /\ Phases' = [Phases EXCEPT ![p] = "waiting"] /\ Surveyed' = [Surveyed EXCEPT ![p] = {}]
        /\ Told' = [Told EXCEPT ![p] = "none"]
    BY <1>1, <2>1, <2>2, ReaderSeesOne
  <2>4. Surveyed' = Surveyed
    BY <2>2, <2>3 DEF Surveyed
  <2> QED BY <2>1, <2>2, <2>3, <2>4 DEF Ledger!Ask, Ready
<1>2. ASSUME NEW p \in Installer, AcquireLock(p) PROVE Ledger!Begin(p)
  <2>1. /\ pc[p] = "locking" /\ pc'[p] = "inspecting" /\ lock = NoInstaller
        /\ partitions' = partitions /\ recorded' = recorded /\ idx' = idx
    BY <1>2 DEF AcquireLock, Goto
  <2>2. Phase(p) = "waiting" /\ Phase(p)' = "surveying" /\ Phases[p] = Phase(p) /\ Surveyed[p] = {}
        /\ Told[p] = "none"
    BY <2>1 DEF Phase, Phases, Surveyed, Told
  <2>3. /\ Phases' = [Phases EXCEPT ![p] = "surveying"] /\ Surveyed' = [Surveyed EXCEPT ![p] = {}]
        /\ Told' = [Told EXCEPT ![p] = "none"]
    BY <1>2, <2>1, <2>2, ReaderSeesOne
  <2>4. Surveyed' = Surveyed /\ Told' = Told
    BY <2>2, <2>3 DEF Surveyed, Told
  <2>5. ASSUME NEW q \in Installer PROVE ~Ledger!Works(q)
    <3>1. pc[q] \in {"idle", "locking"}
      BY <2>1, InstallerAssumption DEF LockInv, Held
    <3>2. Phases[q] \in {"idle", "waiting"}
      BY <3>1 DEF Phases, Phase
    <3> QED BY <3>2 DEF Ledger!Works
  <2> QED BY <2>1, <2>2, <2>3, <2>4, <2>5 DEF Ledger!Begin, Ready
<1>3. ASSUME NEW p \in Installer, InspectAccepts(p) PROVE Ledger!Survey(p)
  <2>1. /\ pc[p] = "inspecting" /\ pc'[p] = "creatingTable" /\ plan'[p] = partitions
        /\ partitions' = partitions /\ recorded' = recorded /\ idx' = idx
    BY <1>3 DEF InspectAccepts, Goto, database
  <2>2. Phase(p) = "surveying" /\ Phase(p)' = "working" /\ Phases[p] = Phase(p) /\ Told[p] = "none"
    BY <2>1 DEF Phase, Phases, Told
  <2>3. /\ Phases' = [Phases EXCEPT ![p] = "working"]
        /\ Surveyed' = [Surveyed EXCEPT ![p] = partitions]
        /\ Told' = [Told EXCEPT ![p] = "none"]
    BY <1>3, <2>1, <2>2, ReaderSeesOne DEF Proceed
  <2>4. Told' = Told
    BY <2>2, <2>3 DEF Told
  <2> QED BY <2>1, <2>2, <2>3, <2>4 DEF Ledger!Survey, Ready
<1>4. ASSUME NEW p \in Installer,
             InspectRejects(p) \/ RejectIndex(p) \/ VerifyRejects(p) \/ StatementFails(p)
      PROVE  Ledger!GiveUp(p)
  <2>1. /\ pc[p] \notin {"idle", "locking", "unlocking"} /\ pc'[p] = "unlocking"
        /\ outcome'[p] = "failed"
        /\ partitions' = partitions /\ recorded' = recorded /\ idx' = idx
    BY <1>4 DEF InspectRejects, RejectIndex, VerifyRejects, StatementFails, LeaveLoop, Goto, database
  <2>2. Phase(p) \in {"surveying", "working"} /\ Phase(p)' = "failing" /\ Phases[p] = Phase(p)
        /\ Told[p] = "none"
    BY <2>1 DEF Phase, Phases, Told
  <2>3. /\ Phases' = [Phases EXCEPT ![p] = "failing"] /\ Surveyed' = [Surveyed EXCEPT ![p] = {}]
        /\ Told' = [Told EXCEPT ![p] = "none"]
    BY <1>4, <2>1, <2>2, ReaderSeesOne DEF Proceed, Disturb
  <2>4. Told' = Told
    BY <2>2, <2>3 DEF Told
  <2> QED BY <2>1, <2>2, <2>3, <2>4 DEF Ledger!GiveUp, Ready
<1>5. ASSUME NEW p \in Installer,
             \/ CreateMigrationTable(p) \/ ReadVersions(p) \/ SkipMigration(p) \/ BeginMigration(p)
             \/ FinishMigrations(p) \/ KeepReadyIndex(p) \/ ChooseCreate(p) \/ ChooseRepair(p)
             \/ DropIndex(p) \/ BeginBuild(p) \/ SkipBuild(p) \/ EndReconcile(p)
             \/ VerifyRecorded(p) \/ VerifyNew(p)
      PROVE  Same
  <2>0. pc \in [Installer -> Stage] /\ outcome \in [Installer -> Outcome] /\ TypeOK /\ SeenInv
    OBVIOUS
  <2> HIDE DEF IInv, TypeOK, DatabaseOK, LocalsOK
  <2>1. /\ pc[p] \in Loop \union {"creatingTable", "readingVersions"}
        /\ \/ pc'[p] \in Loop \union {"readingVersions"}
           \/ pc'[p] = "unlocking" /\ outcome'[p] = "ok"
        /\ plan' = plan /\ partitions' = partitions /\ recorded' = recorded
    <3>1. CASE FinishMigrations(p)
      BY <3>1, <2>0 DEF FinishMigrations, LeaveLoop, Goto, database, Loop
    <3>2. CASE CreateMigrationTable(p) \/ DropIndex(p) \/ BeginBuild(p) \/ EndReconcile(p)
      BY <3>2, <2>0 DEF CreateMigrationTable, DropIndex, BeginBuild, EndReconcile, Goto, database, locals,
                  Loop, InMigration
    <3>3. CASE ReadVersions(p) \/ SkipMigration(p) \/ BeginMigration(p) \/ KeepReadyIndex(p)
      BY <3>3, <2>0 DEF ReadVersions, SkipMigration, BeginMigration, KeepReadyIndex, Goto, database,
                  Loop, InMigration
    <3>4. CASE ChooseCreate(p) \/ ChooseRepair(p) \/ SkipBuild(p) \/ VerifyRecorded(p) \/ VerifyNew(p)
      BY <3>4, <2>0 DEF ChooseCreate, ChooseRepair, SkipBuild, VerifyRecorded, VerifyNew, Goto, database,
                  Loop, InMigration
    <3> QED BY <1>5, <3>1, <3>2, <3>3, <3>4
  <2>2. Phase(p) = "working" /\ Phase(p)' = "working"
    BY <2>1 DEF Phase, Loop, InMigration
  <2>3. UNCHANGED <<Phases, Surveyed, Told>>
    <3>1. Proceed(p)
      BY <1>5 DEF Proceed
    <3> QED BY <2>0, <2>1, <2>2, <3>1, ReaderSeesNothing DEF Loop, InMigration
  <2>4. \A i \in Index : idx[i] = "ready" <=> idx'[i] = "ready"
    <3>1. CASE DropIndex(p) \/ BeginBuild(p)
      BY <2>0, <3>1 DEF DropIndex, BeginBuild, SeenInv, Inner
    <3>2. CASE ~DropIndex(p) /\ ~BeginBuild(p)
      BY <1>5, <3>2 DEF CreateMigrationTable, ReadVersions, SkipMigration, BeginMigration,
                FinishMigrations, KeepReadyIndex, ChooseCreate, ChooseRepair, SkipBuild,
                EndReconcile, VerifyRecorded, VerifyNew, database
    <3> QED BY <3>1, <3>2
  <2> QED BY <2>1, <2>3, <2>4 DEF Ready
<1>6. ASSUME NEW p \in Installer, pc[p] = "building",
             idx' = [i \in Index |-> IF i \in current[p] /\ idx[i] = "invalid" THEN "ready" ELSE idx[i]]
      PROVE  Ready' = Ready \/ \E i \in Index : Ledger!MakeReady(p, i)
  <2>1. /\ Surveyed[p] = plan[p] /\ version[p] \in Version
        /\ current[p] \subseteq IndexesOf(version[p], plan[p]) /\ \A i, j \in current[p] : i = j
    BY <1>6 DEF Surveyed, Phase, TableInv, TableOf, SeenInv, Inner, InMigration, Expected
  <2>2. CASE \E i \in current[p] : idx[i] = "invalid"
    <3>1. PICK i \in current[p] : idx[i] = "invalid"
      BY <2>2
    <3>2. Ready' = Ready \union {i}
      BY <1>6, <2>1, <3>1 DEF Ready
    <3>3. i \in Index /\ \E v \in Version : i \in IndexesOf(v, Surveyed[p])
      BY <2>1, <3>1
    <3> QED BY <3>2, <3>3 DEF Ledger!MakeReady
  <2>3. CASE ~\E i \in current[p] : idx[i] = "invalid"
    BY <1>6, <2>3 DEF Ready
  <2> QED BY <2>2, <2>3
<1>7. ASSUME NEW p \in Installer, FinishBuild(p) PROVE Goal
  <2>1. /\ pc[p] = "building" /\ pc'[p] = "reconciling" /\ plan' = plan
        /\ partitions' = partitions /\ recorded' = recorded
    BY <1>7 DEF FinishBuild, Goto
  <2>2. Phase(p) = "working" /\ Phase(p)' = "working" /\ Phases[p] = "working"
    BY <2>1 DEF Phase, Phases
  <2>3. UNCHANGED <<Phases, Surveyed, Told>>
    BY <1>7, <2>1, <2>2, ReaderSeesNothing DEF Proceed
  <2>4. Ready' = Ready \/ \E i \in Index : Ledger!MakeReady(p, i)
    BY <1>6, <1>7, <2>1 DEF FinishBuild
  <2>5. ASSUME NEW i \in Index, Ledger!MakeReady(p, i) PROVE Ledger!Build(p, i)
    BY <2>1, <2>2, <2>3, <2>5 DEF Ledger!Build
  <2> QED BY <2>1, <2>3, <2>4, <2>5 DEF Ledger!LedgerNext
<1>8. ASSUME NEW p \in Installer, RecordVersion(p) PROVE \E v \in Version : Ledger!Record(p, v)
  <2>1. /\ pc[p] = "recording" /\ pc'[p] = "migrating" /\ plan' = plan /\ version[p] \in Version
        /\ recorded' = recorded \union {version[p]} /\ partitions' = partitions /\ idx' = idx
    BY <1>8 DEF RecordVersion, Goto, InMigration
  <2>2. /\ Phase(p) = "working" /\ Phase(p)' = "working" /\ Phases[p] = "working"
        /\ Surveyed[p] = plan[p]
    BY <2>1 DEF Phase, Phases, Surveyed
  <2>3. UNCHANGED <<Phases, Surveyed, Told>>
    BY <1>8, <2>1, <2>2, ReaderSeesNothing DEF Proceed
  <2>4. version[p] \notin recorded
    <3>1. applied[p] = recorded
      BY <2>1 DEF TableInv, TableOf, Loop, InMigration
    <3>2. version[p] \notin applied[p]
      BY <2>1 DEF TableInv, TableOf
    <3> QED BY <3>1, <3>2
  <2>5. IndexesOf(version[p], plan[p]) # {}
    BY <2>1 DEF TableInv, TableOf, InMigration, Expected
  <2>6. IndexesOf(version[p], plan[p]) \subseteq Ready
    BY <2>1, IndexesOfType DEF DoneInv, Complete, Expected, Ready
  <2>7. Ledger!Record(p, version[p])
    BY <2>1, <2>2, <2>3, <2>4, <2>5, <2>6 DEF Ledger!Record, Ready
  <2> QED BY <2>1, <2>7
<1>9. ASSUME NEW p \in Installer, NEW result \in Outcome, EndRun(p, result),
             partitions' = partitions, recorded' = recorded,
             Unlock(p) \/ LockFails(p) \/ Crash(p)
      PROVE  Ledger!Leave(p, result)
  <2>1. pc'[p] = "idle" /\ outcome'[p] = result
    BY <1>9 DEF EndRun, Goto
  <2>2. Phase(p)' = "idle"
    BY <2>1 DEF Phase
  <2>3. /\ Phases' = [Phases EXCEPT ![p] = "idle"] /\ Surveyed' = [Surveyed EXCEPT ![p] = {}]
        /\ Told' = [Told EXCEPT ![p] = result]
    BY <1>9, <2>1, <2>2, ReaderSeesOne DEF Proceed, Disturb
  <2> QED BY <1>9, <2>3 DEF Ledger!Leave
<1>10. ASSUME NEW p \in Installer, Unlock(p) PROVE Ledger!Succeed(p) \/ Ledger!Fail(p)
  <2>1. PICK result \in {outcome[p], "failed"} : EndRun(p, result)
    BY <1>10 DEF Unlock
  <2>2. pc[p] = "unlocking" /\ partitions' = partitions /\ recorded' = recorded /\ idx' = idx
    BY <1>10 DEF Unlock
  <2>3. result \in {"ok", "failed"} /\ result \in Outcome
    BY <2>1, <2>2 DEF TableInv, TableOf, Outcome
  <2>4. Ledger!Leave(p, result) /\ Ready' = Ready
    BY <1>9, <1>10, <2>1, <2>2, <2>3 DEF Ready
  <2>5. CASE result = "failed"
    <3>1. Phases[p] # "idle"
      BY <2>2 DEF Phases, Phase
    <3> QED BY <2>4, <2>5, <3>1 DEF Ledger!Fail
  <2>6. CASE result = "ok"
    <3>1. outcome[p] = "ok" /\ Phases[p] = "working" /\ Surveyed[p] = plan[p]
      BY <2>1, <2>2, <2>6 DEF Phases, Phase, Surveyed
    <3>2. \A v \in Version : IndexesOf(v, plan[p]) \subseteq Ready
      BY <2>2, <3>1, IndexesOfType DEF SuccessMeansReady, PlannedIndexes, Ready
    <3>3. \A v \in Version : IndexesOf(v, plan[p]) # {} => v \in recorded
      BY <2>2, <3>1 DEF TableInv, TableOf
    <3> QED BY <2>4, <2>6, <3>1, <3>2, <3>3 DEF Ledger!Succeed
  <2> QED BY <2>3, <2>5, <2>6
<1>11. ASSUME NEW p \in Installer, LockFails(p) PROVE Ledger!Fail(p)
  <2>1. /\ pc[p] = "locking" /\ EndRun(p, "failed")
        /\ partitions' = partitions /\ recorded' = recorded /\ idx' = idx
    BY <1>11 DEF LockFails, database
  <2>2. Ledger!Leave(p, "failed") /\ Phases[p] # "idle" /\ Ready' = Ready
    BY <1>9, <1>11, <2>1 DEF Phases, Phase, Ready, Outcome
  <2> QED BY <2>2 DEF Ledger!Fail
<1>12. ASSUME NEW p \in Installer, Crash(p) PROVE Ledger!Die(p)
  <2>1. /\ pc[p] # "idle" /\ EndRun(p, "crashed")
        /\ partitions' = partitions /\ recorded' = recorded
    BY <1>12 DEF Crash
  <2>2. Ledger!Leave(p, "crashed") /\ Phases[p] # "idle"
    BY <1>9, <1>12, <2>1 DEF Phases, Phase, Outcome
  <2>3. CASE idx' = idx
    BY <2>2, <2>3 DEF Ledger!Die, Ready
  <2>4. CASE idx' # idx
    <3>1. /\ pc[p] = "building"
          /\ idx' = [i \in Index |-> IF i \in current[p] /\ idx[i] = "invalid" THEN "ready" ELSE idx[i]]
      BY <1>12, <2>4 DEF Crash
    <3>2. Phases[p] = "working"
      BY <3>1 DEF Phases, Phase
    <3>3. Ready' = Ready \/ \E i \in Index : Ledger!MakeReady(p, i)
      BY <1>6, <3>1
    <3> QED BY <2>2, <3>2, <3>3 DEF Ledger!Die
  <2> QED BY <2>3, <2>4
<1>13. ASSUME Environment PROVE Goal
  <2>1. UNCHANGED <<recorded, Phases, Surveyed, Told>>
    BY <1>13 DEF Environment, AttachPartition, OperatorCreates, OperatorDrops, locals,
                 Phases, Phase, Surveyed, Told
  <2>2. \A i \in Index : idx[i] = "ready" <=> idx'[i] = "ready"
    BY <1>13 DEF Environment, AttachPartition, OperatorCreates, OperatorDrops
  <2>3. Ready' = Ready
    BY <2>2 DEF Ready
  <2>4. CASE \E r \in Partition : AttachPartition(r)
    BY <2>1, <2>3, <2>4 DEF AttachPartition, Ledger!Attach, Ledger!LedgerNext
  <2>5. CASE \E i \in OperatorIndexes \intersect Index : OperatorCreates(i) \/ OperatorDrops(i)
    <3>1. partitions' = partitions
      BY <2>5 DEF OperatorCreates, OperatorDrops, locals
    <3> QED BY <2>1, <2>3, <3>1
  <2> QED BY <1>13, <2>4, <2>5 DEF Environment
<1>14. ASSUME UNCHANGED vars PROVE Goal
  <2>1. UNCHANGED <<partitions, idx, recorded, pc, plan, outcome>>
    BY <1>14 DEF vars, database, locals
  <2>2. Ready' = Ready
    BY <2>1 DEF Ready
  <2>3. \A q \in Installer : Phase(q)' = Phase(q)
    BY <2>1 DEF Phase
  <2>4. Phases' = Phases
    BY <2>3 DEF Phases
  <2>5. Surveyed' = Surveyed
    BY <2>1, <2>3 DEF Surveyed
  <2>6. Told' = Told
    BY <2>1 DEF Told
  <2> QED BY <2>1, <2>2, <2>4, <2>5, <2>6
<1> HIDE DEF Goal, IInv, TypeOK, DatabaseOK, LocalsOK
<1>15. Goal
  <2>1. ASSUME NEW p \in Installer, \E m \in Mode : Start(p, m) PROVE Goal
    BY <1>1, <2>1 DEF Ledger!LedgerNext, Goal
  <2>2. ASSUME NEW p \in Installer, AcquireLock(p) PROVE Goal
    BY <1>2, <2>2 DEF Ledger!LedgerNext, Goal
  <2>3. ASSUME NEW p \in Installer, Proceed(p) PROVE Goal
    <3>1. CASE InspectAccepts(p)
      BY <1>3, <3>1 DEF Ledger!LedgerNext, Goal
    <3>2. CASE InspectRejects(p) \/ RejectIndex(p) \/ VerifyRejects(p)
      BY <1>4, <3>2 DEF Ledger!LedgerNext, Goal
    <3>3. CASE RecordVersion(p)
      BY <1>8, <3>3 DEF Ledger!LedgerNext, Goal
    <3>4. CASE Unlock(p)
      BY <1>10, <3>4 DEF Ledger!LedgerNext, Goal
    <3>5. CASE FinishBuild(p)
      BY <1>7, <3>5 DEF Goal
    <3>6. CASE Same
      BY <3>6 DEF Goal
    <3> HIDE DEF Same
    <3> QED BY <1>5, <3>5, <3>6, <2>3, <3>1, <3>2, <3>3, <3>4 DEF Proceed
  <2>4. ASSUME NEW p \in Installer, Disturb(p) PROVE Goal
    <3>1. CASE StatementFails(p)
      BY <1>4, <3>1 DEF Ledger!LedgerNext, Goal
    <3>2. CASE LockFails(p)
      BY <1>11, <3>2 DEF Ledger!LedgerNext, Goal
    <3>3. CASE Crash(p)
      BY <1>12, <3>3 DEF Ledger!LedgerNext, Goal
    <3> QED BY <2>4, <3>1, <3>2, <3>3 DEF Disturb
  <2> QED BY <1>13, <1>14, <2>1, <2>2, <2>3, <2>4 DEF Next
<1> QED BY <1>15 DEF Ledger!ledgerVars, Goal

(* The installer implements the ledger that its reader relies on: whatever
   fails, dies or interferes. *)
THEOREM LedgerIsImplemented == Spec => ImplementsMigrationLedger
<1>1. Init => Ledger!LedgerInit
  <2> SUFFICES ASSUME Init PROVE Ledger!LedgerInit
    OBVIOUS
  <2>1. Ready = {}
    BY DEF Init, Nothing, Ready
  <2>2. Phases = [p \in Installer |-> "idle"]
    BY DEF Init, Phases, Phase
  <2>3. Surveyed = [p \in Installer |-> {}] /\ Told = [p \in Installer |-> "none"]
    BY DEF Init, Surveyed, Phase, Told
  <2> QED BY <2>1, <2>2, <2>3 DEF Init, Ledger!LedgerInit
<1>2. IInv /\ TableInv /\ [Next]_vars => [Ledger!LedgerNext]_(Ledger!ledgerVars)
  BY LedgerStep
<1> QED BY <1>1, <1>2, InstallerInvariant, TableCorrect, PTL
        DEF Spec, ImplementsMigrationLedger, Ledger!LedgerSpec

(* A success that was told stands: its migrations stay recorded and indexed. *)
THEOREM SuccessLasts == Spec => []SuccessStands
<1>1. IInv /\ TableInv => SuccessStands
  BY DEF IInv, RecordedVersionsAreIndexed, TableInv, TableOf, SuccessStands
<1> QED BY <1>1, InstallerInvariant, TableCorrect, PTL

-----------------------------------------------------------------------------
(* Progress *)

(* Each step of a run between lock and unlock takes it further. *)
LEMMA ProceedMoves ==
    ASSUME TypeOK, SeenInv, NEW p \in Installer, TableOf(p), Proceed(p)
    PROVE  Further(p)
<1>0. /\ pc \in [Installer -> Stage] /\ todo \in [Installer -> SUBSET Index]
      /\ version \in [Installer -> 1..6] /\ version[p] \in Nat /\ version[p] < version[p] + 1
  BY DEF TypeOK, LocalsOK
<1>1. ASSUME InspectAccepts(p) \/ InspectRejects(p) \/ CreateMigrationTable(p) \/ ReadVersions(p)
             \/ FinishMigrations(p) \/ RejectIndex(p) \/ VerifyRejects(p) \/ Unlock(p)
      PROVE  Further(p)
  <2>1. Part(pc[p]) < Part(pc'[p])
    BY <1>0, <1>1 DEF InspectAccepts, InspectRejects, CreateMigrationTable, ReadVersions,
                FinishMigrations, RejectIndex, VerifyRejects, Unlock, LeaveLoop, EndRun, Goto, Part
  <2> QED BY <2>1 DEF Further
<1>2. ASSUME SkipMigration(p) \/ VerifyRecorded(p) \/ RecordVersion(p) PROVE Further(p)
  <2>1. {pc[p], pc'[p]} \subseteq Loop /\ version'[p] = version[p] + 1
    BY <1>0, <1>2 DEF SkipMigration, VerifyRecorded, RecordVersion, Goto, Loop, InMigration
  <2> QED BY <1>0, <2>1 DEF Further
<1>3. ASSUME BeginMigration(p) \/ EndReconcile(p) \/ VerifyNew(p) PROVE Further(p)
  <2>1. {pc[p], pc'[p]} \subseteq Loop /\ version' = version
    BY <1>0, <1>3 DEF BeginMigration, EndReconcile, VerifyNew, Goto, Loop, InMigration, locals
  <2>2. PartOfMigration(pc[p]) < PartOfMigration(pc'[p])
    BY <1>0, <1>3 DEF BeginMigration, EndReconcile, VerifyNew, Goto, PartOfMigration
  <2> QED BY <2>1, <2>2 DEF Further
<1>4. ASSUME KeepReadyIndex(p) \/ SkipBuild(p) \/ FinishBuild(p) PROVE Further(p)
  <2>1. {pc[p], pc'[p]} \subseteq Inner /\ version' = version
    BY <1>0, <1>4 DEF KeepReadyIndex, SkipBuild, FinishBuild, Goto, Inner
  <2>2. todo'[p] \subseteq todo[p] /\ todo'[p] # todo[p]
    <3>1. CASE KeepReadyIndex(p)
      <4>1. NextTodo(p) \in todo[p] /\ todo'[p] = todo[p] \ {NextTodo(p)}
        BY <1>0, <3>1 DEF KeepReadyIndex, NextTodo
      <4> QED BY <4>1
    <3>2. CASE SkipBuild(p) \/ FinishBuild(p)
      <4>1. todo'[p] = todo[p] \ current[p] /\ pc[p] \in {"creating", "building"}
        BY <1>0, <3>2 DEF SkipBuild, FinishBuild
      <4>2. current[p] # {} /\ current[p] \subseteq todo[p]
        BY <4>1 DEF TableOf, SeenInv
      <4> QED BY <4>1, <4>2
    <3> QED BY <1>4, <3>1, <3>2
  <2>3. Inner \subseteq Loop
    BY DEF Inner, Loop, InMigration
  <2> QED BY <2>1, <2>2, <2>3 DEF Further
<1>5. ASSUME ChooseCreate(p) \/ ChooseRepair(p) \/ DropIndex(p) \/ BeginBuild(p) PROVE Further(p)
  <2>1. {pc[p], pc'[p]} \subseteq Inner /\ version' = version /\ todo' = todo
    BY <1>0, <1>5 DEF ChooseCreate, ChooseRepair, DropIndex, BeginBuild, Goto, Inner, locals
  <2>2. Statement(pc[p]) < Statement(pc'[p])
    BY <1>0, <1>5 DEF ChooseCreate, ChooseRepair, DropIndex, BeginBuild, Goto, Statement
  <2>3. Inner \subseteq Loop
    BY DEF Inner, Loop, InMigration
  <2> QED BY <2>1, <2>2, <2>3 DEF Further
<1> QED BY <1>1, <1>2, <1>3, <1>4, <1>5 DEF Proceed

(* So does taking the lock, and what ends a run. *)
LEMMA EndMoves ==
    ASSUME TypeOK, NEW p \in Installer, AcquireLock(p) \/ Disturb(p)
    PROVE  Further(p)
<1>0. pc \in [Installer -> Stage] /\ pc[p] \in Stage
  BY DEF TypeOK, LocalsOK
<1>1. CASE AcquireLock(p)
  BY <1>0, <1>1 DEF AcquireLock, Goto, Further, Part
<1>2. CASE LockFails(p)
  BY <1>0, <1>2 DEF LockFails, EndRun, Goto, Further, Part
<1>3. CASE StatementFails(p)
  <2>1. Part(pc[p]) < 5 /\ pc'[p] = "unlocking"
    BY <1>0, <1>3 DEF StatementFails, LeaveLoop, Goto, Part
  <2> QED BY <2>1 DEF Further, Part
<1>4. CASE Crash(p)
  <2>1. Part(pc[p]) < 6 /\ pc'[p] = "idle"
    BY <1>0, <1>4 DEF Crash, EndRun, Goto, Part
  <2> QED BY <2>1 DEF Further, Part
<1> QED BY <1>1, <1>2, <1>3, <1>4 DEF Disturb

(* Every step takes the run that makes it further and moves no other: the part
   of RunTerminates that needs no fairness. *)
THEOREM InstallersMoveOn == Spec => RunsMoveOn
<1>1. ASSUME IInv, TableInv, [Next]_vars, NEW q \in Installer
      PROVE  \/ pc[q] = "idle" \/ Further(q)
             \/ UNCHANGED <<pc[q], version[q], todo[q]>> /\ ~Proceed(q)
  <2>0. TypeOK /\ SeenInv /\ TableOf(q)
    BY <1>1 DEF IInv, TableInv
  <2>1. CASE Proceed(q) \/ AcquireLock(q) \/ Disturb(q)
    BY <2>0, <2>1, ProceedMoves, EndMoves
  <2>2. CASE \E m \in Mode : Start(q, m)
    BY <2>2 DEF Start
  <2>3. ASSUME NEW p \in Installer, p # q,
               (\E m \in Mode : Start(p, m)) \/ AcquireLock(p) \/ Proceed(p) \/ Disturb(p)
        PROVE  UNCHANGED <<pc[q], version[q], todo[q]>>
    BY <2>0, <2>3, OthersStay
  <2>4. ASSUME Environment \/ UNCHANGED vars PROVE UNCHANGED <<pc[q], version[q], todo[q]>>
    BY <2>4 DEF Environment, AttachPartition, OperatorCreates, OperatorDrops, vars, locals
  <2> QED BY <1>1, <2>1, <2>2, <2>3, <2>4 DEF Next
<1>2. IInv /\ TableInv /\ [Next]_vars =>
        \A p \in Installer :
          \/ pc[p] = "idle"
          \/ Further(p)
          \/ UNCHANGED <<pc[p], version[p], todo[p]>> /\ ~Proceed(p)
  BY <1>1
<1> QED BY <1>2, InstallerInvariant, TableCorrect, PTL DEF Spec, RunsMoveOn
=============================================================================
