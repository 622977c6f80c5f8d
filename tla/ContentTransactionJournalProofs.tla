-------------------- MODULE ContentTransactionJournalProofs --------------------
(***************************************************************************)
(* Proofs about the durable records of ContentTransaction, for every plan, *)
(* every set of owner contents and every environment: the journal covers   *)
(* what the engine has made public, the commit evidence agrees with it, a  *)
(* rolled-back transaction leaves nothing behind, and the whole implements *)
(* ContentPublication.                                                     *)
(***************************************************************************)
EXTENDS ContentTransactionProofs

\* Nothing that the engine has made public is in the tree.
NothingPublic ==
  /\ \A i \in Targets : target[i] # "after"
  /\ \A d \in Dirs : dir[d] # "engine"

\* An attempt that is not sealed has recorded, published and moved nothing.
PreparingInv ==
  /\ prep # "sealed" =>
       /\ journal.applied = {} /\ journal.created = {} /\ journal.pending = NoPending
       /\ journal.state \in {"NONE", "PREPARED"}
       /\ ~receipt /\ ~manifest
  /\ prep = "none" => journal.state = "NONE"
  /\ prep = "sealed" => journal.state # "NONE"
  /\ pc = "stage" => journal.state = "NONE"
  /\ pc = "seal" => journal.state = "PREPARED"
  /\ pc \in PreparationSteps => cursor = 1
  /\ pc \notin {"idle"} \cup PreparationSteps =>
       prep = "sealed" /\ journal.state # "ROLLED_BACK"

MovingSteps == {"next", "moveDirectory", "recordDirectory", "moveLeaf", "recordLeaf"}
SettledSteps == {"base", "applying", "next", "receipt", "manifest"}

\* On the way to the commit the checkpoint is exactly as far as the index: what
\* lies before the cursor is applied, and every base is published.
ForwardInv ==
  /\ pc \in {"base", "applying"} =>
       /\ journal.state = "PREPARED"
       /\ journal.applied = {} /\ journal.created = {}
  /\ pc = "base" => \A i \in Targets : i < cursor => i \in bases
  /\ pc = "applying" => cursor = 1
  /\ pc \in {"applying", "receipt", "manifest"} \cup MovingSteps => bases = Targets
  /\ pc \in MovingSteps =>
       /\ journal.state = "APPLYING"
       /\ journal.applied = {i \in Targets : i < cursor}
  /\ pc \in SettledSteps => journal.pending = NoPending
  /\ pc \in {"moveDirectory", "recordDirectory"} => journal.pending.way = "forward"
  /\ pc \in {"moveLeaf", "recordLeaf"} => journal.pending = Pending("forward", "leaf", cursor)
  /\ pc \in {"receipt", "manifest"} =>
       journal.state = "VALIDATING" /\ journal.applied = Targets
  /\ pc = "manifest" => receipt

LeavesBack == {"emptyDirectories", "rmdir", "recordRmdir", "dropReceipt", "dropPending"}

\* A rollback reverses what is recorded and nothing else, and forgets each part
\* of the record only once nothing of it is left.
RollbackInv ==
  /\ pc \in {"withdraw", "emptyDirectories", "dropReceipt", "dropPending"} =>
       journal.pending = NoPending
  /\ journal.pending.way = "rollback" =>
       /\ journal.pending.what = "leaf" => journal.pending.at \in journal.applied
       /\ journal.pending.what = "directory" => journal.pending.at \in journal.created
  /\ pc \in LeavesBack => journal.applied = {}
  /\ pc \in {"dropReceipt", "dropPending"} => journal.created = {}
  /\ pc = "dropPending" => ~receipt
  /\ pc \in CleanupSteps \cup {"finish"} /\ ~committed =>
       /\ ~manifest /\ ~receipt /\ HalfPublished = {}
       /\ journal.applied = {} /\ journal.created = {} /\ journal.pending = NoPending

RecordsInv == PreparingInv /\ ForwardInv /\ RollbackInv

\* What the tree and the slots hold, as far as the records tell.
TreeInv ==
  /\ prep # "sealed" => NothingPublic
  /\ pc = "recordRmdir" => dir[journal.pending.at] # "engine"
  /\ pc \in ForwardSteps =>
       \A i \in Targets : i \in journal.applied => staged[i] = Original(i)
  /\ manifest => \A i \in Targets : staged[i] \in {"absent", Original(i)}

JInv ==
  /\ IInv /\ AfterCommit
  /\ RecordsInv /\ EvidenceAgrees
  /\ TreeInv /\ JournalCoversTree /\ RolledBackClean

\* The engine stops: the evidence and the inventories of the journal stay as
\* they are, and the journal is at most marked.
Halt ==
  /\ pc # "idle" /\ pc' = "idle"
  /\ UNCHANGED <<prep, bases, receipt, manifest>>
  /\ journal'.applied = journal.applied /\ journal'.created = journal.created
  /\ journal'.pending = journal.pending
  /\ \/ journal'.state = journal.state
     \/ journal'.state = "RECOVERY_REQUIRED" /\ pc \notin PreparationSteps
     \/ journal'.state = "ROLLBACK_INCOMPLETE" /\ pc \notin PreparationSteps /\ ~manifest
     \/ journal'.state = "COMMITTED" /\ manifest

\* Only the owner, or nobody, moves: no content or directory of the engine
\* appears in the tree.
Bystander ==
  /\ pc' = pc
  /\ UNCHANGED <<private, records, cursor, committed>>
  /\ \A i \in Targets : target'[i] = "after" => target[i] = "after"
  /\ \A d \in Dirs : dir'[d] = "engine" => dir[d] = "engine"

\* Where a rollback gives up.
LEMMA RollbackFailsHalts ==
  ASSUME RollbackFails, ~manifest, pc \notin {"idle"} \cup PreparationSteps
  PROVE  Halt
  BY DEF RollbackFails, PersistState, Persist, Stop, Halt

\* Where a recovery that has found commit evidence gives up.
LEMMA MarkHalts ==
  ASSUME MarkUnlessCommitted, pc \notin {"idle"} \cup PreparationSteps
  PROVE  Halt
  BY DEF MarkUnlessCommitted, PersistState, Persist, Stop, Halt, records

\* Every exception but those that start a rollback, every process exit and the
\* end of a commit only halt the engine.
LEMMA HaltingSteps ==
  ASSUME JInv,
         \/ PreparationRaises \/ ManifestUnreadable \/ CommitJournalRaises
         \/ CleanupRaises \/ RollbackRaises \/ RecoveryManifestUnreadable
         \/ FinishCommit \/ Crash
  PROVE  Halt /\ UNCHANGED <<tree, private>>
<1>1. ASSUME PreparationRaises PROVE Halt
  BY <1>1 DEF PreparationRaises, PreparationSteps, Stop, Halt, records
<1>2. ASSUME ManifestUnreadable PROVE Halt
  BY <1>2
  DEF ManifestUnreadable, ForwardSteps, PreparationSteps, PersistState, Persist, Stop, Halt
<1>3. ASSUME CommitJournalRaises PROVE Halt
  BY <1>3
  DEF CommitJournalRaises, PreparationSteps, PersistState, Persist, Stop, Halt, records
<1>4. ASSUME CleanupRaises PROVE Halt
  <2>1. ~committed => ~manifest
    BY <1>4 DEF CleanupRaises, JInv, RecordsInv, RollbackInv
  <2>2. pc \notin {"idle"} \cup PreparationSteps
    BY <1>4 DEF CleanupRaises, CleanupSteps, PreparationSteps
  <2>3. CASE ~committed
    BY <1>4, <2>1, <2>2, <2>3, RollbackFailsHalts DEF CleanupRaises
  <2>4. CASE committed
    BY <1>4, <2>2, <2>4 DEF CleanupRaises, PersistState, Persist, Stop, Halt, records
  <2>5. QED
    BY <2>3, <2>4
<1>5. ASSUME RollbackRaises PROVE Halt
  <2>1. pc \notin {"idle"} \cup PreparationSteps
    BY <1>5 DEF RollbackRaises, RollbackSteps, PreparationSteps
  <2>2. CASE RollbackFails /\ ~(pc = "finish" /\ committed)
    <3>1. pc \in RollbackSteps \/ (pc = "finish" /\ ~committed)
      BY <1>5, <2>2 DEF RollbackRaises
    <3>2. ~manifest
      BY <3>1
      DEF JInv, RecordsInv, RollbackInv, AfterCommit, RollbackSteps, CleanupSteps
    <3>3. QED
      BY <1>5, <2>1, <2>2, <3>2, RollbackFailsHalts DEF RollbackRaises
  <2>3. CASE UNCHANGED records
    BY <1>5, <2>1, <2>3 DEF RollbackRaises, RollbackFails, Stop, Halt, records
  <2>4. QED
    BY <1>5, <2>2, <2>3
    DEF RollbackRaises, RollbackSteps, Guarded, QuarantineSteps
<1>6. ASSUME RecoveryManifestUnreadable PROVE Halt
  BY <1>6, MarkHalts DEF RecoveryManifestUnreadable, PreparationSteps
<1>7. ASSUME FinishCommit PROVE Halt
  <2>1. pc = "finish" /\ pc' = "idle"
    BY <1>7 DEF FinishCommit, Stop
  <2>2. manifest
    BY <1>7 DEF FinishCommit, JInv, IInv, CommitInv
  <2>3. UNCHANGED records \/ PersistState("COMMITTED")
    BY <1>7 DEF FinishCommit
  <2>4. CASE UNCHANGED records
    BY <2>1, <2>4 DEF Halt, records
  <2>5. CASE PersistState("COMMITTED")
    BY <2>1, <2>2, <2>5 DEF PersistState, Persist, Halt
  <2>6. QED
    BY <2>3, <2>4, <2>5
<1>8. ASSUME Crash PROVE Halt
  BY <1>8 DEF Crash, Halt
<1>9. UNCHANGED <<tree, private>>
  BY DEF PreparationRaises, ManifestUnreadable, CommitJournalRaises, CleanupRaises,
         RollbackRaises, RecoveryManifestUnreadable, FinishCommit, Crash
<1>10. QED
  BY <1>1, <1>2, <1>3, <1>4, <1>5, <1>6, <1>7, <1>8, <1>9

\* Halting disturbs nothing that the records promise.
LEMMA HaltKeepsRecords ==
  ASSUME JInv, Halt
  PROVE  RecordsInv' /\ EvidenceAgrees' /\ journal'.state # "ROLLED_BACK"
<1> USE DEF JInv, Halt
<1>o. journal.state # "ROLLED_BACK" /\ journal'.state # "ROLLED_BACK"
  BY DEF RecordsInv, PreparingInv, PreparationSteps
<1>1. PreparingInv'
  BY <1>o DEF RecordsInv, PreparingInv, PreparationSteps
<1>2. ForwardInv'
  BY DEF ForwardInv, MovingSteps, SettledSteps
<1>3. RollbackInv'
  BY DEF RecordsInv, RollbackInv, LeavesBack, CleanupSteps
<1>4. EvidenceAgrees'
  BY <1>o DEF EvidenceAgrees
<1>5. QED
  BY <1>o, <1>1, <1>2, <1>3, <1>4 DEF RecordsInv

\* Nor, where the tree and the slots stay as they are, what they promise of it.
LEMMA HaltKeepsTree ==
  ASSUME JInv, Halt, UNCHANGED <<tree, private>>
  PROVE  TreeInv' /\ JournalCoversTree' /\ RolledBackClean'
<1> USE DEF JInv, Halt, tree, private
<1>o. journal.state # "ROLLED_BACK" /\ journal'.state # "ROLLED_BACK"
  BY HaltKeepsRecords DEF RecordsInv, PreparingInv, PreparationSteps
<1>1. TreeInv'
  BY DEF TreeInv, NothingPublic, ForwardSteps
<1>2. JournalCoversTree'
  BY <1>o DEF JournalCoversTree
<1>3. RolledBackClean'
  BY <1>o DEF RolledBackClean
<1>4. QED
  BY <1>1, <1>2, <1>3

\* The owner never puts the engine's objects into the tree.
LEMMA BystanderSteps ==
  ASSUME TypeOK, Owner \/ Quiesce \/ RefusePreparation \/ UNCHANGED vars
  PROVE  Bystander
<1>t. /\ target \in [Targets -> Content] /\ dir \in [Dirs -> {"absent", "engine", "owner"}]
      /\ "after" \notin UserVersions
  BY PlanAssumption DEF TypeOK, TreeOK
<1>1. ASSUME NEW i \in Targets, OwnerWrites(i) \/ OwnerDeletes(i) PROVE Bystander
  BY <1>1, <1>t DEF OwnerWrites, OwnerDeletes, engine, control, Bystander
<1>2. ASSUME NEW d \in Dirs, OwnerMakesDirectory(d) \/ OwnerAddsFile(d) PROVE Bystander
  BY <1>2, <1>t DEF OwnerMakesDirectory, OwnerAddsFile, engine, control, Bystander
<1>3. ASSUME NEW d \in Dirs, OwnerRemovesTree(d) PROVE Bystander
  BY <1>3, <1>t DEF OwnerRemovesTree, engine, control, Bystander
<1>4. CASE Owner
  BY <1>1, <1>2, <1>3, <1>4 DEF Owner
<1>5. CASE Quiesce \/ RefusePreparation \/ UNCHANGED vars
  BY <1>5 DEF Quiesce, RefusePreparation, vars, tree, control, Bystander
<1>6. QED
  BY <1>4, <1>5

\* What the owner does disturbs nothing that the records or the tree promise.
LEMMA BystanderKeeps ==
  ASSUME JInv, Bystander
  PROVE  RecordsInv' /\ EvidenceAgrees' /\ TreeInv' /\ JournalCoversTree' /\ RolledBackClean'
<1> USE DEF JInv, Bystander, records, private
<1>1. PreparingInv' /\ ForwardInv' /\ RollbackInv'
  BY DEF RecordsInv, PreparingInv, ForwardInv, RollbackInv, HalfPublished
<1>2. EvidenceAgrees'
  BY DEF EvidenceAgrees
<1>3. TreeInv'
  BY JournalParts, PendingTyped DEF TreeInv, NothingPublic, IInv, TypeOK, ControlInv
<1>4. JournalCoversTree'
  BY DEF JournalCoversTree
<1>5. RolledBackClean'
  BY DEF RolledBackClean
<1>6. QED
  BY <1>1, <1>2, <1>3, <1>4, <1>5 DEF RecordsInv
\* Before the commit point, what the call may assume of its records.
LEMMA BeforeCommit ==
  ASSUME JInv, pc \in ForwardSteps \cup RollbackSteps
  PROVE  /\ prep = "sealed" /\ ~manifest
         /\ journal.state \notin {"NONE", "COMMITTED", "ROLLED_BACK"}
<1>1. pc \notin {"idle"} \cup PreparationSteps
  BY DEF ForwardSteps, RollbackSteps, PreparationSteps
<1>2. ~manifest
  BY DEF JInv, AfterCommit, ForwardSteps, RollbackSteps, CleanupSteps
<1>3. QED
  BY <1>1, <1>2 DEF JInv, RecordsInv, PreparingInv, EvidenceAgrees

\* A step before the commit point that ends no attempt cannot make the evidence
\* and the journal disagree.
LEMMA StillOpen ==
  ASSUME JInv, pc \in ForwardSteps \cup RollbackSteps,
         pc' \notin {"idle"} \cup PreparationSteps, prep' = prep, manifest' = manifest,
         journal'.state \notin {"NONE", "COMMITTED", "ROLLED_BACK"}
  PROVE  PreparingInv' /\ EvidenceAgrees'
<1>1. prep' = "sealed" /\ ~manifest'
  BY BeforeCommit
<1>2. PreparingInv'
  BY <1>1 DEF PreparingInv, PreparationSteps
<1>3. EvidenceAgrees'
  BY <1>1 DEF EvidenceAgrees
<1>4. QED
  BY <1>2, <1>3

\* A preparation starts with empty records and seals a PREPARED journal.
LEMMA PreparationRecords ==
  ASSUME JInv, BeginApply \/ StageContents \/ SealPreparation
  PROVE  RecordsInv' /\ EvidenceAgrees'
<1>r. ASSUME journal'.pending = NoPending, pc' \in {"stage", "seal", "base"}
      PROVE  RollbackInv'
  BY <1>r DEF RollbackInv, NoPending, LeavesBack, CleanupSteps
<1>1. CASE BeginApply
  <2>1. ~receipt /\ ~manifest
    BY <1>1 DEF BeginApply, MayBegin, JInv, RecordsInv, PreparingInv
  <2>2. PreparingInv'
    BY <1>1, <2>1 DEF BeginApply, EmptyJournal, PreparingInv, PreparationSteps
  <2>3. ForwardInv'
    BY <1>1 DEF BeginApply, ForwardInv, MovingSteps, SettledSteps
  <2>4. RollbackInv'
    BY <1>1, <1>r DEF BeginApply, EmptyJournal
  <2>5. ~manifest' /\ journal'.state = "NONE"
    BY <1>1, <2>1 DEF BeginApply, EmptyJournal
  <2>6. EvidenceAgrees'
    BY <2>5 DEF EvidenceAgrees
  <2>7. QED
    BY <2>2, <2>3, <2>4, <2>6 DEF RecordsInv
<1>2. CASE StageContents
  <2>1. prep = "preparing" /\ ~receipt /\ ~manifest /\ cursor = 1
    BY <1>2
    DEF StageContents, JInv, IInv, SlotInv, RecordsInv, PreparingInv, PreparationSteps
  <2>2. /\ prep' = prep /\ receipt' = receipt /\ manifest' = manifest /\ pc' = "seal"
        /\ cursor' = cursor
        /\ journal' = [state |-> "PREPARED", applied |-> {}, created |-> {},
                       pending |-> NoPending]
    BY <1>2 DEF StageContents, Goto, EmptyJournal
  <2>3. PreparingInv'
    BY <2>1, <2>2 DEF PreparingInv, PreparationSteps
  <2>4. ForwardInv'
    BY <2>2 DEF ForwardInv, MovingSteps, SettledSteps
  <2>5. RollbackInv'
    BY <2>2, <1>r
  <2>6. EvidenceAgrees'
    BY <2>1, <2>2 DEF EvidenceAgrees
  <2>7. QED
    BY <2>3, <2>4, <2>5, <2>6 DEF RecordsInv
<1>3. CASE SealPreparation
  <2>1. /\ prep = "preparing" /\ journal.state = "PREPARED"
        /\ journal.applied = {} /\ journal.created = {} /\ journal.pending = NoPending
        /\ ~manifest /\ cursor \in Targets
    BY <1>3
    DEF SealPreparation, JInv, IInv, SlotInv, ControlInv, RecordsInv, PreparingInv,
        PreparationSteps
  <2>2. pc' = "base" /\ prep' = "sealed" /\ UNCHANGED <<journal, manifest, cursor>>
    BY <1>3 DEF SealPreparation, Goto
  <2>3. cursor = 1
    BY <1>3 DEF SealPreparation, JInv, RecordsInv, PreparingInv, PreparationSteps
  <2>4. PreparingInv'
    BY <2>1, <2>2 DEF PreparingInv, PreparationSteps
  <2>5. ForwardInv'
    BY <2>1, <2>2, <2>3 DEF ForwardInv, MovingSteps, SettledSteps, Targets
  <2>6. RollbackInv'
    BY <2>1, <2>2, <1>r
  <2>7. EvidenceAgrees'
    BY <2>1, <2>2 DEF EvidenceAgrees
  <2>8. QED
    BY <2>4, <2>5, <2>6, <2>7 DEF RecordsInv
<1>4. QED
  BY <1>1, <1>2, <1>3

\* On the way forward the checkpoint keeps pace with the index.
LEMMA ForwardRecords ==
  ASSUME JInv,
         \/ PublishBase \/ StartApplying \/ IntendDirectory \/ MoveDirectory
         \/ RecordDirectory \/ IntendLeaf \/ MoveLeaf \/ RecordLeaf
         \/ StartValidating \/ PublishReceipt \/ ApplyRaises
  PROVE  RecordsInv' /\ EvidenceAgrees'
<1> DEFINE Onward == ForwardSteps \cup {"rollback"}
<1>j. ForwardInv /\ cursor \in 0..(N + 1)
  BY DEF JInv, RecordsInv, IInv, TypeOK, ControlOK
\* The records of a step that goes on, once ForwardInv holds of it.
<1>o. ASSUME pc \in ForwardSteps, pc' \in Onward, prep' = prep, manifest' = manifest,
             journal'.state \notin {"NONE", "COMMITTED", "ROLLED_BACK"},
             journal'.pending.way # "rollback", ForwardInv'
      PROVE  RecordsInv' /\ EvidenceAgrees'
  <2>1. PreparingInv' /\ EvidenceAgrees'
    BY <1>o, StillOpen DEF ForwardSteps, PreparationSteps
  <2>2. RollbackInv'
    BY <1>o DEF RollbackInv, ForwardSteps, LeavesBack, CleanupSteps
  <2>3. QED
    BY <1>o, <2>1, <2>2 DEF RecordsInv
\* No rollback is pending.
<1>w. pc \in ForwardSteps => /\ journal.pending.way # "rollback"
                             /\ journal.state \notin {"NONE", "COMMITTED", "ROLLED_BACK"}
  BY <1>j, BeforeCommit
  DEF ForwardInv, ForwardSteps, MovingSteps, SettledSteps, NoPending, Pending
<1>n. NoPending.way # "rollback"
  BY DEF NoPending
<1>1. CASE PublishBase
  <2>1. pc = "base" /\ pc' \in {"base", "applying"}
        /\ bases' = bases \cup {cursor} /\ UNCHANGED <<prep, journal, manifest>>
    BY <1>1 DEF PublishBase
  <2>2. cursor \in Targets
    BY <1>1 DEF PublishBase, JInv, IInv, ControlInv
  <2>3. CASE cursor < N
    <3>1. pc' = "base" /\ cursor' = cursor + 1
      BY <1>1, <2>3 DEF PublishBase
    <3>2. \A i \in Targets : i < cursor' => i \in bases'
      BY <1>j, <2>1, <2>2, <3>1 DEF ForwardInv, Targets
    <3>3. ForwardInv'
      BY <1>j, <2>1, <3>1, <3>2 DEF ForwardInv, MovingSteps, SettledSteps
    <3>4. QED
      BY <1>o, <1>w, <2>1, <3>3 DEF ForwardSteps
  <2>4. CASE ~(cursor < N)
    <3>1. pc' = "applying" /\ cursor' = 1
      BY <1>1, <2>4 DEF PublishBase
    <3>2. bases' = Targets
      <4>1. bases \subseteq Targets
        BY DEF JInv, IInv, TypeOK, RecordsOK
      <4>2. \A i \in Targets : i < cursor \/ i = cursor
        BY <2>2, <2>4, PlanAssumption DEF Targets
      <4>3. QED
        BY <1>j, <2>1, <2>2, <4>1, <4>2 DEF ForwardInv
    <3>3. ForwardInv'
      BY <1>j, <2>1, <3>1, <3>2 DEF ForwardInv, MovingSteps, SettledSteps
    <3>4. QED
      BY <1>o, <1>w, <2>1, <3>3 DEF ForwardSteps
  <2>5. QED
    BY <2>3, <2>4
<1>2. CASE StartApplying
  <2>1. pc = "applying" /\ pc' = "next" /\ cursor' = cursor /\ bases' = bases
        /\ prep' = prep /\ manifest' = manifest
        /\ journal' = [state |-> "APPLYING", applied |-> journal.applied,
                       created |-> journal.created, pending |-> journal.pending]
    BY <1>2 DEF StartApplying, PersistState, Persist, Goto
  <2>2. {i \in Targets : i < cursor} = {}
    BY <1>j, <2>1 DEF ForwardInv, Targets
  <2>3. ForwardInv'
    BY <1>j, <2>1, <2>2 DEF ForwardInv, MovingSteps, SettledSteps
  <2>4. QED
    BY <1>o, <1>w, <2>1, <2>3 DEF ForwardSteps
<1>3. CASE IntendDirectory
  <2>1. PICK d \in Dirs : PersistPending(Pending("forward", "directory", d))
    BY <1>3 DEF IntendDirectory
  <2>2. pc = "next" /\ pc' = "moveDirectory" /\ UNCHANGED <<cursor, bases, prep, manifest>>
        /\ journal'.state = journal.state /\ journal'.applied = journal.applied
        /\ journal'.pending.way = "forward"
    BY <1>3, <2>1 DEF IntendDirectory, PersistPending, Persist, Pending, Goto
  <2>3. ForwardInv'
    BY <1>j, <2>2 DEF ForwardInv, MovingSteps, SettledSteps
  <2>4. QED
    BY <1>o, <1>w, <2>2, <2>3 DEF ForwardSteps
<1>4. CASE MoveDirectory \/ MoveLeaf
  <2>1. UNCHANGED <<cursor, records>>
        /\ \/ pc = "moveDirectory" /\ pc' = "recordDirectory"
           \/ pc = "moveLeaf" /\ pc' = "recordLeaf"
    BY <1>4 DEF MoveDirectory, MoveLeaf, Goto
  <2>2. ForwardInv'
    BY <1>j, <2>1 DEF ForwardInv, MovingSteps, SettledSteps, records
  <2>3. QED
    BY <1>o, <1>w, <2>1, <2>2 DEF ForwardSteps, records
<1>5. CASE RecordDirectory
  <2>1. pc = "recordDirectory" /\ pc' = "next" /\ UNCHANGED <<cursor, bases, prep, manifest>>
        /\ journal'.state = "APPLYING" /\ journal'.applied = journal.applied
        /\ journal'.pending = NoPending
    BY <1>5 DEF RecordDirectory, Persist, Goto
  <2>2. ForwardInv'
    BY <1>j, <2>1 DEF ForwardInv, MovingSteps, SettledSteps
  <2>3. QED
    BY <1>o, <1>n, <2>1, <2>2 DEF ForwardSteps
<1>6. CASE IntendLeaf
  <2>1. pc = "next" /\ pc' = "moveLeaf" /\ UNCHANGED <<cursor, bases, prep, manifest>>
        /\ journal'.state = journal.state /\ journal'.applied = journal.applied
        /\ journal'.pending = Pending("forward", "leaf", cursor)
    BY <1>6 DEF IntendLeaf, PersistPending, Persist, Goto
  <2>2. ForwardInv'
    BY <1>j, <2>1 DEF ForwardInv, MovingSteps, SettledSteps
  <2>3. QED
    BY <1>o, <1>w, <2>1, <2>2 DEF ForwardSteps, Pending
<1>7. CASE RecordLeaf
  <2>1. pc = "recordLeaf" /\ pc' = "next" /\ cursor' = cursor + 1
        /\ UNCHANGED <<bases, prep, manifest>>
        /\ journal'.state = "APPLYING" /\ journal'.applied = journal.applied \cup {cursor}
        /\ journal'.pending = NoPending
    BY <1>7 DEF RecordLeaf, Persist
  <2>2. journal.applied = {i \in Targets : i < cursor} /\ bases = Targets
    BY <1>j, <2>1 DEF ForwardInv, MovingSteps
  <2>3. cursor \in Targets
    BY <2>1 DEF JInv, IInv, ControlInv
  <2>4. journal'.applied = {i \in Targets : i < cursor'}
    BY <2>1, <2>2, <2>3 DEF Targets
  <2>5. ForwardInv'
    BY <2>1, <2>2, <2>4 DEF ForwardInv, MovingSteps, SettledSteps
  <2>6. QED
    BY <1>o, <1>n, <2>1, <2>5 DEF ForwardSteps
<1>8. CASE StartValidating
  <2>1. pc = "next" /\ cursor > N /\ pc' = "receipt" /\ UNCHANGED <<bases, prep, manifest>>
        /\ journal'.state = "VALIDATING" /\ journal'.applied = journal.applied
        /\ journal'.pending = journal.pending
    BY <1>8 DEF StartValidating, PersistState, Persist, Goto
  <2>2. journal.applied = {i \in Targets : i < cursor} /\ bases = Targets
        /\ journal.pending = NoPending
    BY <1>j, <2>1 DEF ForwardInv, MovingSteps, SettledSteps
  <2>3. journal.applied = Targets
    BY <1>j, <2>1, <2>2, PlanAssumption DEF Targets
  <2>4. ForwardInv'
    BY <2>1, <2>2, <2>3 DEF ForwardInv, MovingSteps, SettledSteps
  <2>5. QED
    BY <1>o, <1>n, <2>1, <2>2, <2>4 DEF ForwardSteps
<1>9. CASE PublishReceipt
  <2>1. pc = "receipt" /\ pc' = "manifest" /\ receipt'
        /\ UNCHANGED <<journal, bases, prep, manifest>>
    BY <1>9 DEF PublishReceipt, Goto
  <2>2. ForwardInv'
    BY <1>j, <2>1 DEF ForwardInv, MovingSteps, SettledSteps
  <2>3. QED
    BY <1>o, <1>w, <2>1, <2>2 DEF ForwardSteps
<1>10. CASE ApplyRaises
  <2>1. pc \in ForwardSteps /\ pc' = "rollback" /\ UNCHANGED <<journal, prep, manifest>>
    BY <1>10 DEF ApplyRaises, Goto
  <2>2. ForwardInv'
    BY <2>1 DEF ForwardInv, MovingSteps, SettledSteps
  <2>3. QED
    BY <1>o, <1>w, <2>1, <2>2
<1>11. QED
  BY <1>1, <1>2, <1>3, <1>4, <1>5, <1>6, <1>7, <1>8, <1>9, <1>10

\* The manifest record completes what the journal has already recorded.
LEMMA CommitRecords ==
  ASSUME JInv, PublishManifest \/ CommitJournal
  PROVE  RecordsInv' /\ EvidenceAgrees'
<1>1. CASE PublishManifest
  <2>1. /\ receipt /\ bases = Targets /\ prep = "sealed"
        /\ journal.state = "VALIDATING" /\ journal.applied = Targets
        /\ journal.pending = NoPending
    BY <1>1, BeforeCommit
    DEF PublishManifest, JInv, RecordsInv, ForwardInv, ForwardSteps, SettledSteps
  <2>2. manifest' /\ pc' = "commitJournal" /\ UNCHANGED <<prep, journal, bases, receipt>>
    BY <1>1 DEF PublishManifest, Goto
  <2>3. PreparingInv'
    BY <2>1, <2>2 DEF PreparingInv, PreparationSteps
  <2>4. ForwardInv' /\ RollbackInv'
    BY <2>1, <2>2
    DEF ForwardInv, MovingSteps, SettledSteps, RollbackInv, LeavesBack, CleanupSteps,
        NoPending
  <2>5. EvidenceAgrees'
    BY <2>1, <2>2 DEF EvidenceAgrees
  <2>6. QED
    BY <2>3, <2>4, <2>5 DEF RecordsInv
<1>2. CASE CommitJournal
  <2>1. manifest /\ prep = "sealed"
    BY <1>2
    DEF CommitJournal, JInv, IInv, CommitInv, RecordsInv, PreparingInv, PreparationSteps
  <2>2. receipt /\ bases = Targets /\ journal.applied = Targets /\ journal.pending = NoPending
    BY <2>1 DEF JInv, EvidenceAgrees
  <2>3. /\ pc' = "leaves" /\ committed' /\ UNCHANGED <<prep, bases, receipt, manifest>>
        /\ journal'.state = "COMMITTED" /\ journal'.applied = journal.applied
        /\ journal'.pending = journal.pending
    BY <1>2 DEF CommitJournal, PersistState, Persist
  <2>4. PreparingInv'
    BY <2>1, <2>3 DEF PreparingInv, PreparationSteps
  <2>5. ForwardInv' /\ RollbackInv'
    BY <2>2, <2>3
    DEF ForwardInv, MovingSteps, SettledSteps, RollbackInv, LeavesBack, CleanupSteps,
        NoPending
  <2>6. EvidenceAgrees'
    BY <2>1, <2>2, <2>3 DEF EvidenceAgrees
  <2>7. QED
    BY <2>4, <2>5, <2>6 DEF RecordsInv
<1>3. QED
  BY <1>1, <1>2

\* The steps that move a rollback on.
RollbackMoves ==
  \/ StartRollback \/ ReconcileForward \/ ReconcileRollback
  \/ WithdrawLeaf \/ LeavesWithdrawn \/ ExchangeBack
  \/ Quarantine \/ QuarantineMove \/ QuarantineVerify \/ RecordBack
  \/ RemoveDirectory \/ Rmdir \/ RecordRmdir \/ DirectoriesRemoved
  \/ DropReceipt \/ DropPending

\* They start at a rollback step and leave preparation and manifest alone.
LEMMA RollbackMoveFrom ==
  ASSUME RollbackMoves
  PROVE  pc \in RollbackSteps /\ prep' = prep /\ manifest' = manifest
<1>f. RollbackFails => prep' = prep /\ manifest' = manifest
  BY DEF RollbackFails, PersistState, Persist
<1>1. CASE StartRollback \/ ReconcileForward \/ ReconcileRollback
             \/ WithdrawLeaf \/ LeavesWithdrawn \/ ExchangeBack
  BY <1>1, <1>f
  DEF StartRollback, ReconcileForward, ReconcileRollback, Reconciled, WithdrawLeaf,
      LeavesWithdrawn, ExchangeBack, RollbackSteps, PersistState, PersistPending, Persist,
      records
<1>2. CASE Quarantine \/ QuarantineMove \/ QuarantineVerify \/ RecordBack
  BY <1>2, <1>f
  DEF Quarantine, QuarantineMove, QuarantineVerify, RecordBack, RollbackSteps, Persist,
      records
<1>3. CASE RemoveDirectory \/ Rmdir \/ RecordRmdir \/ DirectoriesRemoved
             \/ DropReceipt \/ DropPending
  BY <1>3, <1>f
  DEF RemoveDirectory, Rmdir, RecordRmdir, DirectoriesRemoved, DropReceipt, DropPending,
      RollbackSteps, PersistPending, Persist, records
<1>4. QED
  BY <1>1, <1>2, <1>3 DEF RollbackMoves

\* A rollback reverses exactly what is recorded, one part after the other.
LEMMA RollbackRecords ==
  ASSUME JInv, RollbackMoves, ~RollbackFails
  PROVE  RecordsInv' /\ EvidenceAgrees'
<1>a. /\ pc \in RollbackSteps /\ prep' = prep /\ manifest' = manifest
      /\ journal.state \notin {"NONE", "COMMITTED", "ROLLED_BACK"}
  BY RollbackMoveFrom, BeforeCommit
<1>j. RollbackInv
  BY DEF JInv, RecordsInv
<1>t. journal.pending \in PendingActions /\ journal.pending.what \in {"none", "leaf", "directory"}
  BY JournalParts, PendingTyped DEF JInv, IInv, TypeOK, NoPending
\* The records of a rollback that goes on, once RollbackInv holds of it.
<1>o. ASSUME pc' \in RollbackSteps, RollbackInv',
             journal'.state \notin {"NONE", "COMMITTED", "ROLLED_BACK"}
      PROVE  RecordsInv' /\ EvidenceAgrees'
  <2>1. PreparingInv' /\ EvidenceAgrees'
    BY <1>a, <1>o, StillOpen DEF RollbackSteps, PreparationSteps
  <2>2. ForwardInv'
    BY <1>o DEF ForwardInv, RollbackSteps, MovingSteps, SettledSteps
  <2>3. QED
    BY <1>o, <2>1, <2>2 DEF RecordsInv
\* A checkpoint without a pending action on the way to the leaves.
<1>w. ASSUME NEW a, NEW c, Persist("ROLLING_BACK", a, c, NoPending), pc' = "withdraw"
      PROVE  RecordsInv' /\ EvidenceAgrees'
  <2>1. RollbackInv' /\ journal'.state = "ROLLING_BACK"
    BY <1>w DEF Persist, RollbackInv, NoPending, LeavesBack, CleanupSteps
  <2>2. QED
    BY <1>o, <1>w, <2>1 DEF RollbackSteps
\* A step between two points that RollbackInv does not speak of.
<1>q. ASSUME UNCHANGED records, pc' \in {"recordBack", "reconcile"} \cup QuarantineSteps
      PROVE  RecordsInv' /\ EvidenceAgrees'
  <2>1. RollbackInv'
    BY <1>j, <1>q DEF records, RollbackInv, LeavesBack, CleanupSteps, QuarantineSteps
  <2>2. QED
    BY <1>a, <1>o, <1>q, <2>1 DEF RollbackSteps, QuarantineSteps, records
<1>1. CASE StartRollback
  <2>1. /\ pc' = IF journal.pending = NoPending THEN "withdraw" ELSE "reconcile"
        /\ journal'.state = "ROLLING_BACK" /\ journal'.applied = journal.applied
        /\ journal'.created = journal.created /\ journal'.pending = journal.pending
    BY <1>1 DEF StartRollback, PersistState, Persist, Goto
  <2>2. pc' \in {"withdraw", "reconcile"} /\ (pc' = "withdraw" => journal.pending = NoPending)
    BY <2>1
  <2>3. RollbackInv'
    BY <1>j, <2>1, <2>2 DEF RollbackInv, LeavesBack, CleanupSteps
  <2>4. QED
    BY <1>o, <2>1, <2>2, <2>3 DEF RollbackSteps
<1>2. CASE ReconcileForward
  <2>1. ASSUME NEW a, NEW c, Reconciled(a, c) PROVE RecordsInv' /\ EvidenceAgrees'
    BY <1>w, <2>1 DEF Reconciled, Goto
  <2>2. QED
    BY <1>2, <2>1 DEF ReconcileForward
<1>3. CASE ReconcileRollback
  <2>1. ASSUME NEW a, NEW c, Reconciled(a, c) PROVE RecordsInv' /\ EvidenceAgrees'
    BY <1>w, <2>1 DEF Reconciled, Goto
  <2>2. ASSUME Goto("quarantine"), UNCHANGED records PROVE RecordsInv' /\ EvidenceAgrees'
    BY <1>q, <2>2 DEF Goto, QuarantineSteps
  <2>3. QED
    BY <1>3, <2>1, <2>2 DEF ReconcileRollback
<1>4. CASE WithdrawLeaf
  <2>1. PICK i \in journal.applied : PersistPending(Pending("rollback", "leaf", i))
    BY <1>4 DEF WithdrawLeaf
  <2>2. pc' \in {"quarantine", "exchangeBack"} /\ i \in journal'.applied
        /\ journal'.state = journal.state /\ journal'.pending = Pending("rollback", "leaf", i)
    BY <1>4, <2>1 DEF WithdrawLeaf, PersistPending, Persist, Goto
  <2>3. RollbackInv'
    BY <2>2 DEF RollbackInv, Pending, LeavesBack, CleanupSteps
  <2>4. QED
    BY <1>a, <1>o, <2>2, <2>3 DEF RollbackSteps
<1>5. CASE LeavesWithdrawn
  <2>1. pc = "withdraw" /\ pc' = "emptyDirectories" /\ journal.applied = {}
        /\ journal' = journal
    BY <1>5 DEF LeavesWithdrawn, Goto, records
  <2>2. RollbackInv'
    BY <1>j, <2>1 DEF RollbackInv, LeavesBack, CleanupSteps
  <2>3. QED
    BY <1>a, <1>o, <2>1, <2>2 DEF RollbackSteps
<1>6. CASE ExchangeBack \/ Quarantine \/ QuarantineMove \/ QuarantineVerify
  <2>1. UNCHANGED records /\ pc' \in {"recordBack"} \cup QuarantineSteps
    BY <1>6
    DEF ExchangeBack, Quarantine, QuarantineMove, QuarantineVerify, Goto, QuarantineSteps,
        records
  <2>2. QED
    BY <1>q, <2>1
<1>7. CASE RecordBack
  BY <1>7, <1>w DEF RecordBack, Goto
<1>8. CASE RemoveDirectory
  <2>1. PICK d \in journal.created : PersistPending(Pending("rollback", "directory", d))
                                     /\ Goto("rmdir")
    BY <1>8 DEF RemoveDirectory
  <2>2. pc = "emptyDirectories" /\ pc' = "rmdir" /\ d \in journal'.created
        /\ journal'.applied = journal.applied
        /\ journal'.state = journal.state /\ journal'.pending = Pending("rollback", "directory", d)
    BY <1>8, <2>1 DEF RemoveDirectory, PersistPending, Persist, Goto
  <2>3. RollbackInv'
    BY <1>j, <2>2 DEF RollbackInv, Pending, LeavesBack, CleanupSteps
  <2>4. QED
    BY <1>a, <1>o, <2>2, <2>3 DEF RollbackSteps
<1>9. CASE Rmdir
  <2>1. pc = "rmdir" /\ pc' = "recordRmdir" /\ journal' = journal
    BY <1>9 DEF Rmdir, Goto, records
  <2>2. RollbackInv'
    BY <1>j, <2>1 DEF RollbackInv, LeavesBack, CleanupSteps
  <2>3. QED
    BY <1>a, <1>o, <2>1, <2>2 DEF RollbackSteps
<1>10. CASE RecordRmdir
  <2>1. pc = "recordRmdir" /\ pc' = "emptyDirectories" /\ journal'.state = "ROLLING_BACK"
        /\ journal'.applied = journal.applied /\ journal'.pending = NoPending
    BY <1>10 DEF RecordRmdir, Persist, Goto
  <2>2. RollbackInv'
    BY <1>j, <2>1 DEF RollbackInv, LeavesBack, CleanupSteps, NoPending
  <2>3. QED
    BY <1>o, <2>1, <2>2 DEF RollbackSteps
<1>11. CASE DirectoriesRemoved
  <2>1. pc = "emptyDirectories" /\ pc' = "dropReceipt" /\ journal.created = {}
        /\ journal' = journal
    BY <1>11 DEF DirectoriesRemoved, Goto, records
  <2>2. RollbackInv'
    BY <1>j, <2>1 DEF RollbackInv, LeavesBack, CleanupSteps
  <2>3. QED
    BY <1>a, <1>o, <2>1, <2>2 DEF RollbackSteps
<1>12. CASE DropReceipt
  <2>1. pc = "dropReceipt" /\ pc' = "dropPending" /\ ~receipt' /\ journal' = journal
    BY <1>12 DEF DropReceipt, Goto
  <2>2. RollbackInv'
    BY <1>j, <2>1 DEF RollbackInv, LeavesBack, CleanupSteps
  <2>3. QED
    BY <1>a, <1>o, <2>1, <2>2 DEF RollbackSteps
<1>13. CASE DropPending
  <2>1. pc = "dropPending" /\ pc' = "dropPending" /\ UNCHANGED <<receipt, journal>>
    BY <1>13 DEF DropPending, control
  <2>2. RollbackInv'
    BY <1>j, <2>1 DEF RollbackInv, LeavesBack, CleanupSteps
  <2>3. QED
    BY <1>a, <1>o, <2>1, <2>2 DEF RollbackSteps
<1>14. QED
  BY <1>1, <1>2, <1>3, <1>4, <1>5, <1>6, <1>7, <1>8, <1>9, <1>10, <1>11, <1>12, <1>13
  DEF RollbackMoves

\* The cleanup of a rollback runs on empty records, that of a commit past it.
LEMMA CleanupRecords ==
  ASSUME JInv,
         \/ EvidenceDropped \/ RemoveStagedLeaf \/ RemoveStaging
         \/ RemoveStagedDirectory \/ RemoveDirectories \/ FinishRollback
  PROVE  RecordsInv' /\ EvidenceAgrees'
<1>j. PreparingInv /\ RollbackInv
  BY DEF JInv, RecordsInv
\* A step from one part of the cleanup to the next.
<1>o. ASSUME pc \in CleanupSteps, pc' \in CleanupSteps \cup {"finish"},
             committed' = committed, UNCHANGED records
      PROVE  RecordsInv' /\ EvidenceAgrees'
  <2>1. PreparingInv'
    BY <1>j, <1>o DEF PreparingInv, PreparationSteps, CleanupSteps, records
  <2>2. ForwardInv'
    BY <1>o DEF ForwardInv, MovingSteps, SettledSteps, CleanupSteps
  <2>3. RollbackInv'
    BY <1>j, <1>o DEF RollbackInv, LeavesBack, CleanupSteps, HalfPublished, records
  <2>4. EvidenceAgrees'
    BY <1>o DEF JInv, EvidenceAgrees, records
  <2>5. QED
    BY <2>1, <2>2, <2>3, <2>4 DEF RecordsInv
<1>1. CASE EvidenceDropped
  <2>1. pc = "dropPending" /\ pc' = "leaves" /\ ~committed' /\ HalfPublished = {}
        /\ UNCHANGED records
    BY <1>1 DEF EvidenceDropped
  <2>2. /\ prep = "sealed" /\ ~manifest /\ ~receipt
        /\ journal.state \notin {"NONE", "COMMITTED", "ROLLED_BACK"}
        /\ journal.applied = {} /\ journal.created = {} /\ journal.pending = NoPending
    BY <1>j, <2>1, BeforeCommit DEF RollbackInv, LeavesBack, RollbackSteps
  <2>3. PreparingInv' /\ EvidenceAgrees'
    BY <2>1, <2>2, StillOpen DEF RollbackSteps, PreparationSteps, records
  <2>4. ForwardInv'
    BY <2>1 DEF ForwardInv, MovingSteps, SettledSteps
  <2>5. RollbackInv'
    BY <2>1, <2>2
    DEF RollbackInv, LeavesBack, CleanupSteps, HalfPublished, records, NoPending
  <2>6. QED
    BY <2>3, <2>4, <2>5 DEF RecordsInv
<1>2. CASE RemoveStagedLeaf \/ RemoveStaging \/ RemoveStagedDirectory \/ RemoveDirectories
  BY <1>2, <1>o
  DEF RemoveStagedLeaf, RemoveStaging, RemoveStagedDirectory, RemoveDirectories,
      CleanupSteps, Goto, control
<1>3. CASE FinishRollback
  <2>1. pc = "finish" /\ ~committed /\ pc' = "idle"
        /\ journal'.state = "ROLLED_BACK" /\ journal'.pending = NoPending
        /\ UNCHANGED <<prep, receipt, manifest>>
    BY <1>3 DEF FinishRollback, Persist, Stop
  <2>2. prep = "sealed" /\ ~manifest /\ ~receipt
    BY <1>j, <2>1 DEF PreparingInv, RollbackInv, PreparationSteps
  <2>3. PreparingInv'
    BY <2>1, <2>2 DEF PreparingInv, PreparationSteps
  <2>4. ForwardInv' /\ RollbackInv'
    BY <2>1
    DEF ForwardInv, MovingSteps, SettledSteps, RollbackInv, LeavesBack, CleanupSteps,
        NoPending
  <2>5. EvidenceAgrees'
    BY <2>1, <2>2 DEF EvidenceAgrees
  <2>6. QED
    BY <2>3, <2>4, <2>5 DEF RecordsInv
<1>4. QED
  BY <1>1, <1>2, <1>3

\* A recovery starts from the records as they are.
LEMMA RecoveryRecords ==
  ASSUME JInv, \/ StartRecovery \/ (RecoverCommitted /\ UNCHANGED records)
  PROVE  RecordsInv' /\ EvidenceAgrees'
<1>j. PreparingInv /\ RollbackInv
  BY DEF JInv, RecordsInv
<1>1. EvidenceAgrees'
  BY DEF JInv, EvidenceAgrees, StartRecovery, records
<1>2. PreparingInv'
  <2>1. CASE StartRecovery
    BY <1>j, <2>1 DEF StartRecovery, PreparingInv, PreparationSteps, records
  <2>2. CASE RecoverCommitted /\ UNCHANGED records
    <3>1. pc = "commitCheck" /\ pc' \in {"idle", "leaves", "finish"}
      BY <2>2 DEF RecoverCommitted, MarkUnlessCommitted, Stop
    <3>2. QED
      BY <1>j, <2>2, <3>1 DEF PreparingInv, PreparationSteps, records
  <2>3. QED
    BY <2>1, <2>2
<1>3. ForwardInv'
  BY DEF StartRecovery, RecoverCommitted, MarkUnlessCommitted, Stop, ForwardInv, MovingSteps,
         SettledSteps
<1>4. RollbackInv'
  <2>1. CASE StartRecovery
    BY <1>j, <2>1 DEF StartRecovery, RollbackInv, LeavesBack, CleanupSteps, records
  <2>2. CASE RecoverCommitted /\ UNCHANGED records
    <3>1. pc' = "idle" \/ (pc' \in {"leaves", "finish"} /\ committed')
      BY <2>2 DEF RecoverCommitted, MarkUnlessCommitted, Stop
    <3>2. QED
      BY <1>j, <2>2, <3>1 DEF RollbackInv, LeavesBack, CleanupSteps, records
  <2>3. QED
    BY <2>1, <2>2
<1>5. QED
  BY <1>1, <1>2, <1>3, <1>4 DEF RecordsInv

\* The types of the tree and its slots, and what a pending action names.
LEMMA TypedTree ==
  ASSUME JInv
  PROVE  /\ target \in [Targets -> Content] /\ staged \in [Targets -> Content]
         /\ dir \in [Dirs -> {"absent", "engine", "owner"}]
         /\ \A i \in Targets : Original(i) # "after" /\ Original(i) \in Content
         /\ pc \in {"moveDirectory", "recordDirectory", "rmdir", "recordRmdir"} =>
              journal.pending.what = "directory" /\ journal.pending.at \in Dirs
         /\ pc \in {"exchangeBack", "recordBack"} \cup QuarantineSteps =>
              journal.pending.what = "leaf" /\ journal.pending.at \in Targets
  BY JournalParts, PendingTyped
  DEF JInv, IInv, TypeOK, TreeOK, SlotsOK, ControlInv, Original, Content

\* Until the preparation is sealed the tree has nothing of the engine's in it.
LEMMA PreparationTree ==
  ASSUME JInv, BeginApply \/ StageContents \/ SealPreparation
  PROVE  TreeInv' /\ JournalCoversTree' /\ RolledBackClean'
<1>1. NothingPublic'
  <2>1. CASE BeginApply
    BY <2>1, TypedTree DEF BeginApply, MayBegin, NothingPublic, tree
  <2>2. CASE StageContents \/ SealPreparation
    BY <2>2
    DEF StageContents, SealPreparation, JInv, IInv, SlotInv, TreeInv, NothingPublic,
        PreparationSteps, tree
  <2>3. QED
    BY <2>1, <2>2
<1>2. /\ ~manifest' /\ pc' \in {"stage", "seal", "base"}
      /\ pc' = "base" => journal'.applied = {}
      /\ journal'.state # "ROLLED_BACK"
  <2>1. CASE BeginApply
    BY <2>1 DEF BeginApply, MayBegin, EmptyJournal, JInv, RecordsInv, PreparingInv
  <2>2. CASE StageContents \/ SealPreparation
    BY <2>2
    DEF StageContents, SealPreparation, Goto, EmptyJournal, JInv, IInv, SlotInv, RecordsInv,
        PreparingInv, PreparationSteps
  <2>3. QED
    BY <2>1, <2>2
<1>3. TreeInv'
  BY <1>1, <1>2 DEF TreeInv, ForwardSteps
<1>4. JournalCoversTree'
  BY <1>1 DEF JournalCoversTree, NothingPublic
<1>5. RolledBackClean'
  BY <1>2 DEF RolledBackClean
<1>6. QED
  BY <1>3, <1>4, <1>5

\* On the way forward whatever becomes public is intended first and recorded next.
LEMMA ForwardTree ==
  ASSUME JInv,
         \/ PublishBase \/ StartApplying \/ IntendDirectory \/ MoveDirectory
         \/ RecordDirectory \/ IntendLeaf \/ MoveLeaf \/ RecordLeaf
         \/ StartValidating \/ PublishReceipt \/ ApplyRaises
  PROVE  TreeInv' /\ JournalCoversTree' /\ RolledBackClean'
<1> USE TypedTree
<1>a. pc \in ForwardSteps
  BY DEF PublishBase, StartApplying, IntendDirectory, MoveDirectory, RecordDirectory,
         IntendLeaf, MoveLeaf, RecordLeaf, StartValidating, PublishReceipt, ApplyRaises,
         ForwardSteps
<1>b. prep = "sealed" /\ ~manifest /\ journal.state # "ROLLED_BACK"
  BY <1>a, BeforeCommit
<1>c. /\ prep' = prep /\ manifest' = manifest /\ pc' # "recordRmdir"
      /\ journal'.state # "ROLLED_BACK"
  BY <1>b
  DEF PublishBase, StartApplying, IntendDirectory, MoveDirectory, RecordDirectory,
      IntendLeaf, MoveLeaf, RecordLeaf, StartValidating, PublishReceipt, ApplyRaises,
      Goto, PersistState, PersistPending, Persist, records
<1>j. ForwardInv /\ TreeInv /\ JournalCoversTree
  BY DEF JInv, RecordsInv
<1>r. RolledBackClean'
  BY <1>c DEF RolledBackClean
<1>t. (pc' \in ForwardSteps => \A i \in Targets : i \in journal'.applied => staged'[i] = Original(i))
        => TreeInv'
  BY <1>b, <1>c DEF TreeInv
\* A step that moves nothing and records nothing.
<1>u. ASSUME UNCHANGED <<target, dir, staged>>, journal'.applied = journal.applied,
             journal'.created = journal.created,
             journal'.pending = journal.pending \/ journal.pending = NoPending
      PROVE  TreeInv' /\ JournalCoversTree' /\ RolledBackClean'
  <2>1. TreeInv'
    BY <1>a, <1>j, <1>t, <1>u DEF TreeInv
  <2>2. JournalCoversTree'
    BY <1>b, <1>j, <1>u DEF JournalCoversTree, NoPending
  <2>3. QED
    BY <1>r, <2>1, <2>2
<1>1. CASE PublishBase \/ PublishReceipt \/ ApplyRaises
  BY <1>1, <1>u DEF PublishBase, PublishReceipt, ApplyRaises, tree, private
<1>2. CASE StartApplying \/ StartValidating
  BY <1>2, <1>u DEF StartApplying, StartValidating, PersistState, Persist, tree, private
<1>3. CASE IntendDirectory \/ IntendLeaf
  <2>1. journal.pending = NoPending
    BY <1>3, <1>j DEF IntendDirectory, IntendLeaf, ForwardInv, SettledSteps
  <2>2. QED
    BY <1>3, <1>u, <2>1
    DEF IntendDirectory, IntendLeaf, PersistPending, Persist, tree, private
<1>4. CASE MoveDirectory
  <2>1. UNCHANGED <<target, staged, records>>
        /\ dir' = [dir EXCEPT ![journal.pending.at] = "engine"]
        /\ journal.pending.what = "directory"
    BY <1>4 DEF MoveDirectory
  <2>2. TreeInv'
    BY <1>a, <1>j, <1>t, <2>1 DEF TreeInv, records
  <2>3. JournalCoversTree'
    BY <1>b, <1>j, <2>1 DEF JournalCoversTree, records
  <2>4. QED
    BY <1>r, <2>2, <2>3
<1>5. CASE RecordDirectory
  <2>1. UNCHANGED <<target, dir, staged>> /\ journal.pending.what = "directory"
        /\ journal'.applied = journal.applied
        /\ journal'.created = journal.created \cup {journal.pending.at}
    BY <1>5 DEF RecordDirectory, Persist, tree, private
  <2>2. TreeInv'
    BY <1>a, <1>j, <1>t, <2>1 DEF TreeInv
  <2>3. JournalCoversTree'
    BY <1>b, <1>j, <2>1 DEF JournalCoversTree
  <2>4. QED
    BY <1>r, <2>2, <2>3
<1>6. CASE MoveLeaf
  <2>1. cursor \in Targets
    BY <1>6 DEF MoveLeaf, JInv, IInv, ControlInv
  <2>2. journal.pending = Pending("forward", "leaf", cursor)
        /\ journal.applied = {i \in Targets : i < cursor}
    BY <1>6, <1>j DEF MoveLeaf, ForwardInv, MovingSteps
  <2>3. UNCHANGED <<dir, records>>
        /\ target' = [target EXCEPT ![cursor] = staged[cursor]]
        /\ staged' = [staged EXCEPT ![cursor] = target[cursor]]
    BY <1>6 DEF MoveLeaf, Exchange
  <2>4. TreeInv'
    <3>1. cursor \notin journal.applied
      BY <2>1, <2>2 DEF Targets
    <3>2. QED
      BY <1>a, <1>j, <1>t, <2>3, <3>1 DEF TreeInv, records
  <2>5. JournalCoversTree'
    BY <1>b, <1>j, <2>1, <2>2, <2>3 DEF JournalCoversTree, Pending, records
  <2>6. QED
    BY <1>r, <2>4, <2>5
<1>7. CASE RecordLeaf
  <2>1. UNCHANGED <<target, dir, staged>> /\ staged[cursor] = Original(cursor)
        /\ journal'.applied = journal.applied \cup {cursor}
        /\ journal'.created = journal.created
    BY <1>7 DEF RecordLeaf, LeafInstalled, Persist, tree, private
  <2>2. journal.pending = Pending("forward", "leaf", cursor)
    BY <1>7, <1>j DEF RecordLeaf, ForwardInv
  <2>3. TreeInv'
    BY <1>a, <1>j, <1>t, <2>1 DEF TreeInv
  <2>4. JournalCoversTree'
    BY <1>b, <1>j, <2>1, <2>2 DEF JournalCoversTree, Pending
  <2>5. QED
    BY <1>r, <2>3, <2>4
<1>8. QED
  BY <1>1, <1>2, <1>3, <1>4, <1>5, <1>6, <1>7

\* Committing moves nothing: every slot holds its displaced original.
LEMMA CommitTree ==
  ASSUME JInv, PublishManifest \/ CommitJournal
  PROVE  TreeInv' /\ JournalCoversTree' /\ RolledBackClean'
<1>1. /\ UNCHANGED <<target, dir, staged, prep>> /\ pc' \in {"commitJournal", "leaves"}
      /\ journal'.applied = journal.applied /\ journal'.created = journal.created
      /\ journal'.pending = journal.pending
  BY DEF PublishManifest, CommitJournal, PersistState, Persist, Goto, tree, private
<1>2. prep = "sealed" /\ journal.state # "ROLLED_BACK" /\ journal'.state # "ROLLED_BACK"
  BY DEF PublishManifest, CommitJournal, PersistState, Persist, JInv, RecordsInv, PreparingInv,
         PreparationSteps
<1>3. \A i \in Targets : staged[i] \in {"absent", Original(i)}
  <2>1. CASE PublishManifest
    BY <2>1 DEF PublishManifest, JInv, RecordsInv, ForwardInv, TreeInv, ForwardSteps
  <2>2. CASE CommitJournal
    BY <2>2 DEF CommitJournal, JInv, IInv, CommitInv, TreeInv
  <2>3. QED
    BY <2>1, <2>2
<1>4. TreeInv'
  BY <1>1, <1>2, <1>3 DEF TreeInv, ForwardSteps
<1>5. JournalCoversTree'
  BY <1>1, <1>2 DEF JInv, JournalCoversTree
<1>6. RolledBackClean'
  BY <1>2 DEF RolledBackClean
<1>7. QED
  BY <1>4, <1>5, <1>6

\* A rollback takes a leaf or a directory off its record only when it is no
\* longer public.
LEMMA RollbackTree ==
  ASSUME JInv, RollbackMoves, ~RollbackFails
  PROVE  TreeInv' /\ JournalCoversTree' /\ RolledBackClean'
<1> USE TypedTree
<1>a. /\ pc \in RollbackSteps /\ prep' = prep /\ manifest' = manifest
      /\ prep = "sealed" /\ ~manifest
      /\ journal.state \notin {"NONE", "COMMITTED", "ROLLED_BACK"}
  BY RollbackMoveFrom, BeforeCommit
<1>j. JournalCoversTree /\ RollbackInv /\ TreeInv
  BY DEF JInv, RecordsInv
\* What is left to show once the step goes on.
<1>o. ASSUME pc' \in RollbackSteps \ {"recordRmdir"}, journal'.state # "ROLLED_BACK",
             JournalCoversTree'
      PROVE  TreeInv' /\ JournalCoversTree' /\ RolledBackClean'
  <2>1. pc' \notin ForwardSteps
    BY <1>o DEF RollbackSteps, ForwardSteps
  <2>2. TreeInv'
    BY <1>a, <1>o, <2>1 DEF TreeInv
  <2>3. RolledBackClean'
    BY <1>o DEF RolledBackClean
  <2>4. QED
    BY <1>o, <2>2, <2>3
\* A step that moves nothing and takes nothing off the record.
<1>u. ASSUME UNCHANGED tree, pc' \in RollbackSteps \ {"recordRmdir"},
             journal'.state \in {journal.state, "ROLLING_BACK"},
             journal'.applied = journal.applied, journal'.created = journal.created,
             journal'.pending = journal.pending \/ journal.pending = NoPending
      PROVE  TreeInv' /\ JournalCoversTree' /\ RolledBackClean'
  <2>1. JournalCoversTree'
    BY <1>a, <1>j, <1>u DEF JournalCoversTree, NoPending, tree
  <2>2. QED
    BY <1>a, <1>o, <1>u, <2>1
\* Reconciling drops the pending action and covers what it named otherwise.
<1>c. ASSUME NEW a, NEW c, Reconciled(a, c), UNCHANGED tree,
             \A i \in Targets : target[i] = "after" =>
               i \in a \/ (i \notin journal.applied
                            /\ ~(journal.pending.what = "leaf" /\ journal.pending.at = i)),
             \A d \in Dirs : dir[d] = "engine" =>
               d \in c \/ (d \notin journal.created
                            /\ ~(journal.pending.what = "directory" /\ journal.pending.at = d))
      PROVE  TreeInv' /\ JournalCoversTree' /\ RolledBackClean'
  <2>1. /\ pc' = "withdraw" /\ journal'.state = "ROLLING_BACK"
        /\ journal'.applied = a /\ journal'.created = c
    BY <1>c DEF Reconciled, Persist, Goto
  <2>2. JournalCoversTree'
    BY <1>a, <1>c, <1>j, <2>1 DEF JournalCoversTree, tree
  <2>3. QED
    BY <1>o, <2>1, <2>2 DEF RollbackSteps
\* A leaf that is pending trades places with what is not the engine's content.
<1>e. ASSUME journal.pending.what = "leaf", journal.pending.at \in Targets,
             Exchange(journal.pending.at), UNCHANGED records,
             pc' \in RollbackSteps \ {"recordRmdir"}
      PROVE  TreeInv' /\ JournalCoversTree' /\ RolledBackClean'
  <2>1. JournalCoversTree'
    BY <1>a, <1>e, <1>j DEF JournalCoversTree, Exchange, records
  <2>2. QED
    BY <1>a, <1>e, <1>o, <2>1 DEF records
<1>1. CASE StartRollback
  BY <1>1, <1>u DEF StartRollback, PersistState, Persist, Goto, RollbackSteps
<1>2. CASE ReconcileForward
  <2> DEFINE p == journal.pending
  <2>p. p.what \in {"leaf", "directory"} /\ (p.what = "leaf" => p.at \in Targets)
        /\ (p.what = "directory" => p.at \in Dirs) /\ UNCHANGED tree
    BY <1>2, JournalParts, PendingTyped
    DEF ReconcileForward, JInv, IInv, TypeOK, ControlInv
  <2>1. CASE ForwardOutcome(p) = "undone" /\ Reconciled(journal.applied, journal.created)
    <3>1. /\ p.what = "leaf" => target[p.at] # "after"
          /\ p.what = "directory" => dir[p.at] # "engine"
      BY <2>p, <2>1 DEF ForwardOutcome, NotMoved
    <3>2. QED
      BY <1>c, <2>p, <2>1, <3>1
  <2>2. CASE p.what = "leaf" /\ Reconciled(journal.applied \cup {p.at}, journal.created)
    BY <1>c, <2>p, <2>2
  <2>3. CASE p.what = "directory" /\ Reconciled(journal.applied, journal.created \cup {p.at})
    BY <1>c, <2>p, <2>3
  <2>4. QED
    BY <1>2, <2>1, <2>2, <2>3 DEF ReconcileForward
<1>3. CASE ReconcileRollback
  <2> DEFINE p == journal.pending
  <2>p. p.what \in {"leaf", "directory"} /\ UNCHANGED tree
        /\ (p.what = "leaf" => p.at \in Targets /\ p.at \in journal.applied)
        /\ (p.what = "directory" => p.at \in Dirs /\ p.at \in journal.created)
    BY <1>3, <1>j, JournalParts, PendingTyped
    DEF ReconcileRollback, RollbackInv, JInv, IInv, TypeOK, ControlInv
  <2>1. CASE p.what = "directory"
    <3> DEFINE c == IF dir[p.at] = "absent" THEN journal.created \ {p.at} ELSE journal.created
    <3>1. Reconciled(journal.applied, c)
      BY <1>3, <2>1 DEF ReconcileRollback
    <3>2. \A d \in Dirs : dir[d] = "engine" => d \in c \/ (d \notin journal.created /\ d # p.at)
      BY <2>p, <2>1
    <3>3. QED
      BY <1>c, <2>p, <2>1, <3>1, <3>2
  <2>2. CASE p.what = "leaf" /\ Kind[p.at] = "replace"
    <3> DEFINE a == IF NotMoved(p.at) THEN journal.applied \ {p.at} ELSE journal.applied
    <3>1. Reconciled(a, journal.created)
      BY <1>3, <2>2 DEF ReconcileRollback
    <3>2. \A i \in Targets : target[i] = "after" => i \in a \/ (i \notin journal.applied /\ i # p.at)
      BY <2>p, <2>2 DEF NotMoved
    <3>3. QED
      BY <1>c, <2>p, <2>2, <3>1, <3>2
  <2>3. CASE Goto("quarantine") /\ UNCHANGED records
    BY <1>a, <1>u, <2>p, <2>3 DEF Goto, RollbackSteps, records
  <2>4. QED
    BY <1>3, <2>p, <2>1, <2>2, <2>3 DEF ReconcileRollback
<1>4. CASE WithdrawLeaf \/ RemoveDirectory
  <2>1. journal.pending = NoPending
    BY <1>4, <1>j DEF WithdrawLeaf, RemoveDirectory, RollbackInv
  <2>2. /\ UNCHANGED tree /\ pc' \in {"quarantine", "exchangeBack", "rmdir"}
        /\ journal'.state = journal.state
        /\ journal'.applied = journal.applied /\ journal'.created = journal.created
    BY <1>4 DEF WithdrawLeaf, RemoveDirectory, PersistPending, Persist, Goto
  <2>3. QED
    BY <1>u, <2>1, <2>2 DEF RollbackSteps
<1>5. CASE LeavesWithdrawn \/ DirectoriesRemoved \/ DropReceipt \/ DropPending
  BY <1>5, <1>u
  DEF LeavesWithdrawn, DirectoriesRemoved, DropReceipt, DropPending, Goto, RollbackSteps,
      records, control
<1>6. CASE ExchangeBack \/ Quarantine \/ QuarantineMove \/ QuarantineVerify
  <2> DEFINE i == journal.pending.at
  <2>1. journal.pending.what = "leaf" /\ i \in Targets
    BY <1>6 DEF ExchangeBack, Quarantine, QuarantineMove, QuarantineVerify, QuarantineSteps
  <2>2. UNCHANGED records /\ pc' \in RollbackSteps \ {"recordRmdir"}
    BY <1>6
    DEF ExchangeBack, Quarantine, QuarantineMove, QuarantineVerify, Goto, RollbackSteps,
        records
  <2>3. Exchange(i) \/ UNCHANGED tree
    BY <1>6 DEF ExchangeBack, Quarantine, QuarantineMove, QuarantineVerify
  <2>4. QED
    BY <1>e, <1>u, <2>1, <2>2, <2>3 DEF records
<1>7. CASE RecordBack
  <2> DEFINE i == journal.pending.at
  <2>1. journal.pending.what = "leaf" /\ i \in Targets
    BY <1>7 DEF RecordBack
  <2>2. target[i] # "after" /\ UNCHANGED tree
        /\ Reconciled(journal.applied \ {i}, journal.created)
    BY <1>7, <2>1 DEF RecordBack, LeafWithdrawn, Reconciled
  <2>3. QED
    BY <1>c, <2>1, <2>2
<1>8. CASE Rmdir
  <2> DEFINE d == journal.pending.at
  <2>1. d \in Dirs /\ dir' = [dir EXCEPT ![d] = "absent"] /\ UNCHANGED <<target, records>>
        /\ pc' = "recordRmdir"
    BY <1>8 DEF Rmdir, Goto
  <2>2. TreeInv'
    BY <1>a, <2>1 DEF TreeInv, ForwardSteps, records
  <2>3. JournalCoversTree'
    BY <1>a, <1>j, <2>1 DEF JournalCoversTree, records
  <2>4. RolledBackClean'
    BY <1>a, <2>1 DEF RolledBackClean, records
  <2>5. QED
    BY <2>2, <2>3, <2>4
<1>9. CASE RecordRmdir
  <2> DEFINE d == journal.pending.at
  <2>1. /\ d \in Dirs /\ journal.pending.what = "directory" /\ UNCHANGED tree
        /\ pc' = "emptyDirectories" /\ journal'.state = "ROLLING_BACK"
        /\ journal'.applied = journal.applied /\ journal'.created = journal.created \ {d}
    BY <1>9 DEF RecordRmdir, Persist, Goto
  <2>2. dir[d] # "engine"
    BY <1>9, <1>j DEF RecordRmdir, TreeInv
  <2>3. JournalCoversTree'
    BY <1>a, <1>j, <2>1, <2>2 DEF JournalCoversTree, tree
  <2>4. QED
    BY <1>o, <2>1, <2>3 DEF RollbackSteps
<1>10. QED
  BY <1>1, <1>2, <1>3, <1>4, <1>5, <1>6, <1>7, <1>8, <1>9 DEF RollbackMoves

\* A leaf that the quarantine puts back, because it is not the engine's, ends the
\* rollback with the journal still covering the tree.
LEMMA QuarantineTree ==
  ASSUME JInv, QuarantineVerify, RollbackFails
  PROVE  TreeInv' /\ JournalCoversTree' /\ RolledBackClean'
<1> DEFINE i == journal.pending.at
<1>1. i \in Targets /\ journal.pending.what = "leaf"
  BY TypedTree DEF QuarantineVerify, QuarantineSteps
<1>2. prep = "sealed" /\ ~manifest /\ journal.state # "ROLLED_BACK"
  BY BeforeCommit DEF QuarantineVerify, RollbackSteps
<1>3. /\ pc' = "idle" /\ prep' = prep /\ manifest' = manifest
      /\ journal'.state = "ROLLBACK_INCOMPLETE" /\ journal'.applied = journal.applied
      /\ journal'.created = journal.created /\ journal'.pending = journal.pending
  BY DEF RollbackFails, PersistState, Persist, Stop
<1>4. Exchange(i) \/ UNCHANGED tree
  BY DEF QuarantineVerify
<1>5. TreeInv'
  BY <1>2, <1>3 DEF TreeInv, ForwardSteps
<1>6. JournalCoversTree'
  BY <1>1, <1>2, <1>3, <1>4, TypedTree DEF JInv, JournalCoversTree, Exchange, tree
<1>7. RolledBackClean'
  BY <1>3 DEF RolledBackClean
<1>8. QED
  BY <1>5, <1>6, <1>7

\* The cleanup only empties slots; what it finishes has nothing left behind.
LEMMA CleanupTree ==
  ASSUME JInv,
         \/ EvidenceDropped \/ RemoveStagedLeaf \/ RemoveStaging
         \/ RemoveStagedDirectory \/ RemoveDirectories \/ FinishRollback
  PROVE  TreeInv' /\ JournalCoversTree' /\ RolledBackClean'
<1> USE TypedTree
<1>j. PreparingInv /\ RollbackInv /\ TreeInv /\ JournalCoversTree
  BY DEF JInv, RecordsInv
<1>a. /\ pc \in {"dropPending", "finish"} \cup CleanupSteps
      /\ pc' \in {"idle", "finish"} \cup CleanupSteps
      /\ UNCHANGED <<tree, prep, manifest>>
  BY DEF EvidenceDropped, RemoveStagedLeaf, RemoveStaging, RemoveStagedDirectory,
         RemoveDirectories, FinishRollback, CleanupSteps, Goto, Stop, Persist, records, control
<1>s. prep = "sealed" /\ journal.state # "ROLLED_BACK"
  BY <1>a, <1>j DEF PreparingInv, PreparationSteps, CleanupSteps
<1>1. \A i \in Targets : staged'[i] \in {"absent", staged[i]}
  BY DEF EvidenceDropped, RemoveStagedLeaf, RemoveStaging, RemoveStagedDirectory,
         RemoveDirectories, FinishRollback, private
<1>2. TreeInv'
  BY <1>a, <1>j, <1>s, <1>1 DEF TreeInv, ForwardSteps, CleanupSteps
<1>3. CASE FinishRollback
  <2>1. /\ pc = "finish" /\ ~committed /\ journal'.state = "ROLLED_BACK"
        /\ residue' = residue \ {"journal"} /\ UNCHANGED <<target, dir, staged>>
    BY <1>3 DEF FinishRollback, Persist, tree, private
  <2>2. /\ journal.applied = {} /\ journal.created = {} /\ journal.pending = NoPending
        /\ HalfPublished = {}
    BY <1>j, <2>1 DEF RollbackInv
  <2>3. NothingPublic
    BY <1>j, <1>s, <2>2 DEF JournalCoversTree, NothingPublic, NoPending
  <2>4. \A i \in Targets : staged[i] = "absent"
    BY <2>1 DEF JInv, IInv, SlotInv
  <2>5. RolledBackClean'
    BY <2>1, <2>2, <2>3, <2>4 DEF RolledBackClean, NothingPublic, HalfPublished
  <2>6. JournalCoversTree'
    BY <2>1 DEF JournalCoversTree
  <2>7. QED
    BY <1>2, <2>5, <2>6
<1>4. CASE ~FinishRollback
  <2>1. journal' = journal
    BY <1>4
    DEF EvidenceDropped, RemoveStagedLeaf, RemoveStaging, RemoveStagedDirectory,
        RemoveDirectories, records
  <2>2. JournalCoversTree' /\ RolledBackClean'
    BY <1>a, <1>j, <1>s, <2>1 DEF JournalCoversTree, RolledBackClean, tree
  <2>3. QED
    BY <1>2, <2>2
<1>5. QED
  BY <1>3, <1>4

\* Starting a recovery moves nothing.
LEMMA RecoveryTree ==
  ASSUME JInv, \/ StartRecovery \/ (RecoverCommitted /\ UNCHANGED records)
  PROVE  TreeInv' /\ JournalCoversTree' /\ RolledBackClean'
<1>1. UNCHANGED <<tree, private, records>>
  BY DEF StartRecovery, RecoverCommitted
<1>2. pc' \notin ForwardSteps \cup {"recordRmdir"}
  BY DEF StartRecovery, RecoverCommitted, MarkUnlessCommitted, Stop, ForwardSteps
<1>3. TreeInv'
  BY <1>1, <1>2 DEF JInv, TreeInv, NothingPublic, tree, private, records
<1>4. JournalCoversTree'
  BY <1>1 DEF JInv, JournalCoversTree, tree, records
<1>5. RolledBackClean'
  BY <1>1 DEF JInv, RolledBackClean, tree, private, records
<1>6. QED
  BY <1>3, <1>4, <1>5

\* Every step is one of these.
LEMMA StepKinds ==
  ASSUME [Next]_vars
  PROVE  \/ BeginApply \/ StageContents \/ SealPreparation
         \/ PublishBase \/ StartApplying \/ IntendDirectory \/ MoveDirectory
         \/ RecordDirectory \/ IntendLeaf \/ MoveLeaf \/ RecordLeaf
         \/ StartValidating \/ PublishReceipt \/ ApplyRaises
         \/ PublishManifest \/ CommitJournal
         \/ RollbackMoves
         \/ EvidenceDropped \/ RemoveStagedLeaf \/ RemoveStaging
         \/ RemoveStagedDirectory \/ RemoveDirectories \/ FinishRollback
         \/ StartRecovery \/ RecoverCommitted
         \/ PreparationRaises \/ ManifestUnreadable \/ CommitJournalRaises
         \/ CleanupRaises \/ RollbackRaises \/ RecoveryManifestUnreadable
         \/ FinishCommit \/ Crash
         \/ Owner \/ Quiesce \/ RefusePreparation \/ UNCHANGED vars
  BY DEF Next, Running, Apply, Rollback, Cleanup, Raises, DropEvidence, RollbackMoves

\* What the records and the tree promise each other survives every step.
LEMMA JournalKept ==
  ASSUME JInv, [Next]_vars
  PROVE  RecordsInv' /\ EvidenceAgrees' /\ TreeInv' /\ JournalCoversTree' /\ RolledBackClean'
<1> DEFINE Goal == /\ RecordsInv' /\ EvidenceAgrees'
                   /\ TreeInv' /\ JournalCoversTree' /\ RolledBackClean'
<1>1. CASE BeginApply \/ StageContents \/ SealPreparation
  BY <1>1, PreparationRecords, PreparationTree
<1>2. CASE \/ PublishBase \/ StartApplying \/ IntendDirectory \/ MoveDirectory
           \/ RecordDirectory \/ IntendLeaf \/ MoveLeaf \/ RecordLeaf
           \/ StartValidating \/ PublishReceipt \/ ApplyRaises
  BY <1>2, ForwardRecords, ForwardTree
<1>3. CASE PublishManifest \/ CommitJournal
  BY <1>3, CommitRecords, CommitTree
<1>4. CASE RollbackMoves
  <2>1. CASE ~RollbackFails
    BY <1>4, <2>1, RollbackRecords, RollbackTree
  <2>2. CASE RollbackFails
    <3>1. Halt
      <4>1. pc \in RollbackSteps /\ ~manifest
        BY <1>4, RollbackMoveFrom, BeforeCommit
      <4>2. pc \notin {"idle"} \cup PreparationSteps
        BY <4>1 DEF RollbackSteps, PreparationSteps
      <4>3. QED
        BY <2>2, <4>1, <4>2, RollbackFailsHalts
    <3>2. RecordsInv' /\ EvidenceAgrees'
      BY <3>1, HaltKeepsRecords
    <3>3. CASE QuarantineVerify
      BY <2>2, <3>2, <3>3, QuarantineTree
    <3>4. CASE UNCHANGED <<tree, private>>
      BY <3>1, <3>2, <3>4, HaltKeepsTree
    <3>5. QuarantineVerify \/ UNCHANGED <<tree, private>>
      BY <1>4, <2>2
      DEF RollbackMoves, RollbackFails, Stop, Goto, control, StartRollback,
          ReconcileForward, ReconcileRollback,
          WithdrawLeaf, LeavesWithdrawn, ExchangeBack, Quarantine, QuarantineMove,
          RecordBack, RemoveDirectory, Rmdir, RecordRmdir, DirectoriesRemoved,
          DropReceipt, DropPending
    <3>6. QED
      BY <3>3, <3>4, <3>5
  <2>3. QED
    BY <2>1, <2>2
<1>5. CASE \/ EvidenceDropped \/ RemoveStagedLeaf \/ RemoveStaging
           \/ RemoveStagedDirectory \/ RemoveDirectories \/ FinishRollback
  BY <1>5, CleanupRecords, CleanupTree
<1>6. CASE StartRecovery
  BY <1>6, RecoveryRecords, RecoveryTree
<1>7. CASE RecoverCommitted
  <2>1. CASE UNCHANGED records
    BY <1>7, <2>1, RecoveryRecords, RecoveryTree
  <2>2. CASE MarkUnlessCommitted
    <3>1. Halt /\ UNCHANGED <<tree, private>>
      BY <1>7, <2>2, MarkHalts DEF RecoverCommitted, PreparationSteps
    <3>2. QED
      BY <3>1, HaltKeepsRecords, HaltKeepsTree
  <2>3. QED
    BY <1>7, <2>1, <2>2 DEF RecoverCommitted
<1>8. CASE \/ PreparationRaises \/ ManifestUnreadable \/ CommitJournalRaises
           \/ CleanupRaises \/ RollbackRaises \/ RecoveryManifestUnreadable
           \/ FinishCommit \/ Crash
  BY <1>8, HaltingSteps, HaltKeepsRecords, HaltKeepsTree
<1>9. CASE Owner \/ Quiesce \/ RefusePreparation \/ UNCHANGED vars
  BY <1>9, BystanderSteps, BystanderKeeps DEF JInv, IInv
<1>10. QED
  BY <1>1, <1>2, <1>3, <1>4, <1>5, <1>6, <1>7, <1>8, <1>9, StepKinds

\* The strengthened invariant holds of every behaviour.
THEOREM JournalInvariant == Spec => []JInv
<1>1. Init => JInv
  <2> SUFFICES ASSUME Init PROVE JInv
    OBVIOUS
  <2>1. IInv
    BY IInvInit
  <2>2. AfterCommit
    BY DEF Init, AfterCommit
  <2>3. RecordsInv
    BY DEF Init, EmptyJournal, RecordsInv, PreparingInv, PreparationSteps, ForwardInv,
           MovingSteps, SettledSteps, RollbackInv, LeavesBack, CleanupSteps, NoPending
  <2>4. EvidenceAgrees
    BY DEF Init, EmptyJournal, EvidenceAgrees
  <2>5. TreeInv /\ JournalCoversTree /\ RolledBackClean
    BY DEF Init, EmptyJournal, TreeInv, NothingPublic, ForwardSteps, JournalCoversTree,
           RolledBackClean, Original
  <2>6. QED
    BY <2>1, <2>2, <2>3, <2>4, <2>5 DEF JInv
<1>2. JInv /\ [Next]_vars => JInv'
  <2> SUFFICES ASSUME JInv, [Next]_vars PROVE JInv'
    OBVIOUS
  <2>1. IInv'
    BY IInvStep DEF JInv
  <2>2. AfterCommit'
    BY CommitStep DEF JInv
  <2>3. QED
    BY <2>1, <2>2, JournalKept DEF JInv
<1>3. QED
  BY <1>1, <1>2, PTL DEF Spec

\* The journal is never more than one move behind the tree, however an apply, a
\* rollback or a recovery ended and whatever the owner did meanwhile.
THEOREM JournalCovers == Spec => []JournalCoversTree
<1>1. JInv => JournalCoversTree
  BY DEF JInv
<1>2. QED
  BY <1>1, JournalInvariant, PTL

\* The commit evidence and the journal never contradict each other, so the two
\* states that recovery refuses are in no history of the engine.
THEOREM EvidenceNeverDisagrees == Spec => []EvidenceAgrees
<1>1. JInv => EvidenceAgrees
  BY DEF JInv
<1>2. QED
  BY <1>1, JournalInvariant, PTL

\* A transaction that says ROLLED_BACK has left nothing of its own behind.
THEOREM RollbackLeavesNothing == Spec => []RolledBackClean
<1>1. JInv => RolledBackClean
  BY DEF JInv
<1>2. QED
  BY <1>1, JournalInvariant, PTL

-----------------------------------------------------------------------------
(***************************************************************************)
(* The transaction implements ContentPublication: every step is one of its *)
(* steps, under the mapping of ContentTransaction, or changes nothing that *)
(* it sees.                                                                *)
(***************************************************************************)
\* The status that the mapping reads off the records.
LEMMA StatusCases ==
  ASSUME EvidenceAgrees
  PROVE  /\ manifest => publicationStatus = "committed"
         /\ ~manifest /\ journal.state \in {"NONE", "ROLLED_BACK"} =>
              publicationStatus = "closed"
         /\ ~manifest /\ journal.state \notin {"NONE", "ROLLED_BACK"} =>
              publicationStatus = "open"
<1>1. manifest => journal.state \notin {"NONE", "ROLLED_BACK"}
  BY DEF EvidenceAgrees
<1>2. CASE manifest
  BY <1>1, <1>2 DEF publicationStatus
<1>3. CASE ~manifest
  BY <1>3 DEF publicationStatus
<1>4. QED
  BY <1>2, <1>3

\* The status follows the manifest record and the state of the journal.
LEMMA StatusCasesNext ==
  ASSUME EvidenceAgrees'
  PROVE  /\ manifest' => publicationStatus' = "committed"
         /\ ~manifest' /\ journal'.state \in {"NONE", "ROLLED_BACK"} =>
              publicationStatus' = "closed"
         /\ ~manifest' /\ journal'.state \notin {"NONE", "ROLLED_BACK"} =>
              publicationStatus' = "open"
<1>1. manifest' => journal'.state \notin {"NONE", "ROLLED_BACK"}
  BY DEF EvidenceAgrees
<1>2. CASE manifest'
  BY <1>1, <1>2 DEF publicationStatus
<1>3. CASE ~manifest'
  BY <1>3 DEF publicationStatus
<1>4. QED
  BY <1>2, <1>3

\* A step that the abstract specification does not see.
Unseen == UNCHANGED <<target, staged, publicationStatus>>

\* Whatever is unseen is a stutter of the abstract specification.
LEMMA UnseenStutters == ASSUME Unseen PROVE UNCHANGED Publication!vars
  BY DEF Unseen, Publication!vars

\* A leaf and its slot trade places only while the transaction is open.
LEMMA TradeStep ==
  ASSUME NEW i \in Targets, Exchange(i),
         publicationStatus = "open", publicationStatus' = "open"
  PROVE  Publication!Next
  BY DEF Exchange, Publication!Next, Publication!Trade

\* Opening, committing and closing map to themselves.
LEMMA StatusSteps ==
  ASSUME JInv, JInv', StageContents \/ PublishManifest \/ FinishRollback
  PROVE  Publication!Next
<1>s. EvidenceAgrees /\ EvidenceAgrees'
  BY DEF JInv
<1>1. CASE StageContents
  <2>1. /\ ~manifest /\ ~manifest' /\ journal.state = "NONE" /\ journal'.state = "PREPARED"
        /\ \A i \in Targets : staged[i] = "absent"
    BY <1>1
    DEF StageContents, EmptyJournal, JInv, IInv, SlotInv, RecordsInv, PreparingInv,
        PreparationSteps
  <2>2. publicationStatus = "closed" /\ publicationStatus' = "open"
    BY <1>s, <2>1, StatusCases, StatusCasesNext
  <2>3. Publication!Open
    BY <1>1, <2>1, <2>2 DEF StageContents, tree, Publication!Open
  <2>4. QED
    BY <2>3 DEF Publication!Next
<1>2. CASE PublishManifest
  <2>1. ~manifest /\ manifest' /\ journal.state = "VALIDATING"
        /\ \A i \in Targets : staged[i] = Original(i)
    BY <1>2, BeforeCommit
    DEF PublishManifest, JInv, RecordsInv, ForwardInv, TreeInv, ForwardSteps
  <2>2. publicationStatus = "open" /\ publicationStatus' = "committed"
    BY <1>s, <2>1, StatusCases, StatusCasesNext
  <2>3. Publication!Commit
    BY <1>2, <2>1, <2>2 DEF PublishManifest, tree, private, Publication!Commit
  <2>4. QED
    BY <2>3 DEF Publication!Next
<1>3. CASE FinishRollback
  <2>1. pc = "finish" /\ ~committed /\ journal'.state = "ROLLED_BACK"
        /\ UNCHANGED <<target, staged, manifest>>
    BY <1>3 DEF FinishRollback, Persist, tree, private
  <2>2. ~manifest /\ journal.state \notin {"NONE", "ROLLED_BACK"}
    BY <2>1 DEF JInv, RecordsInv, RollbackInv, PreparingInv, PreparationSteps
  <2>3. \A i \in Targets : target[i] # "after" /\ staged[i] = "absent"
    BY <2>1 DEF JInv, RolledBackClean
  <2>4. publicationStatus = "open" /\ publicationStatus' = "closed"
    BY <1>s, <2>1, <2>2, StatusCases, StatusCasesNext
  <2>5. Publication!Close
    BY <2>1, <2>3, <2>4 DEF Publication!Close
  <2>6. QED
    BY <2>5 DEF Publication!Next
<1>4. QED
  BY <1>1, <1>2, <1>3

\* The cleanup discards the engine's own content, or past the commit the
\* displaced originals, and nothing else.
LEMMA DiscardSteps ==
  ASSUME JInv, JInv', RemoveStagedLeaf
  PROVE  Publication!Next
<1>s. EvidenceAgrees /\ EvidenceAgrees' /\ TreeInv
  BY DEF JInv
<1>1. PICK i \in Targets : staged[i] # "absent" /\ Discardable(i)
                           /\ staged' = [staged EXCEPT ![i] = "absent"]
  BY DEF RemoveStagedLeaf, Occupied
<1>2. pc = "leaves" /\ UNCHANGED <<target, journal, manifest>>
  BY DEF RemoveStagedLeaf, tree, records
<1>3. journal.state \notin {"NONE", "ROLLED_BACK"}
  BY <1>2 DEF JInv, RecordsInv, PreparingInv, PreparationSteps
<1>4. CASE committed
  <2>1. manifest
    BY <1>2, <1>4 DEF JInv, IInv, CommitInv, CleanupSteps
  <2>2. staged[i] = Original(i)
    BY <1>1, <1>s, <2>1 DEF TreeInv
  <2>3. staged[i] = "before"
    BY <1>1, <1>4, <2>2 DEF Discardable, Original
  <2>4. publicationStatus = "committed" /\ publicationStatus' = "committed"
    BY <1>s, <1>2, <2>1, StatusCases, StatusCasesNext
  <2>5. Publication!Discard(i)
    BY <1>1, <1>2, <2>3, <2>4 DEF Publication!Discard
  <2>6. QED
    BY <2>5 DEF Publication!Next
<1>5. CASE ~committed
  <2>1. ~manifest /\ staged[i] = "after"
    BY <1>1, <1>2, <1>5 DEF JInv, RecordsInv, RollbackInv, CleanupSteps, Discardable
  <2>2. publicationStatus = "open" /\ publicationStatus' = "open"
    BY <1>s, <1>2, <1>3, <2>1, StatusCases, StatusCasesNext
  <2>3. Publication!Discard(i)
    BY <1>1, <1>2, <2>1, <2>2 DEF Publication!Discard
  <2>4. QED
    BY <2>3 DEF Publication!Next
<1>6. QED
  BY <1>4, <1>5

\* The owner changes leaves and never a slot or a record.
LEMMA OwnerSteps ==
  ASSUME JInv, JInv', Owner
  PROVE  Publication!Next
<1>t. /\ target \in [Targets -> Content] /\ target' \in [Targets -> Content]
  BY TypedTree DEF JInv, IInv, TypeOK, TreeOK
<1>1. \A i \in Targets : target'[i] = target[i] \/ target'[i] \in {"absent"} \cup UserVersions
  <2>1. ASSUME NEW j \in Targets, OwnerWrites(j) \/ OwnerDeletes(j)
        PROVE  \A i \in Targets : target'[i] = target[i]
                                  \/ target'[i] \in {"absent"} \cup UserVersions
    BY <1>t, <2>1 DEF OwnerWrites, OwnerDeletes
  <2>2. ASSUME NEW d \in Dirs, OwnerRemovesTree(d)
        PROVE  \A i \in Targets : target'[i] = target[i]
                                  \/ target'[i] \in {"absent"} \cup UserVersions
    BY <2>2 DEF OwnerRemovesTree
  <2>3. ASSUME NEW d \in Dirs, OwnerMakesDirectory(d) \/ OwnerAddsFile(d)
        PROVE  target' = target
    BY <2>3 DEF OwnerMakesDirectory, OwnerAddsFile
  <2>4. QED
    BY <2>1, <2>2, <2>3 DEF Owner
<1>2. UNCHANGED <<staged, publicationStatus>>
  <2>1. UNCHANGED <<staged, records>>
    BY DEF Owner, OwnerWrites, OwnerDeletes, OwnerMakesDirectory, OwnerAddsFile,
           OwnerRemovesTree, engine, private
  <2>2. QED
    BY <2>1 DEF publicationStatus, records
<1>3. Publication!OwnerChanges
  BY <1>t, <1>1, <1>2 DEF Publication!OwnerChanges, Content
<1>4. QED
  BY <1>3 DEF Publication!Next

\* Between the seal and the manifest record the transaction is open.
LEMMA OpenBoth ==
  ASSUME JInv, JInv', pc \in ForwardSteps \cup RollbackSteps, manifest' = manifest,
         pc' \notin {"idle"} \cup PreparationSteps \/ journal'.state = "ROLLBACK_INCOMPLETE"
  PROVE  publicationStatus = "open" /\ publicationStatus' = "open"
<1>1. ~manifest /\ journal.state \notin {"NONE", "ROLLED_BACK"}
  BY BeforeCommit
<1>2. journal'.state \notin {"NONE", "ROLLED_BACK"}
  BY DEF JInv, RecordsInv, PreparingInv
<1>3. QED
  BY <1>1, <1>2, StatusCases, StatusCasesNext DEF JInv

\* On the way forward only the leaf that is intended trades places.
LEMMA ForwardPublication ==
  ASSUME JInv, JInv',
         \/ PublishBase \/ StartApplying \/ IntendDirectory \/ MoveDirectory
         \/ RecordDirectory \/ IntendLeaf \/ MoveLeaf \/ RecordLeaf
         \/ StartValidating \/ PublishReceipt \/ ApplyRaises
  PROVE  Publication!Next \/ Unseen
<1>1. /\ pc \in ForwardSteps /\ pc' \in ForwardSteps \cup {"rollback"}
      /\ manifest' = manifest
  BY DEF PublishBase, StartApplying, IntendDirectory, MoveDirectory, RecordDirectory,
         IntendLeaf, MoveLeaf, RecordLeaf, StartValidating, PublishReceipt, ApplyRaises,
         ForwardSteps, Goto, PersistState, PersistPending, Persist, records
<1>2. publicationStatus = "open" /\ publicationStatus' = "open"
  BY <1>1, OpenBoth DEF ForwardSteps, PreparationSteps
<1>3. CASE MoveLeaf
  <2>1. cursor \in Targets /\ Exchange(cursor)
    BY <1>3 DEF MoveLeaf, JInv, IInv, ControlInv
  <2>2. QED
    BY <1>2, <2>1, TradeStep
<1>4. CASE ~MoveLeaf
  <2>1. UNCHANGED <<target, staged>>
    BY <1>4
    DEF PublishBase, StartApplying, IntendDirectory, MoveDirectory, RecordDirectory,
        IntendLeaf, RecordLeaf, StartValidating, PublishReceipt, ApplyRaises, tree, private
  <2>2. QED
    BY <1>2, <2>1 DEF Unseen
<1>5. QED
  BY <1>3, <1>4

\* In a rollback only the leaf that is pending trades places or, once it has been
\* verified in its slot, is discarded.
LEMMA RollbackPublication ==
  ASSUME JInv, JInv', RollbackMoves
  PROVE  Publication!Next \/ Unseen
<1> DEFINE i == journal.pending.at
<1>1. pc \in RollbackSteps /\ manifest' = manifest
  BY RollbackMoveFrom
<1>2. pc' \in RollbackSteps \/ journal'.state = "ROLLBACK_INCOMPLETE"
  <2>1. RollbackFails => journal'.state = "ROLLBACK_INCOMPLETE"
    BY DEF RollbackFails, PersistState, Persist
  <2>2. CASE StartRollback \/ ReconcileForward \/ ReconcileRollback
               \/ WithdrawLeaf \/ LeavesWithdrawn \/ ExchangeBack
    BY <2>1, <2>2
    DEF StartRollback, ReconcileForward, ReconcileRollback, Reconciled, WithdrawLeaf,
        LeavesWithdrawn, ExchangeBack, RollbackSteps, Goto
  <2>3. CASE Quarantine \/ QuarantineMove \/ QuarantineVerify \/ RecordBack
    BY <2>1, <2>3
    DEF Quarantine, QuarantineMove, QuarantineVerify, RecordBack, RollbackSteps, Goto
  <2>4. CASE RemoveDirectory \/ Rmdir \/ RecordRmdir \/ DirectoriesRemoved
               \/ DropReceipt \/ DropPending
    BY <2>1, <2>4
    DEF RemoveDirectory, Rmdir, RecordRmdir, DirectoriesRemoved, DropReceipt, DropPending,
        RollbackSteps, Goto, control
  <2>5. QED
    BY <2>2, <2>3, <2>4 DEF RollbackMoves
<1>3. publicationStatus = "open" /\ publicationStatus' = "open"
  BY <1>1, <1>2, OpenBoth DEF RollbackSteps, PreparationSteps
<1>4. CASE ExchangeBack \/ QuarantineMove \/ QuarantineVerify
  <2>1. i \in Targets
    BY <1>4, TypedTree DEF ExchangeBack, QuarantineMove, QuarantineVerify, QuarantineSteps
  <2>2. \/ Exchange(i) \/ UNCHANGED <<tree, private>>
        \/ /\ staged[i] = "after" /\ staged' = [staged EXCEPT ![i] = "absent"]
           /\ UNCHANGED target
    BY <1>4 DEF ExchangeBack, QuarantineMove, QuarantineVerify, QuarantinedExact, tree
  <2>3. CASE Exchange(i)
    BY <1>3, <2>1, <2>3, TradeStep
  <2>4. CASE UNCHANGED <<tree, private>>
    BY <1>3, <2>4 DEF Unseen, tree, private
  <2>5. CASE /\ staged[i] = "after" /\ staged' = [staged EXCEPT ![i] = "absent"]
             /\ UNCHANGED target
    <3>1. Publication!Discard(i)
      BY <1>3, <2>5 DEF Publication!Discard
    <3>2. QED
      BY <2>1, <3>1 DEF Publication!Next
  <2>6. QED
    BY <2>2, <2>3, <2>4, <2>5
<1>5. CASE ~(ExchangeBack \/ QuarantineMove \/ QuarantineVerify)
  <2>1. UNCHANGED <<target, staged>>
    BY <1>5
    DEF RollbackMoves, StartRollback, ReconcileForward, ReconcileRollback, WithdrawLeaf,
        LeavesWithdrawn, Quarantine, RecordBack, RemoveDirectory, Rmdir, RecordRmdir,
        DirectoriesRemoved, DropReceipt, DropPending, tree, private
  <2>2. QED
    BY <1>3, <2>1 DEF Unseen
<1>6. QED
  BY <1>4, <1>5

\* Halting is not seen: the journal is marked, never closed.
LEMMA HaltUnseen ==
  ASSUME JInv, JInv', Halt, UNCHANGED <<tree, private>>
  PROVE  Unseen
<1>1. UNCHANGED <<target, staged, manifest>>
  BY DEF Halt, tree, private
<1>2. CASE manifest
  BY <1>1, <1>2, StatusCases, StatusCasesNext DEF JInv, Unseen
<1>3. CASE ~manifest /\ journal'.state = journal.state
  BY <1>1, <1>3 DEF publicationStatus, Unseen
<1>4. CASE ~manifest /\ journal'.state # journal.state
  <2>1. journal.state \notin {"NONE", "ROLLED_BACK"} /\ journal'.state \notin {"NONE", "ROLLED_BACK"}
    BY <1>4 DEF Halt, JInv, RecordsInv, PreparingInv
  <2>2. QED
    BY <1>1, <1>4, <2>1, StatusCases, StatusCasesNext DEF JInv, Unseen
<1>5. QED
  BY <1>2, <1>3, <1>4

\* The remaining steps of preparation, commit and cleanup are not seen.
LEMMA OtherUnseen ==
  ASSUME JInv, JInv',
         \/ BeginApply \/ SealPreparation \/ CommitJournal
         \/ EvidenceDropped \/ RemoveStaging \/ RemoveStagedDirectory
         \/ RemoveDirectories \/ StartRecovery
         \/ Quiesce \/ RefusePreparation \/ UNCHANGED vars
  PROVE  Unseen
<1>1. UNCHANGED <<target, staged>>
  BY DEF BeginApply, SealPreparation, CommitJournal, EvidenceDropped, RemoveStaging,
         RemoveStagedDirectory, RemoveDirectories, StartRecovery, Quiesce,
         RefusePreparation, vars, tree, private
<1>2. CASE BeginApply
  <2>1. /\ ~manifest /\ ~manifest' /\ journal.state \in {"NONE", "ROLLED_BACK"}
        /\ journal'.state = "NONE"
    BY <1>2 DEF BeginApply, MayBegin, EmptyJournal, JInv, RecordsInv, PreparingInv
  <2>2. QED
    BY <1>1, <2>1, StatusCases, StatusCasesNext DEF JInv, Unseen
<1>3. CASE CommitJournal
  <2>1. manifest /\ manifest'
    BY <1>3 DEF CommitJournal, PersistState, Persist, JInv, IInv, CommitInv
  <2>2. QED
    BY <1>1, <2>1, StatusCases, StatusCasesNext DEF JInv, Unseen
<1>4. CASE ~(BeginApply \/ CommitJournal)
  <2>1. UNCHANGED <<journal, manifest>>
    BY <1>4
    DEF SealPreparation, EvidenceDropped, RemoveStaging, RemoveStagedDirectory,
        RemoveDirectories, StartRecovery, Quiesce, RefusePreparation, vars, records
  <2>2. QED
    BY <1>1, <2>1 DEF publicationStatus, Unseen
<1>5. QED
  BY <1>2, <1>3, <1>4

\* Every step is a step of the abstract specification or is not seen by it.
LEMMA PublicationStep ==
  ASSUME JInv, JInv', [Next]_vars
  PROVE  [Publication!Next]_(Publication!vars)
<1>1. CASE StageContents \/ PublishManifest \/ FinishRollback
  BY <1>1, StatusSteps
<1>2. CASE \/ PublishBase \/ StartApplying \/ IntendDirectory \/ MoveDirectory
           \/ RecordDirectory \/ IntendLeaf \/ MoveLeaf \/ RecordLeaf
           \/ StartValidating \/ PublishReceipt \/ ApplyRaises
  BY <1>2, ForwardPublication, UnseenStutters
<1>3. CASE RollbackMoves
  BY <1>3, RollbackPublication, UnseenStutters
<1>4. CASE RemoveStagedLeaf
  BY <1>4, DiscardSteps
<1>5. CASE Owner
  BY <1>5, OwnerSteps
<1>6. CASE \/ PreparationRaises \/ ManifestUnreadable \/ CommitJournalRaises
           \/ CleanupRaises \/ RollbackRaises \/ RecoveryManifestUnreadable
           \/ FinishCommit \/ Crash
  BY <1>6, HaltingSteps, HaltUnseen, UnseenStutters
<1>7. CASE RecoverCommitted
  <2>1. CASE UNCHANGED records
    BY <1>7, <2>1, UnseenStutters
    DEF RecoverCommitted, Unseen, publicationStatus, tree, private, records
  <2>2. CASE MarkUnlessCommitted
    <3>1. Halt /\ UNCHANGED <<tree, private>>
      BY <1>7, <2>2, MarkHalts DEF RecoverCommitted, PreparationSteps
    <3>2. QED
      BY <3>1, HaltUnseen, UnseenStutters
  <2>3. QED
    BY <1>7, <2>1, <2>2 DEF RecoverCommitted
<1>8. CASE \/ BeginApply \/ SealPreparation \/ CommitJournal
           \/ EvidenceDropped \/ RemoveStaging \/ RemoveStagedDirectory
           \/ RemoveDirectories \/ StartRecovery
           \/ Quiesce \/ RefusePreparation \/ UNCHANGED vars
  BY <1>8, OtherUnseen, UnseenStutters
<1>9. QED
  BY <1>1, <1>2, <1>3, <1>4, <1>5, <1>6, <1>7, <1>8, StepKinds

\* The transaction keeps the promise of ContentPublication: whatever crashes,
\* errors and edits fall between its steps, contents are only traded or discarded
\* as promised, and the plan is committed or closed as a whole.
THEOREM PublicationImplemented == Spec => PublicationSpec
<1>1. Init => Publication!Init
  <2> SUFFICES ASSUME Init PROVE Publication!Init
    OBVIOUS
  <2>1. ~manifest /\ journal.state = "NONE"
    BY DEF Init, EmptyJournal
  <2>2. publicationStatus = "closed"
    BY <2>1 DEF publicationStatus
  <2>3. QED
    BY <2>2 DEF Init, Publication!Init
<1>2. JInv /\ JInv' /\ [Next]_vars => [Publication!Next]_(Publication!vars)
  BY PublicationStep
<1>3. QED
  BY <1>1, <1>2, JournalInvariant, PTL DEF Spec, PublicationSpec, Publication!Spec
=============================================================================
