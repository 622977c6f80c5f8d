---------------------- MODULE ContentTransactionProofs ----------------------
(***************************************************************************)
(* Proofs about ContentTransaction for every plan, every set of owner      *)
(* contents and every environment.                                         *)
(***************************************************************************)
EXTENDS ContentTransaction, TLAPS

\* What the control point says about the mutation index and the pending
\* action; without it neither the types nor the slots are inductive.
ControlInv ==
  /\ pc \in {"stage", "seal", "base", "applying", "moveDirectory",
             "recordDirectory", "moveLeaf", "recordLeaf"} => cursor \in Targets
  /\ pc = "next" => cursor \in 1..(N + 1)
  /\ pc \in {"moveDirectory", "recordDirectory", "rmdir", "recordRmdir"} =>
       journal.pending.what = "directory"
  /\ pc \in {"exchangeBack", "recordBack"} \cup QuarantineSteps =>
       journal.pending.what = "leaf"
  /\ pc = "reconcile" => journal.pending # NoPending

\* Private slots exist only inside "staging", which is there only between the
\* preparation of an attempt and its cleanup.
SlotInv ==
  /\ ~stagingRoot => \A i \in Targets : staged[i] = "absent"
  /\ pc \in PreparationSteps => prep = "preparing"
  /\ prep = "none" => ~stagingRoot
  /\ journal.state = "ROLLED_BACK" => ~stagingRoot
  /\ pc \in {"stage", "directories", "finish"} => ~stagingRoot

\* The commit branch of the cleanup is entered only past the commit point.
CommitInv ==
  /\ pc \in {"commitJournal", "commitCheck"} => manifest
  /\ pc \in CleanupSteps \cup {"finish"} /\ committed => manifest

IInv == TypeOK /\ ControlInv /\ SlotInv /\ CommitInv /\ OwnerContentKept

JournalStates == {"NONE"} \cup Unfinished \cup Terminal

\* A checkpoint built from typed parts leaves the records typed.
LEMMA PersistTyped ==
  ASSUME NEW s \in JournalStates, NEW a \in SUBSET Targets,
         NEW c \in SUBSET Dirs, NEW p \in PendingActions,
         RecordsOK, Persist(s, a, c, p)
  PROVE  RecordsOK'
  BY DEF RecordsOK, Persist, Checkpoints, JournalStates

\* The parts of a typed journal.
LEMMA JournalParts ==
  ASSUME RecordsOK
  PROVE  /\ journal.state \in JournalStates /\ journal.applied \in SUBSET Targets
         /\ journal.created \in SUBSET Dirs /\ journal.pending \in PendingActions
  BY DEF RecordsOK, Checkpoints, JournalStates

\* What a pending action names is a mutation or a missing directory.
LEMMA PendingTyped ==
  /\ NoPending \in PendingActions
  /\ \A w \in {"forward", "rollback"} :
       /\ \A i \in Targets : Pending(w, "leaf", i) \in PendingActions
       /\ \A d \in Dirs : Pending(w, "directory", d) \in PendingActions
  /\ \A p \in PendingActions :
       /\ p.what = "leaf" => p.at \in Targets
       /\ p.what = "directory" => p.at \in Dirs
       /\ p # NoPending => p.what \in {"leaf", "directory"}
  BY DEF PendingActions, NoPending, Pending

\* The journal states that the steps write.
LEMMA StateNames ==
  {"PREPARED", "APPLYING", "VALIDATING", "ROLLING_BACK", "RECOVERY_REQUIRED",
   "ROLLBACK_INCOMPLETE", "COMMITTED", "ROLLED_BACK"} \subseteq JournalStates
  BY DEF JournalStates, Unfinished, Terminal

\* Before the first apply every variable has its type.
LEMMA InitTyped == Init => TypeOK /\ ControlInv
<1> SUFFICES ASSUME Init PROVE TypeOK /\ ControlInv
  OBVIOUS
<1>1. TreeOK
  BY DEF Init, TreeOK, Original, Content
<1>2. SlotsOK
  BY DEF Init, SlotsOK, Content
<1>3. RecordsOK
  BY PendingTyped DEF Init, RecordsOK, EmptyJournal, Checkpoints
<1>4. ControlOK
  <2>1. "idle" \in PCs
    BY DEF PCs
  <2>2. 0 \in 0..(N + 1)
    BY PlanAssumption
  <2>3. QED
    BY <2>1, <2>2 DEF Init, ControlOK
<1>5. ControlInv
  BY DEF Init, ControlInv, QuarantineSteps
<1>6. QED
  BY <1>1, <1>2, <1>3, <1>4, <1>5 DEF TypeOK

\* Only renames, the removal of an empty directory and the owner change the tree.
LEMMA TreeTyped == TypeOK /\ ControlInv /\ [Next]_vars => TreeOK'
<1> SUFFICES ASSUME TypeOK, ControlInv, [Next]_vars PROVE TreeOK'
  OBVIOUS
<1>e. ASSUME NEW i \in Targets, Exchange(i) PROVE TreeOK'
  BY <1>e DEF TypeOK, TreeOK, SlotsOK, Exchange
<1>p. /\ pc \in {"exchangeBack"} \cup QuarantineSteps => journal.pending.at \in Targets
      /\ pc \in {"moveDirectory", "rmdir"} => journal.pending.at \in Dirs
  BY JournalParts, PendingTyped DEF TypeOK, ControlInv
<1>1. CASE MoveDirectory
  BY <1>1, <1>p DEF MoveDirectory, TypeOK, TreeOK
<1>2. CASE MoveLeaf
  BY <1>2, <1>e DEF MoveLeaf, ControlInv
<1>3. CASE ExchangeBack
  BY <1>3, <1>e, <1>p DEF ExchangeBack, TypeOK, TreeOK, tree
<1>4. CASE QuarantineMove
  BY <1>4, <1>e, <1>p DEF QuarantineMove, QuarantineSteps, TypeOK, TreeOK, tree
<1>5. CASE QuarantineVerify
  BY <1>5, <1>e, <1>p DEF QuarantineVerify, QuarantineSteps, TypeOK, TreeOK, tree
<1>6. CASE Rmdir
  BY <1>6, <1>p DEF Rmdir, TypeOK, TreeOK
<1>7. ASSUME NEW i \in Targets, OwnerWrites(i) \/ OwnerDeletes(i) PROVE TreeOK'
  BY <1>7 DEF OwnerWrites, OwnerDeletes, TypeOK, TreeOK, Content
<1>8. ASSUME NEW d \in Dirs, OwnerMakesDirectory(d) \/ OwnerAddsFile(d) PROVE TreeOK'
  BY <1>8 DEF OwnerMakesDirectory, OwnerAddsFile, TypeOK, TreeOK
<1>9. ASSUME NEW d \in Dirs, OwnerRemovesTree(d) PROVE TreeOK'
  BY <1>9 DEF OwnerRemovesTree, TypeOK, TreeOK, Content
<1>10. CASE Owner
  BY <1>7, <1>8, <1>9, <1>10 DEF Owner
<1>11. CASE UNCHANGED tree
  BY <1>11 DEF TypeOK, TreeOK, tree
<1>12. QED
  BY <1>1, <1>2, <1>3, <1>4, <1>5, <1>6, <1>10, <1>11
     DEF Next, Running, Apply, Rollback, Cleanup, Raises, vars, BeginApply,
         StageContents, SealPreparation, PublishBase, StartApplying,
         IntendDirectory, RecordDirectory, IntendLeaf, RecordLeaf,
         StartValidating, PublishReceipt, PublishManifest, CommitJournal,
         StartRollback, ReconcileForward, ReconcileRollback, WithdrawLeaf,
         LeavesWithdrawn, Quarantine, RecordBack, RemoveDirectory,
         RecordRmdir, DirectoriesRemoved, DropEvidence, DropReceipt,
        DropPending, EvidenceDropped, FinishRollback,
         RemoveStagedLeaf, RemoveStaging, RemoveStagedDirectory,
         RemoveDirectories, FinishCommit, PreparationRaises, ApplyRaises,
         ManifestUnreadable, CommitJournalRaises, CleanupRaises,
         RollbackRaises, RecoveryManifestUnreadable, RecoverCommitted,
         StartRecovery, RefusePreparation, Crash, Quiesce

\* The private slots hold leaves and staged directories of the plan only.
LEMMA SlotsTyped == TypeOK /\ ControlInv /\ [Next]_vars => SlotsOK'
<1> SUFFICES ASSUME TypeOK, ControlInv, [Next]_vars PROVE SlotsOK'
  OBVIOUS
<1>e. ASSUME NEW i \in Targets, Exchange(i) PROVE SlotsOK'
  BY <1>e DEF TypeOK, TreeOK, SlotsOK, Exchange
<1>p. pc \in {"exchangeBack"} \cup QuarantineSteps => journal.pending.at \in Targets
  BY JournalParts, PendingTyped DEF TypeOK, ControlInv
<1>1. CASE StageContents
  BY <1>1 DEF StageContents, SlotsOK, Content
<1>2. CASE MoveDirectory
  BY <1>2 DEF MoveDirectory, TypeOK, SlotsOK
<1>3. CASE MoveLeaf
  BY <1>3, <1>e DEF MoveLeaf, ControlInv
<1>4. CASE ExchangeBack
  BY <1>4, <1>e, <1>p DEF ExchangeBack, TypeOK, SlotsOK, private
<1>5. CASE QuarantineMove
  BY <1>5, <1>e, <1>p DEF QuarantineMove, QuarantineSteps, TypeOK, SlotsOK, private
<1>6. CASE QuarantineVerify
  BY <1>6, <1>e, <1>p
  DEF QuarantineVerify, QuarantineSteps, TypeOK, SlotsOK, Content, private
<1>7. CASE RemoveStagedLeaf
  BY <1>7 DEF RemoveStagedLeaf, Occupied, TypeOK, SlotsOK, Content
<1>8. CASE RemoveStaging \/ RemoveStagedDirectory \/ RemoveDirectories
  BY <1>8
  DEF RemoveStaging, RemoveStagedDirectory, RemoveDirectories, TypeOK, SlotsOK
<1>9. CASE UNCHANGED private
  BY <1>9 DEF TypeOK, SlotsOK, private
<1>10. QED
  BY <1>1, <1>2, <1>3, <1>4, <1>5, <1>6, <1>7, <1>8, <1>9
     DEF Next, Running, Apply, Rollback, Cleanup, Raises, vars, engine,
         BeginApply, SealPreparation, PublishBase, StartApplying,
         IntendDirectory, RecordDirectory, IntendLeaf, RecordLeaf,
         StartValidating, PublishReceipt, PublishManifest, CommitJournal,
         StartRollback, ReconcileForward, ReconcileRollback, WithdrawLeaf,
         LeavesWithdrawn, Quarantine, RecordBack, RemoveDirectory, Rmdir,
         RecordRmdir, DirectoriesRemoved, DropEvidence, DropReceipt,
        DropPending, EvidenceDropped, FinishRollback,
         FinishCommit, PreparationRaises, ApplyRaises, ManifestUnreadable,
         CommitJournalRaises, CleanupRaises, RollbackRaises,
         RecoveryManifestUnreadable, RecoverCommitted, StartRecovery,
         RefusePreparation, Crash, Owner, Quiesce, OwnerWrites, OwnerDeletes,
         OwnerMakesDirectory, OwnerAddsFile, OwnerRemovesTree

\* Every checkpoint and evidence record written by any step is well formed.
LEMMA RecordsTyped == TypeOK /\ ControlInv /\ [Next]_vars => RecordsOK'
<1> SUFFICES ASSUME TypeOK, ControlInv, [Next]_vars PROVE RecordsOK'
  OBVIOUS
<1> USE JournalParts, PendingTyped, StateNames, PersistTyped
<1>s. ASSUME NEW s \in JournalStates, PersistState(s) PROVE RecordsOK'
  BY <1>s DEF PersistState, TypeOK
<1>q. ASSUME NEW p \in PendingActions, PersistPending(p) PROVE RecordsOK'
  BY <1>q DEF PersistPending, TypeOK
<1>f. CASE RollbackFails
  BY <1>s, <1>f DEF RollbackFails
<1>m. CASE MarkUnlessCommitted
  BY <1>s, <1>m DEF MarkUnlessCommitted, TypeOK, RecordsOK, records
<1>u. CASE UNCHANGED records
  BY <1>u DEF TypeOK, RecordsOK, records
<1>1. CASE BeginApply
  BY <1>1 DEF BeginApply, TypeOK, RecordsOK, EmptyJournal, Checkpoints
<1>2. CASE StageContents
  BY <1>2
  DEF StageContents, TypeOK, RecordsOK, EmptyJournal, Checkpoints, Unfinished
<1>3. CASE SealPreparation \/ PublishReceipt \/ PublishManifest
  BY <1>3 DEF SealPreparation, PublishReceipt, PublishManifest, TypeOK, RecordsOK
<1>4. CASE PublishBase
  BY <1>4 DEF PublishBase, TypeOK, RecordsOK, ControlInv
<1>5. CASE StartApplying \/ StartValidating \/ CommitJournal \/ StartRollback \/ ManifestUnreadable
  BY <1>5, <1>s
  DEF StartApplying, StartValidating, CommitJournal, StartRollback, ManifestUnreadable
<1>6. CASE IntendDirectory
  BY <1>6, <1>q DEF IntendDirectory
<1>7. CASE IntendLeaf
  <2>1. cursor \in Targets
    BY <1>7, PlanAssumption DEF IntendLeaf, ControlInv, Targets
  <2>2. QED
    BY <1>7, <1>q, <2>1 DEF IntendLeaf
<1>8. CASE RecordDirectory
  BY <1>8 DEF RecordDirectory, TypeOK, ControlInv
<1>9. CASE RecordLeaf
  BY <1>9 DEF RecordLeaf, TypeOK, ControlInv
<1>10. CASE ReconcileForward
  <2>1. ASSUME NEW a \in SUBSET Targets, NEW c \in SUBSET Dirs, Reconciled(a, c)
        PROVE  RecordsOK'
    BY <2>1 DEF Reconciled, TypeOK
  <2>2. /\ journal.applied \cup {journal.pending.at} \in SUBSET Targets
             \/ journal.pending.what # "leaf"
        /\ journal.created \cup {journal.pending.at} \in SUBSET Dirs
             \/ journal.pending.what # "directory"
    BY DEF TypeOK
  <2>3. QED
    BY <1>10, <1>f, <2>1, <2>2 DEF ReconcileForward, TypeOK
<1>11. CASE ReconcileRollback
  <2>1. ASSUME NEW a \in SUBSET Targets, NEW c \in SUBSET Dirs, Reconciled(a, c)
        PROVE  RecordsOK'
    BY <2>1 DEF Reconciled, TypeOK
  <2>2. /\ journal.applied \ {journal.pending.at} \in SUBSET Targets
        /\ journal.created \ {journal.pending.at} \in SUBSET Dirs
    BY DEF TypeOK
  <2>3. QED
    BY <1>11, <1>u, <2>1, <2>2 DEF ReconcileRollback, TypeOK
<1>12. CASE WithdrawLeaf
  BY <1>12, <1>f, <1>q DEF WithdrawLeaf, TypeOK
<1>13. CASE ExchangeBack \/ Quarantine \/ QuarantineVerify
  BY <1>13, <1>f, <1>u DEF ExchangeBack, Quarantine, QuarantineVerify, records
<1>14. CASE RecordBack
  <2>1. journal.applied \ {journal.pending.at} \in SUBSET Targets
    BY DEF TypeOK
  <2>2. QED
    BY <1>14, <1>f, <2>1 DEF RecordBack, TypeOK
<1>15. CASE RemoveDirectory
  BY <1>15, <1>f, <1>q DEF RemoveDirectory, TypeOK
<1>16. CASE RecordRmdir
  <2>1. journal.created \ {journal.pending.at} \in SUBSET Dirs
    BY DEF TypeOK
  <2>2. QED
    BY <1>16, <2>1 DEF RecordRmdir, TypeOK
<1>17. CASE DropEvidence
  BY <1>17
  DEF DropEvidence, DropReceipt, DropPending, EvidenceDropped, TypeOK, RecordsOK,
      records
<1>18. CASE FinishRollback
  BY <1>18 DEF FinishRollback, TypeOK
<1>19. CASE FinishCommit \/ CommitJournalRaises \/ RecoverCommitted \/ RecoveryManifestUnreadable
  BY <1>19, <1>s, <1>m, <1>u
  DEF FinishCommit, CommitJournalRaises, RecoverCommitted, RecoveryManifestUnreadable, records
<1>20. CASE ApplyRaises \/ Crash
  BY <1>20 DEF ApplyRaises, Crash, PendingEvidence, TypeOK, RecordsOK
<1>21. CASE CleanupRaises \/ RollbackRaises
  BY <1>21, <1>f, <1>s, <1>u DEF CleanupRaises, RollbackRaises
<1>22. QED
  BY <1>1, <1>2, <1>3, <1>4, <1>5, <1>6, <1>7, <1>8, <1>9, <1>10, <1>11, <1>12,
     <1>13, <1>14, <1>15, <1>16, <1>17, <1>18, <1>19, <1>20, <1>21, <1>u
     DEF Next, Running, Apply, Rollback, Cleanup, Raises, vars, engine,
         MoveDirectory, MoveLeaf, LeavesWithdrawn, QuarantineMove, Rmdir,
         DirectoriesRemoved, RemoveStagedLeaf, RemoveStaging,
         RemoveStagedDirectory, RemoveDirectories, PreparationRaises,
         StartRecovery, RefusePreparation, Owner, Quiesce, OwnerWrites,
         OwnerDeletes, OwnerMakesDirectory, OwnerAddsFile, OwnerRemovesTree

\* Every step leads to a named control point and keeps the index in range.
LEMMA ControlTyped == TypeOK /\ ControlInv /\ [Next]_vars => ControlOK'
<1> SUFFICES ASSUME TypeOK, ControlInv, [Next]_vars PROVE ControlOK'
  OBVIOUS
<1> DEFINE Outcomes == {"none", "committed", "rolled_back", "recovery_required",
                        "rollback_incomplete", "error"}
<1>c. /\ 1 \in 0..(N + 1)
      /\ cursor \in Targets => cursor + 1 \in 0..(N + 1)
  BY PlanAssumption DEF Targets
<1>g. ASSUME NEW p \in PCs, Goto(p) PROVE ControlOK'
  BY <1>g DEF Goto, TypeOK, ControlOK
<1>s. ASSUME NEW o \in Outcomes, Stop(o) PROVE ControlOK'
  <2>1. "idle" \in PCs
    BY DEF PCs
  <2>2. QED
    BY <1>s, <2>1 DEF Stop, TypeOK, ControlOK
<1>f. CASE RollbackFails
  BY <1>f, <1>s DEF RollbackFails
<1>r. ASSUME NEW a, NEW c, Reconciled(a, c) PROVE ControlOK'
  <2>1. "withdraw" \in PCs
    BY DEF PCs, RollbackSteps
  <2>2. QED
    BY <1>r, <1>g, <2>1 DEF Reconciled
<1>u. CASE UNCHANGED <<control, quiet>>
  BY <1>u DEF TypeOK, ControlOK, control
<1>1. CASE BeginApply
  <2>1. "stage" \in PCs
    BY DEF PCs, PreparationSteps
  <2>2. QED
    BY <1>1, <1>c, <2>1 DEF BeginApply, TypeOK, ControlOK
<1>2. CASE StageContents \/ SealPreparation \/ StartApplying \/ StartValidating
            \/ PublishReceipt \/ PublishManifest
  <2>1. {"seal", "base", "next", "receipt", "manifest", "commitJournal"} \subseteq PCs
    BY DEF PCs, PreparationSteps, ForwardSteps
  <2>2. QED
    BY <1>2, <1>g, <2>1
    DEF StageContents, SealPreparation, StartApplying, StartValidating,
        PublishReceipt, PublishManifest
<1>3. CASE PublishBase
  <2>1. {"base", "applying"} \subseteq PCs
    BY DEF PCs, ForwardSteps
  <2>2. cursor \in Targets
    BY <1>3 DEF PublishBase, ControlInv
  <2>3. QED
    BY <1>3, <1>c, <2>1, <2>2 DEF PublishBase, TypeOK, ControlOK
<1>4. CASE IntendDirectory \/ MoveDirectory \/ RecordDirectory
            \/ IntendLeaf \/ MoveLeaf
  <2>1. {"moveDirectory", "recordDirectory", "next", "moveLeaf", "recordLeaf"}
          \subseteq PCs
    BY DEF PCs, ForwardSteps
  <2>2. QED
    BY <1>4, <1>g, <2>1
    DEF IntendDirectory, MoveDirectory, RecordDirectory, IntendLeaf, MoveLeaf
<1>5. CASE RecordLeaf
  <2>1. "next" \in PCs
    BY DEF PCs, ForwardSteps
  <2>2. cursor \in Targets
    BY <1>5 DEF RecordLeaf, ControlInv
  <2>3. QED
    BY <1>5, <1>c, <2>1, <2>2 DEF RecordLeaf, TypeOK, ControlOK
<1>6. CASE CommitJournal \/ DropEvidence \/ StartRecovery \/ Crash \/ Quiesce
  <2>1. {"idle", "leaves", "commitCheck", "rollback", "dropPending"} \subseteq PCs
    BY DEF PCs, CleanupSteps, RollbackSteps
  <2>2. QED
    BY <1>6, <2>1
    DEF CommitJournal, DropEvidence, DropReceipt,
        DropPending, EvidenceDropped, StartRecovery, Crash, Quiesce,
        Goto, control, TypeOK, ControlOK
<1>7. CASE StartRollback \/ LeavesWithdrawn \/ Rmdir \/ RecordRmdir
            \/ DirectoriesRemoved \/ RemoveStaging \/ RemoveDirectories \/ ApplyRaises
  <2>1. {"withdraw", "reconcile", "emptyDirectories", "recordRmdir", "dropReceipt",
         "directories", "finish", "rollback"} \subseteq PCs
    BY DEF PCs, RollbackSteps, CleanupSteps
  <2>2. QED
    BY <1>7, <1>g, <2>1
    DEF StartRollback, LeavesWithdrawn, Rmdir, RecordRmdir, DirectoriesRemoved,
        RemoveStaging, RemoveDirectories, ApplyRaises
<1>8. CASE ReconcileForward \/ ReconcileRollback
  <2>1. "quarantine" \in PCs
    BY DEF PCs, RollbackSteps
  <2>2. QED
    BY <1>8, <1>f, <1>g, <1>r, <2>1 DEF ReconcileForward, ReconcileRollback
<1>9. CASE WithdrawLeaf \/ ExchangeBack \/ Quarantine \/ QuarantineMove
            \/ QuarantineVerify \/ RecordBack \/ RemoveDirectory
  <2>1. {"quarantine", "exchangeBack", "quarantineMove", "quarantineVerify",
         "recordBack", "withdraw", "rmdir"} \subseteq PCs
    BY DEF PCs, RollbackSteps
  <2>2. QED
    BY <1>9, <1>f, <1>g, <2>1
    DEF WithdrawLeaf, ExchangeBack, Quarantine, QuarantineMove, QuarantineVerify,
        RecordBack, RemoveDirectory
<1>10. CASE FinishRollback \/ FinishCommit \/ PreparationRaises \/ ManifestUnreadable
             \/ CommitJournalRaises \/ CleanupRaises \/ RollbackRaises
             \/ RecoveryManifestUnreadable
  BY <1>10, <1>f, <1>s
  DEF FinishRollback, FinishCommit, PreparationRaises, ManifestUnreadable,
      CommitJournalRaises, CleanupRaises, RollbackRaises,
      RecoveryManifestUnreadable, MarkUnlessCommitted
<1>11. CASE RecoverCommitted
  <2>1. {"leaves", "finish"} \subseteq PCs
    BY DEF PCs, CleanupSteps
  <2>2. QED
    BY <1>11, <1>s, <2>1
    DEF RecoverCommitted, MarkUnlessCommitted, TypeOK, ControlOK
<1>12. CASE RefusePreparation
  BY <1>12 DEF RefusePreparation, TypeOK, ControlOK
<1>13. QED
  BY <1>1, <1>2, <1>3, <1>4, <1>5, <1>6, <1>7, <1>8, <1>9, <1>10, <1>11, <1>12,
     <1>u
     DEF Next, Running, Apply, Rollback, Cleanup, Raises, vars, engine,
         RemoveStagedLeaf, RemoveStagedDirectory, Owner, OwnerWrites,
         OwnerDeletes, OwnerMakesDirectory, OwnerAddsFile, OwnerRemovesTree

\* The control point never loses track of the index or of the pending action.
LEMMA ControlKept == TypeOK /\ ControlInv /\ [Next]_vars => ControlInv'
<1> SUFFICES ASSUME TypeOK, ControlInv, [Next]_vars PROVE ControlInv'
  OBVIOUS
<1> DEFINE Free == {"idle", "commitJournal", "commitCheck", "finish", "receipt",
                    "manifest", "rollback", "withdraw", "emptyDirectories",
                    "dropReceipt", "dropPending", "leaves", "directories"}
<1>a. pc' \in Free => ControlInv'
  BY DEF ControlInv, QuarantineSteps
<1>s. ASSUME NEW o, Stop(o) PROVE ControlInv'
  BY <1>s, <1>a DEF Stop
<1>f. CASE RollbackFails
  BY <1>f, <1>s DEF RollbackFails
<1>r. ASSUME NEW a, NEW c, Reconciled(a, c) PROVE ControlInv'
  BY <1>r, <1>a DEF Reconciled, Goto
<1>j. ASSUME journal' = journal, pc' = pc, cursor' = cursor PROVE ControlInv'
  BY <1>j DEF ControlInv
<1>n. 1 \in Targets /\ Targets \subseteq 1..(N + 1)
  BY PlanAssumption DEF Targets
<1>t. ASSUME NEW p \in {"seal", "base", "applying", "next", "moveLeaf", "recordLeaf"},
             pc' = p, cursor' \in Targets
      PROVE  ControlInv'
  BY <1>t, <1>n DEF ControlInv, QuarantineSteps
<1>d. ASSUME NEW p \in {"moveDirectory", "recordDirectory", "rmdir", "recordRmdir"},
             pc' = p, journal'.pending.what = "directory",
             p \in {"rmdir", "recordRmdir"} \/ cursor' \in Targets
      PROVE  ControlInv'
  BY <1>d DEF ControlInv, QuarantineSteps
<1>l. ASSUME NEW p \in {"exchangeBack", "recordBack"} \cup QuarantineSteps,
             pc' = p, journal'.pending.what = "leaf"
      PROVE  ControlInv'
  BY <1>l DEF ControlInv, QuarantineSteps
<1>1. CASE BeginApply
  BY <1>1, <1>n DEF BeginApply, ControlInv, QuarantineSteps
<1>2. CASE StageContents \/ SealPreparation
  BY <1>2, <1>t DEF StageContents, SealPreparation, Goto, ControlInv
<1>3. CASE PublishBase
  <2>1. cursor \in Targets
    BY <1>3 DEF PublishBase, ControlInv
  <2>2. cursor < N => cursor + 1 \in Targets
    BY <2>1, PlanAssumption DEF Targets
  <2>3. cursor' \in Targets
    BY <1>3, <1>n, <2>2 DEF PublishBase
  <2>4. pc' \in {"base", "applying"}
    BY <1>3 DEF PublishBase
  <2>5. QED
    BY <2>3, <2>4 DEF ControlInv, QuarantineSteps
<1>4. CASE StartApplying
  BY <1>4, <1>t DEF StartApplying, Goto, ControlInv
<1>5. CASE IntendDirectory
  <2>1. cursor' \in Targets
    BY <1>5, PlanAssumption DEF IntendDirectory, Goto, ControlInv, Targets
  <2>2. QED
    BY <1>5, <2>1, <1>d DEF IntendDirectory, PersistPending, Persist, Pending, Goto
<1>6. CASE MoveDirectory
  BY <1>6, <1>d DEF MoveDirectory, Goto, records, ControlInv
<1>7. CASE RecordDirectory
  <2>1. pc' = "next" /\ cursor' = cursor
    BY <1>7 DEF RecordDirectory, Goto
  <2>2. cursor \in 1..(N + 1)
    BY <1>7, <1>n DEF RecordDirectory, ControlInv
  <2>3. QED
    BY <2>1, <2>2 DEF ControlInv, QuarantineSteps
<1>8. CASE IntendLeaf
  <2>1. cursor \in Targets
    BY <1>8, PlanAssumption DEF IntendLeaf, ControlInv, Targets
  <2>2. QED
    BY <1>8, <2>1, <1>t DEF IntendLeaf, Goto
<1>9. CASE MoveLeaf
  BY <1>9, <1>t DEF MoveLeaf, Goto, ControlInv
<1>10. CASE RecordLeaf
  <2>1. cursor \in Targets
    BY <1>10 DEF RecordLeaf, ControlInv
  <2>2. cursor + 1 \in 1..(N + 1)
    BY <2>1, PlanAssumption DEF Targets
  <2>3. pc' = "next" /\ cursor' = cursor + 1
    BY <1>10 DEF RecordLeaf
  <2>4. QED
    BY <2>2, <2>3 DEF ControlInv, QuarantineSteps
<1>11. CASE StartRollback
  <2>1. journal'.pending = journal.pending
    BY <1>11 DEF StartRollback, PersistState, Persist
  <2>2. pc' = IF journal.pending = NoPending THEN "withdraw" ELSE "reconcile"
    BY <1>11 DEF StartRollback, Goto
  <2>3. CASE journal.pending = NoPending
    BY <2>2, <2>3, <1>a
  <2>4. CASE journal.pending # NoPending
    BY <2>1, <2>2, <2>4 DEF ControlInv, QuarantineSteps
  <2>5. QED
    BY <2>3, <2>4
<1>12. CASE ReconcileForward
  BY <1>12, <1>f, <1>r DEF ReconcileForward
<1>13. CASE ReconcileRollback
  <2>1. journal.pending.what \in {"leaf", "directory"}
    BY <1>13, JournalParts, PendingTyped DEF ReconcileRollback, ControlInv, TypeOK
  <2>2. ASSUME Goto("quarantine"), UNCHANGED records, journal.pending.what = "leaf"
        PROVE  ControlInv'
    BY <2>2, <1>l DEF Goto, records, QuarantineSteps
  <2>3. QED
    BY <1>13, <1>r, <2>1, <2>2 DEF ReconcileRollback
<1>14. CASE WithdrawLeaf
  <2>1. ASSUME NEW i, NEW p \in {"quarantine", "exchangeBack"},
               PersistPending(Pending("rollback", "leaf", i)), Goto(p)
        PROVE  ControlInv'
    BY <2>1, <1>l DEF PersistPending, Persist, Pending, Goto, QuarantineSteps
  <2>2. QED
    BY <1>14, <1>f, <2>1 DEF WithdrawLeaf
<1>15. CASE ExchangeBack \/ Quarantine \/ QuarantineMove \/ QuarantineVerify
  <2>1. journal.pending.what = "leaf"
    BY <1>15
    DEF ExchangeBack, Quarantine, QuarantineMove, QuarantineVerify,
        ControlInv, QuarantineSteps
  <2>2. ASSUME NEW p \in {"recordBack"} \cup QuarantineSteps, Goto(p), UNCHANGED records
        PROVE  ControlInv'
    BY <2>1, <2>2, <1>l DEF Goto, records
  <2>3. CASE ExchangeBack
    BY <2>2, <2>3, <1>f DEF ExchangeBack
  <2>4. CASE Quarantine
    BY <2>2, <2>4, <1>f DEF Quarantine, QuarantineSteps
  <2>5. CASE QuarantineMove
    BY <2>2, <2>5 DEF QuarantineMove, QuarantineSteps
  <2>6. CASE QuarantineVerify
    BY <2>2, <2>6, <1>f DEF QuarantineVerify, records
  <2>7. QED
    BY <1>15, <2>3, <2>4, <2>5, <2>6
<1>16. CASE RecordBack
  BY <1>16, <1>a, <1>f DEF RecordBack, Goto
<1>17. CASE RemoveDirectory
  <2>1. ASSUME NEW d, PersistPending(Pending("rollback", "directory", d)), Goto("rmdir")
        PROVE  ControlInv'
    BY <2>1, <1>d DEF PersistPending, Persist, Pending, Goto
  <2>2. QED
    BY <1>17, <1>f, <2>1 DEF RemoveDirectory
<1>18. CASE Rmdir
  BY <1>18, <1>d DEF Rmdir, Goto, records, ControlInv
<1>19. CASE StartValidating \/ PublishReceipt \/ PublishManifest \/ CommitJournal
             \/ LeavesWithdrawn \/ RecordRmdir \/ DirectoriesRemoved \/ DropEvidence
             \/ RemoveStaging \/ RemoveDirectories \/ ApplyRaises \/ StartRecovery
             \/ Crash
  BY <1>19, <1>a
  DEF StartValidating, PublishReceipt, PublishManifest, CommitJournal,
      LeavesWithdrawn, RecordRmdir, DirectoriesRemoved, DropEvidence, DropReceipt,
        DropPending, EvidenceDropped,
      RemoveStaging, RemoveDirectories, ApplyRaises, StartRecovery, Crash, Goto,
      control
<1>20. CASE FinishRollback \/ FinishCommit \/ PreparationRaises \/ ManifestUnreadable
             \/ CommitJournalRaises \/ CleanupRaises \/ RollbackRaises
             \/ RecoveryManifestUnreadable
  BY <1>20, <1>s, <1>f
  DEF FinishRollback, FinishCommit, PreparationRaises, ManifestUnreadable,
      CommitJournalRaises, CleanupRaises, RollbackRaises,
      RecoveryManifestUnreadable, MarkUnlessCommitted
<1>21. CASE RecoverCommitted
  BY <1>21, <1>a, <1>s DEF RecoverCommitted, MarkUnlessCommitted
<1>22. CASE RemoveStagedLeaf \/ RemoveStagedDirectory \/ RefusePreparation
             \/ Owner \/ Quiesce \/ UNCHANGED vars
  BY <1>22, <1>j
  DEF RemoveStagedLeaf, RemoveStagedDirectory, RefusePreparation, Quiesce,
      Owner, OwnerWrites, OwnerDeletes, OwnerMakesDirectory, OwnerAddsFile,
      OwnerRemovesTree, engine, vars, records, control
<1>23. QED
  BY <1>1, <1>2, <1>3, <1>4, <1>5, <1>6, <1>7, <1>8, <1>9, <1>10, <1>11, <1>12,
     <1>13, <1>14, <1>15, <1>16, <1>17, <1>18, <1>19, <1>20, <1>21, <1>22
  DEF Next, Running, Apply, Rollback, Cleanup, Raises

\* The variables always have their types: no interleaving of the engine, its
\* recovery, crashes and the owner takes the index out of the plan, loses a
\* pending action, or lets the engine's own content count as the owner's.
THEOREM TypeCorrect == Spec => []TypeOK
<1>1. Init => TypeOK /\ ControlInv
  BY InitTyped
<1>2. TypeOK /\ ControlInv /\ [Next]_vars => TypeOK' /\ ControlInv'
  BY TreeTyped, SlotsTyped, RecordsTyped, ControlTyped, ControlKept DEF TypeOK
<1>3. QED
  BY <1>1, <1>2, PTL DEF Spec

\* A checkpoint moves neither the preparation nor the manifest record.
LEMMA PersistKeeps ==
  ASSUME NEW s, NEW a, NEW c, NEW p, Persist(s, a, c, p)
  PROVE  prep' = prep /\ manifest' = manifest /\ journal'.state = s
  BY DEF Persist

\* No step leaves a private slot without the "staging" directory around it.
LEMMA SlotKept ==
  TypeOK /\ ControlInv /\ SlotInv /\ [Next]_vars => SlotInv'
<1> SUFFICES ASSUME TypeOK, ControlInv, SlotInv, [Next]_vars PROVE SlotInv'
  OBVIOUS
<1> USE PersistKeeps
<1> DEFINE Inner == {"stage", "seal", "directories", "finish"}
           Calm  == UNCHANGED private /\ prep' = prep
           Kept  == journal'.state = "ROLLED_BACK" => journal.state = "ROLLED_BACK"
\* A step that leaves the slots alone, ends no rollback and enters no control
\* point that SlotInv speaks of.
<1>c. ASSUME Calm, Kept, pc' \notin Inner \/ pc' = pc PROVE SlotInv'
  BY <1>c DEF SlotInv, PreparationSteps, private
<1>s. ASSUME NEW s \in JournalStates \ {"ROLLED_BACK"}, PersistState(s)
      PROVE  prep' = prep /\ Kept
  BY <1>s DEF PersistState
<1>q. ASSUME NEW p, PersistPending(p) PROVE prep' = prep /\ Kept
  BY <1>q DEF PersistPending
<1>b. ASSUME NEW a, NEW c, NEW p, Persist("ROLLING_BACK", a, c, p)
      PROVE  prep' = prep /\ Kept
  BY <1>b
<1>f. RollbackFails => prep' = prep /\ Kept /\ pc' = "idle"
  <2>1. "ROLLBACK_INCOMPLETE" \in JournalStates \ {"ROLLED_BACK"}
    BY StateNames
  <2>2. QED
    BY <1>s, <2>1 DEF RollbackFails, Stop
<1>r. ASSUME NEW a, NEW c, Reconciled(a, c)
      PROVE  prep' = prep /\ Kept /\ pc' = "withdraw"
  BY <1>r, <1>b DEF Reconciled, Goto
<1>m. MarkUnlessCommitted => prep' = prep /\ Kept /\ pc' = "idle"
  <2>1. "RECOVERY_REQUIRED" \in JournalStates \ {"ROLLED_BACK"}
    BY StateNames
  <2>2. QED
    BY <1>s, <2>1 DEF MarkUnlessCommitted, Stop, records
<1>n. {"APPLYING", "VALIDATING", "ROLLING_BACK", "RECOVERY_REQUIRED", "COMMITTED"}
        \subseteq JournalStates \ {"ROLLED_BACK"}
  BY StateNames
<1>e. ASSUME NEW i \in Targets, Exchange(i), prep' = prep, Kept, pc' \notin Inner
      PROVE  SlotInv'
  BY <1>e DEF Exchange, SlotInv, PreparationSteps
<1>1. CASE BeginApply
  BY <1>1 DEF BeginApply, MayBegin, EmptyJournal, SlotInv, PreparationSteps, private
<1>2. CASE StageContents
  BY <1>2 DEF StageContents, Goto, EmptyJournal, SlotInv, PreparationSteps
<1>3. CASE SealPreparation
  BY <1>3 DEF SealPreparation, Goto, SlotInv, PreparationSteps, private
<1>4. CASE PublishBase \/ PublishReceipt \/ PublishManifest \/ DropEvidence \/ ApplyRaises
             \/ Crash \/ StartRecovery \/ RefusePreparation \/ Quiesce
  <2>1. Calm /\ Kept /\ (pc' \notin Inner \/ pc' = pc)
    BY <1>4
    DEF PublishBase, PublishReceipt, PublishManifest, DropEvidence, DropReceipt,
        DropPending, EvidenceDropped, ApplyRaises,
        Crash, StartRecovery, RefusePreparation, Quiesce, Goto, records, control
  <2>2. QED
    BY <2>1, <1>c
<1>5. CASE StartApplying \/ StartValidating \/ CommitJournal \/ StartRollback
             \/ ManifestUnreadable
  <2>1. Calm /\ Kept /\ pc' \notin Inner
    BY <1>5, <1>s, <1>n
    DEF StartApplying, StartValidating, CommitJournal, StartRollback,
        ManifestUnreadable, Goto, Stop
  <2>2. QED
    BY <2>1, <1>c
<1>6. CASE IntendDirectory \/ IntendLeaf
  <2>1. Calm /\ Kept /\ pc' \notin Inner
    BY <1>6, <1>q DEF IntendDirectory, IntendLeaf, Goto
  <2>2. QED
    BY <2>1, <1>c
<1>7. CASE RecordDirectory \/ RecordLeaf
  <2>1. Calm /\ Kept /\ pc' \notin Inner
    BY <1>7 DEF RecordDirectory, RecordLeaf, Goto
  <2>2. QED
    BY <2>1, <1>c
<1>8. CASE MoveDirectory
  BY <1>8 DEF MoveDirectory, Goto, SlotInv, PreparationSteps, records
<1>9. CASE MoveLeaf
  <2>1. cursor \in Targets
    BY <1>9 DEF MoveLeaf, ControlInv
  <2>2. QED
    BY <1>9, <1>e, <2>1 DEF MoveLeaf, Goto, records
<1>10. CASE ReconcileForward
  <2>1. Calm /\ Kept /\ pc' \notin Inner
    BY <1>10, <1>f, <1>r DEF ReconcileForward
  <2>2. QED
    BY <2>1, <1>c
<1>11. CASE ReconcileRollback
  <2>1. Calm /\ Kept /\ pc' \notin Inner
    BY <1>11, <1>r DEF ReconcileRollback, Goto, records
  <2>2. QED
    BY <2>1, <1>c
<1>12. CASE WithdrawLeaf \/ RemoveDirectory
  <2>1. Calm /\ Kept /\ pc' \notin Inner
    BY <1>12, <1>f, <1>q DEF WithdrawLeaf, RemoveDirectory, Goto
  <2>2. QED
    BY <2>1, <1>c
<1>13. CASE LeavesWithdrawn \/ Quarantine \/ Rmdir \/ DirectoriesRemoved
  <2>1. Calm /\ Kept /\ pc' \notin Inner
    BY <1>13, <1>f
    DEF LeavesWithdrawn, Quarantine, Rmdir, DirectoriesRemoved, Goto, records
  <2>2. QED
    BY <2>1, <1>c
<1>p. pc \in {"exchangeBack"} \cup QuarantineSteps => journal.pending.at \in Targets
  BY JournalParts, PendingTyped DEF TypeOK, ControlInv
<1>14. CASE ExchangeBack \/ QuarantineMove
  <2>1. prep' = prep /\ Kept /\ pc' \notin Inner
    BY <1>14, <1>f DEF ExchangeBack, QuarantineMove, Goto, records
  <2>2. journal.pending.at \in Targets
    BY <1>14, <1>p DEF ExchangeBack, QuarantineMove, QuarantineSteps
  <2>3. Exchange(journal.pending.at) \/ UNCHANGED private
    BY <1>14 DEF ExchangeBack, QuarantineMove
  <2>4. QED
    BY <1>c, <1>e, <2>1, <2>2, <2>3
<1>15. CASE QuarantineVerify
  <2> DEFINE i == journal.pending.at
  <2>1. i \in Targets
    BY <1>15, <1>p DEF QuarantineVerify, QuarantineSteps
  <2>2. prep' = prep /\ Kept /\ pc' \notin Inner
    BY <1>15, <1>f DEF QuarantineVerify, Goto, records
  <2>3. CASE staged' = [staged EXCEPT ![i] = "absent"] /\ stagingRoot' = stagingRoot
    BY <2>2, <2>3 DEF SlotInv, PreparationSteps, TypeOK, SlotsOK
  <2>4. QED
    BY <1>15, <1>c, <1>e, <2>1, <2>2, <2>3 DEF QuarantineVerify
<1>16. CASE RecordBack \/ RecordRmdir
  <2>1. Calm /\ Kept /\ pc' \notin Inner
    BY <1>16, <1>f, <1>b DEF RecordBack, RecordRmdir, Goto
  <2>2. QED
    BY <2>1, <1>c
<1>17. CASE FinishRollback
  BY <1>17 DEF FinishRollback, Stop, SlotInv, PreparationSteps, private
<1>18. CASE FinishCommit \/ CommitJournalRaises \/ PreparationRaises \/ CleanupRaises
              \/ RollbackRaises
  <2>1. Calm /\ Kept /\ pc' \notin Inner
    BY <1>18, <1>s, <1>n, <1>f
    DEF FinishCommit, CommitJournalRaises, PreparationRaises, CleanupRaises,
        RollbackRaises, Stop, records
  <2>2. QED
    BY <2>1, <1>c
<1>19. CASE RemoveStagedLeaf
  BY <1>19 DEF RemoveStagedLeaf, SlotInv, PreparationSteps, records, control
<1>20. CASE RemoveStaging
  <2>1. \A i \in Targets : staged'[i] = "absent"
    BY <1>20 DEF RemoveStaging, Occupied
  <2>2. QED
    BY <1>20, <2>1 DEF RemoveStaging, SlotInv, PreparationSteps, Goto, records
<1>21. CASE RemoveStagedDirectory
  BY <1>21 DEF RemoveStagedDirectory, SlotInv, PreparationSteps, records, control
<1>22. CASE RemoveDirectories
  BY <1>22 DEF RemoveDirectories, SlotInv, PreparationSteps, Goto, records
<1>23. CASE RecoverCommitted
  <2>1. CASE MarkUnlessCommitted
    BY <1>23, <2>1, <1>m, <1>c DEF RecoverCommitted
  <2>2. CASE ~MarkUnlessCommitted
    BY <1>23, <2>2
    DEF RecoverCommitted, SlotInv, PreparationSteps, private, records
  <2>3. QED
    BY <2>1, <2>2
<1>24. CASE RecoveryManifestUnreadable
  BY <1>24, <1>m, <1>c DEF RecoveryManifestUnreadable
<1>25. CASE Owner \/ UNCHANGED vars
  <2>1. Calm /\ Kept /\ pc' = pc
    BY <1>25
    DEF Owner, OwnerWrites, OwnerDeletes, OwnerMakesDirectory, OwnerAddsFile,
        OwnerRemovesTree, engine, vars, records, control
  <2>2. QED
    BY <2>1, <1>c
<1>26. QED
  BY <1>1, <1>2, <1>3, <1>4, <1>5, <1>6, <1>7, <1>8, <1>9, <1>10, <1>11, <1>12,
     <1>13, <1>14, <1>15, <1>16, <1>17, <1>18, <1>19, <1>20, <1>21, <1>22,
     <1>23, <1>24, <1>25
  DEF Next, Running, Apply, Rollback, Cleanup, Raises

\* A commit is never taken back: no step removes the manifest record.
LEMMA ManifestStays == [Next]_vars => (manifest => manifest')
<1> SUFFICES ASSUME [Next]_vars, manifest PROVE manifest'
  OBVIOUS
<1>p. ASSUME NEW s, NEW a, NEW c, NEW p, Persist(s, a, c, p) PROVE manifest' = manifest
  BY <1>p DEF Persist
<1>s. ASSUME NEW s, PersistState(s) PROVE manifest' = manifest
  BY <1>s, <1>p DEF PersistState
<1>q. ASSUME NEW p, PersistPending(p) PROVE manifest' = manifest
  BY <1>q, <1>p DEF PersistPending
<1>f. RollbackFails => manifest' = manifest
  BY <1>s DEF RollbackFails
<1>r. ASSUME NEW a, NEW c, Reconciled(a, c) PROVE manifest' = manifest
  BY <1>r, <1>p DEF Reconciled
<1>m. MarkUnlessCommitted => manifest' = manifest
  BY <1>s DEF MarkUnlessCommitted, records
<1>1. CASE BeginApply \/ Apply
  BY <1>1, <1>p, <1>s, <1>q
  DEF BeginApply, Apply, StageContents, SealPreparation, PublishBase,
      StartApplying, IntendDirectory, MoveDirectory, RecordDirectory,
      IntendLeaf, MoveLeaf, RecordLeaf, StartValidating, PublishReceipt,
      PublishManifest, CommitJournal, records
<1>2. CASE Rollback
  <2>1. CASE ReconcileForward \/ ReconcileRollback
    BY <2>1, <1>f, <1>r DEF ReconcileForward, ReconcileRollback, records
  <2>2. CASE WithdrawLeaf \/ ExchangeBack \/ Quarantine \/ QuarantineMove
               \/ QuarantineVerify
    BY <2>2, <1>f, <1>q
    DEF WithdrawLeaf, ExchangeBack, Quarantine, QuarantineMove, QuarantineVerify,
        records
  <2>3. CASE RecordBack \/ RemoveDirectory \/ Rmdir \/ RecordRmdir
    BY <2>3, <1>f, <1>p, <1>q DEF RecordBack, RemoveDirectory, Rmdir, RecordRmdir, records
  <2>4. QED
    BY <1>2, <2>1, <2>2, <2>3, <1>p, <1>s
    DEF Rollback, StartRollback, LeavesWithdrawn, DirectoriesRemoved, DropEvidence, DropReceipt,
        DropPending, EvidenceDropped,
        FinishRollback, records
<1>3. CASE Cleanup
  BY <1>3, <1>s
  DEF Cleanup, RemoveStagedLeaf, RemoveStaging, RemoveStagedDirectory,
      RemoveDirectories, FinishCommit, records
<1>4. CASE Raises
  BY <1>4, <1>s, <1>f, <1>m
  DEF Raises, PreparationRaises, ApplyRaises, ManifestUnreadable, CommitJournalRaises,
      CleanupRaises, RollbackRaises, RecoveryManifestUnreadable, records
<1>5. CASE RecoverCommitted \/ StartRecovery \/ RefusePreparation \/ Crash \/ Quiesce
  BY <1>5, <1>m
  DEF RecoverCommitted, StartRecovery, RefusePreparation, Crash, Quiesce, records
<1>6. CASE Owner \/ UNCHANGED vars
  BY <1>6
  DEF Owner, OwnerWrites, OwnerDeletes, OwnerMakesDirectory, OwnerAddsFile,
      OwnerRemovesTree, engine, vars, records
<1>7. QED
  BY <1>1, <1>2, <1>3, <1>4, <1>5, <1>6 DEF Next, Running

\* The cleanup that gives up displaced originals runs past the commit only.
LEMMA CommitKept == CommitInv /\ [Next]_vars => CommitInv'
<1> SUFFICES ASSUME CommitInv, [Next]_vars PROVE CommitInv'
  OBVIOUS
<1> DEFINE After == {"commitJournal", "commitCheck", "finish"} \cup CleanupSteps
<1>k. manifest => manifest'
  BY ManifestStays
\* Away from the cleanup and the commit, or with the same argument as before.
<1>a. pc' \notin After => CommitInv'
  BY DEF CommitInv
<1>c. ASSUME pc' \in CleanupSteps \cup {"finish"}, pc \in CleanupSteps \cup {"finish"},
             committed' = committed
      PROVE  CommitInv'
  BY <1>c, <1>k DEF CommitInv, CleanupSteps
<1>u. ASSUME pc' = pc, committed' = committed PROVE CommitInv'
  BY <1>u, <1>k DEF CommitInv
<1>f. RollbackFails => pc' \notin After
  BY DEF RollbackFails, Stop, CleanupSteps
<1>m. MarkUnlessCommitted => pc' \notin After
  BY DEF MarkUnlessCommitted, Stop, CleanupSteps
<1>1. CASE PublishManifest \/ CommitJournal
  BY <1>1, <1>k
  DEF PublishManifest, CommitJournal, CommitInv, CleanupSteps, Goto
<1>2. CASE RecoverCommitted \/ StartRecovery
  BY <1>2, <1>a, <1>m, <1>k
  DEF RecoverCommitted, StartRecovery, CommitPoint, CommitInv, CleanupSteps
<1>3. CASE RemoveStaging \/ RemoveDirectories
  BY <1>3, <1>c DEF RemoveStaging, RemoveDirectories, Goto, CleanupSteps
<1>4. CASE DropEvidence
  BY <1>4, <1>a
  DEF DropEvidence, DropReceipt, DropPending, EvidenceDropped, CommitInv, Goto,
      CleanupSteps, control
<1>5. CASE BeginApply \/ StageContents \/ SealPreparation \/ PublishBase
             \/ StartApplying \/ StartValidating \/ PublishReceipt
  <2>1. pc' \notin After
    BY <1>5
    DEF BeginApply, StageContents, SealPreparation, PublishBase, StartApplying,
        StartValidating, PublishReceipt, Goto, CleanupSteps
  <2>2. QED
    BY <2>1, <1>a
<1>6. CASE IntendDirectory \/ MoveDirectory \/ RecordDirectory
             \/ IntendLeaf \/ MoveLeaf \/ RecordLeaf
  <2>1. pc' \notin After
    BY <1>6
    DEF IntendDirectory, MoveDirectory, RecordDirectory, IntendLeaf, MoveLeaf,
        RecordLeaf, Goto, CleanupSteps
  <2>2. QED
    BY <2>1, <1>a
<1>7. CASE StartRollback \/ ReconcileForward \/ ReconcileRollback
             \/ WithdrawLeaf \/ LeavesWithdrawn \/ ExchangeBack \/ Quarantine
  <2>1. pc' \notin After
    BY <1>7, <1>f
    DEF StartRollback, ReconcileForward, ReconcileRollback, Reconciled,
        WithdrawLeaf, LeavesWithdrawn, ExchangeBack, Quarantine, Goto, CleanupSteps
  <2>2. QED
    BY <2>1, <1>a
<1>8. CASE QuarantineMove \/ QuarantineVerify \/ RecordBack \/ RemoveDirectory
             \/ Rmdir \/ RecordRmdir \/ DirectoriesRemoved \/ FinishRollback
  <2>1. pc' \notin After
    BY <1>8, <1>f
    DEF QuarantineMove, QuarantineVerify, RecordBack, RemoveDirectory, Rmdir,
        RecordRmdir, DirectoriesRemoved, FinishRollback, Goto, Stop, CleanupSteps
  <2>2. QED
    BY <2>1, <1>a
<1>9. CASE Raises \/ FinishCommit \/ Crash
  <2>1. pc' \notin After
    BY <1>9, <1>f, <1>m
    DEF Raises, PreparationRaises, ApplyRaises, ManifestUnreadable,
        CommitJournalRaises, CleanupRaises, RollbackRaises,
        RecoveryManifestUnreadable, FinishCommit, Crash, Goto, Stop, CleanupSteps
  <2>2. QED
    BY <2>1, <1>a
<1>10. CASE RemoveStagedLeaf \/ RemoveStagedDirectory \/ RefusePreparation
              \/ Owner \/ Quiesce \/ UNCHANGED vars
  BY <1>10, <1>u
  DEF RemoveStagedLeaf, RemoveStagedDirectory, RefusePreparation, Quiesce, Owner,
      OwnerWrites, OwnerDeletes, OwnerMakesDirectory, OwnerAddsFile,
      OwnerRemovesTree, engine, vars, control
<1>11. QED
  BY <1>1, <1>2, <1>3, <1>4, <1>5, <1>6, <1>7, <1>8, <1>9, <1>10
  DEF Next, Running, Apply, Rollback, Cleanup

\* What the owner holds on path i is on the path or in its private slot.
Covered(i) ==
  owned[i] \ (IF manifest THEN {"before"} ELSE {}) \subseteq {target[i], staged[i]}

\* No single step destroys a content that the owner holds on a path.
LEMMA OwnerKept == IInv /\ [Next]_vars => OwnerContentKept'
<1> SUFFICES ASSUME IInv, [Next]_vars, NEW i \in Targets PROVE Covered(i)'
  BY DEF OwnerContentKept, Covered
<1>k. manifest => manifest'
  BY ManifestStays
<1>i. Covered(i)
  BY DEF IInv, OwnerContentKept, Covered
<1>t. /\ target[i] \in Content /\ staged[i] \in Content
      /\ target \in [Targets -> Content] /\ staged \in [Targets -> Content]
      /\ owned \in [Targets -> SUBSET ({"before"} \cup UserVersions)]
  BY DEF IInv, TypeOK, TreeOK, SlotsOK
\* Neither a free name nor the engine's own content is ever the owner's.
<1>w. "absent" \notin owned[i] /\ "after" \notin owned[i]
  BY <1>t, PlanAssumption
<1>u. ASSUME UNCHANGED <<target, staged, owned>> PROVE Covered(i)'
  BY <1>u, <1>i, <1>k DEF Covered
<1>e. ASSUME NEW j \in Targets, Exchange(j) PROVE Covered(i)'
  BY <1>e, <1>i, <1>k, <1>t DEF Covered, Exchange
<1>p. pc \in {"exchangeBack"} \cup QuarantineSteps => journal.pending.at \in Targets
  BY JournalParts, PendingTyped DEF IInv, TypeOK, ControlInv
<1>1. CASE StageContents
  <2>1. staged[i] = "absent"
    BY <1>1 DEF StageContents, IInv, SlotInv
  <2>2. QED
    BY <1>1, <1>i, <1>k, <1>w, <2>1 DEF StageContents, Covered, tree
<1>2. CASE MoveLeaf
  BY <1>2, <1>e DEF MoveLeaf, IInv, ControlInv
<1>3. CASE ExchangeBack \/ QuarantineMove
  <2>1. journal.pending.at \in Targets
    BY <1>3, <1>p DEF ExchangeBack, QuarantineMove, QuarantineSteps
  <2>2. Exchange(journal.pending.at) \/ UNCHANGED <<tree, private>>
    BY <1>3 DEF ExchangeBack, QuarantineMove
  <2>3. QED
    BY <1>e, <1>u, <2>1, <2>2 DEF tree, private
<1>4. CASE QuarantineVerify
  <2> DEFINE j == journal.pending.at
  <2>1. j \in Targets
    BY <1>4, <1>p DEF QuarantineVerify, QuarantineSteps
  <2>2. CASE /\ staged[j] = "after" /\ staged' = [staged EXCEPT ![j] = "absent"]
             /\ UNCHANGED tree
    BY <1>i, <1>k, <1>t, <1>w, <2>1, <2>2 DEF Covered, tree
  <2>3. QED
    BY <1>4, <1>e, <1>u, <2>1, <2>2
    DEF QuarantineVerify, QuarantinedExact, tree, private
<1>5. CASE RemoveStagedLeaf
  <2>1. PICK j \in Targets : /\ Discardable(j)
                             /\ staged' = [staged EXCEPT ![j] = "absent"]
    BY <1>5 DEF RemoveStagedLeaf, Occupied
  <2>2. staged[j] = "after" \/ (staged[j] = "before" /\ manifest)
    <3>1. committed => manifest
      BY <1>5 DEF RemoveStagedLeaf, IInv, CommitInv, CleanupSteps
    <3>2. Discardable(j)
      BY <2>1
    <3>3. QED
      BY <3>1, <3>2 DEF Discardable
  <2>3. UNCHANGED <<target, owned, manifest>>
    BY <1>5 DEF RemoveStagedLeaf, tree, records
  <2>4. QED
    BY <1>i, <1>t, <1>w, <2>1, <2>2, <2>3 DEF Covered
<1>6. ASSUME NEW j \in Targets, OwnerWrites(j) \/ OwnerDeletes(j) PROVE Covered(i)'
  BY <1>6, <1>i, <1>t
  DEF OwnerWrites, OwnerDeletes, Covered, engine, private, records
<1>7. ASSUME NEW d \in Dirs, OwnerRemovesTree(d) PROVE Covered(i)'
  BY <1>7, <1>i, <1>t DEF OwnerRemovesTree, Covered, engine, private, records
<1>8. CASE Owner
  BY <1>6, <1>7, <1>8, <1>u
  DEF Owner, OwnerMakesDirectory, OwnerAddsFile, engine, private
<1>9. CASE UNCHANGED <<tree, private>>
  BY <1>9, <1>u DEF tree, private
<1>10. CASE MoveDirectory \/ Rmdir \/ RemoveStaging \/ RemoveStagedDirectory
              \/ RemoveDirectories
  BY <1>10, <1>u
  DEF MoveDirectory, Rmdir, RemoveStaging, RemoveStagedDirectory,
      RemoveDirectories, tree, private
<1>11. QED
  BY <1>1, <1>2, <1>3, <1>4, <1>5, <1>8, <1>9, <1>10
     DEF Next, Running, Apply, Rollback, Cleanup, Raises, vars, BeginApply,
         SealPreparation, PublishBase, StartApplying, IntendDirectory,
         RecordDirectory, IntendLeaf, RecordLeaf, StartValidating,
         PublishReceipt, PublishManifest, CommitJournal, StartRollback,
         ReconcileForward, ReconcileRollback, WithdrawLeaf, LeavesWithdrawn,
         Quarantine, RecordBack, RemoveDirectory, RecordRmdir,
         DirectoriesRemoved, DropEvidence, DropReceipt,
        DropPending, EvidenceDropped, FinishRollback, FinishCommit,
         PreparationRaises, ApplyRaises, ManifestUnreadable,
         CommitJournalRaises, CleanupRaises, RollbackRaises,
         RecoveryManifestUnreadable, RecoverCommitted, StartRecovery,
         RefusePreparation, Crash, Quiesce

\* The invariant holds before the first apply.
LEMMA IInvInit == Init => IInv
<1> SUFFICES ASSUME Init PROVE IInv
  OBVIOUS
<1>1. TypeOK /\ ControlInv
  BY InitTyped
<1>2. SlotInv /\ CommitInv
  BY DEF Init, SlotInv, CommitInv, PreparationSteps, CleanupSteps
<1>3. OwnerContentKept
  BY DEF Init, OwnerContentKept, Original
<1>4. QED
  BY <1>1, <1>2, <1>3 DEF IInv

\* Every step keeps the invariant.
LEMMA IInvStep == IInv /\ [Next]_vars => IInv'
<1> SUFFICES ASSUME IInv, [Next]_vars PROVE IInv'
  OBVIOUS
<1>1. TypeOK' /\ ControlInv'
  BY TreeTyped, SlotsTyped, RecordsTyped, ControlTyped, ControlKept
  DEF IInv, TypeOK
<1>2. SlotInv' /\ CommitInv'
  BY SlotKept, CommitKept DEF IInv
<1>3. OwnerContentKept'
  BY OwnerKept
<1>4. QED
  BY <1>1, <1>2, <1>3 DEF IInv

\* No interleaving of an apply, its rollback or its recovery with crashes,
\* errors and edits destroys a content of the owner, for every plan and tree.
THEOREM OwnerContentSafe == Spec => []OwnerContentKept
<1>1. IInv => OwnerContentKept
  BY DEF IInv
<1>2. QED
  BY IInvInit, IInvStep, <1>1, PTL DEF Spec

\* Past the commit point the engine only cleans up, and a transaction that has
\* begun is never forgotten.
AfterCommit ==
  /\ pc # "idle" => prep # "none"
  /\ manifest =>
       /\ prep # "none"
       /\ pc \in {"idle", "commitJournal", "commitCheck", "finish"} \cup CleanupSteps

\* A transaction directory, once prepared, never goes away.
LEMMA PrepStays == [Next]_vars => prep' = prep \/ prep' # "none"
<1> SUFFICES ASSUME [Next]_vars PROVE prep' = prep \/ prep' # "none"
  OBVIOUS
<1>p. ASSUME NEW s, NEW a, NEW c, NEW p, Persist(s, a, c, p) PROVE prep' = prep
  BY <1>p DEF Persist
<1>s. ASSUME NEW s, PersistState(s) PROVE prep' = prep
  BY <1>s, <1>p DEF PersistState
<1>q. ASSUME NEW p, PersistPending(p) PROVE prep' = prep
  BY <1>q, <1>p DEF PersistPending
<1>f. RollbackFails => prep' = prep
  BY <1>s DEF RollbackFails
<1>r. ASSUME NEW a, NEW c, Reconciled(a, c) PROVE prep' = prep
  BY <1>r, <1>p DEF Reconciled
<1>m. MarkUnlessCommitted => prep' = prep
  BY <1>s DEF MarkUnlessCommitted, records
<1>1. CASE BeginApply \/ Apply
  BY <1>1, <1>p, <1>s, <1>q
  DEF BeginApply, Apply, StageContents, SealPreparation, PublishBase, StartApplying,
      IntendDirectory, MoveDirectory, RecordDirectory, IntendLeaf, MoveLeaf,
      RecordLeaf, StartValidating, PublishReceipt, PublishManifest, CommitJournal,
      records
<1>2. CASE Rollback
  <2>1. CASE ReconcileForward \/ ReconcileRollback
    BY <2>1, <1>f, <1>r DEF ReconcileForward, ReconcileRollback, records
  <2>2. CASE WithdrawLeaf \/ ExchangeBack \/ Quarantine \/ QuarantineMove
               \/ QuarantineVerify
    BY <2>2, <1>f, <1>q
    DEF WithdrawLeaf, ExchangeBack, Quarantine, QuarantineMove, QuarantineVerify,
        records
  <2>3. CASE RecordBack \/ RemoveDirectory \/ Rmdir \/ RecordRmdir
    BY <2>3, <1>f, <1>p, <1>q DEF RecordBack, RemoveDirectory, Rmdir, RecordRmdir, records
  <2>4. QED
    BY <1>2, <2>1, <2>2, <2>3, <1>p, <1>s
    DEF Rollback, StartRollback, LeavesWithdrawn, DirectoriesRemoved, DropEvidence, DropReceipt,
        DropPending, EvidenceDropped,
        FinishRollback, records
<1>3. CASE Cleanup
  BY <1>3, <1>s
  DEF Cleanup, RemoveStagedLeaf, RemoveStaging, RemoveStagedDirectory,
      RemoveDirectories, FinishCommit, records
<1>4. CASE Raises
  BY <1>4, <1>s, <1>f, <1>m
  DEF Raises, PreparationRaises, ApplyRaises, ManifestUnreadable, CommitJournalRaises,
      CleanupRaises, RollbackRaises, RecoveryManifestUnreadable, records
<1>5. CASE RecoverCommitted \/ StartRecovery \/ RefusePreparation \/ Crash \/ Quiesce
  BY <1>5, <1>m
  DEF RecoverCommitted, StartRecovery, RefusePreparation, Crash, Quiesce, records
<1>6. CASE Owner \/ UNCHANGED vars
  BY <1>6
  DEF Owner, OwnerWrites, OwnerDeletes, OwnerMakesDirectory, OwnerAddsFile,
      OwnerRemovesTree, engine, vars, records
<1>7. QED
  BY <1>1, <1>2, <1>3, <1>4, <1>5, <1>6 DEF Next, Running

\* Past the commit point only the owner changes the public tree, and the
\* engine stays past it.
LEMMA CommitStep ==
  AfterCommit /\ [Next]_vars =>
    /\ AfterCommit'
    /\ manifest => UNCHANGED <<target, dir>> \/ Owner
<1> SUFFICES ASSUME AfterCommit, [Next]_vars
             PROVE  /\ AfterCommit'
                    /\ manifest => UNCHANGED <<target, dir>> \/ Owner
  OBVIOUS
<1> DEFINE Late == {"idle", "commitJournal", "commitCheck", "finish"} \cup CleanupSteps
           Fixed == UNCHANGED <<target, dir>>
           Goal == AfterCommit' /\ (manifest => Fixed \/ Owner)
<1>x. prep' = prep \/ prep' # "none"
  BY PrepStays
<1>y. pc \notin Late => ~manifest
  BY DEF AfterCommit
\* A step of a call that has not committed and does not commit.
<1>b. ASSUME ~manifest, manifest' = manifest, pc # "idle" PROVE Goal
  BY <1>b, <1>x DEF AfterCommit
<1>d. ASSUME pc # "idle" \/ pc' = "idle", pc' \in Late, Fixed, manifest' = manifest
      PROVE  Goal
  BY <1>d, <1>x DEF AfterCommit
<1>p. ASSUME NEW s, NEW a, NEW c, NEW p, Persist(s, a, c, p) PROVE manifest' = manifest
  BY <1>p DEF Persist
<1>s. ASSUME NEW s, PersistState(s) PROVE manifest' = manifest
  BY <1>s, <1>p DEF PersistState
<1>q. ASSUME NEW p, PersistPending(p) PROVE manifest' = manifest
  BY <1>q, <1>p DEF PersistPending
<1>f. RollbackFails => manifest' = manifest /\ pc' \in Late
  BY <1>s DEF RollbackFails, Stop
<1>r. ASSUME NEW a, NEW c, Reconciled(a, c) PROVE manifest' = manifest
  BY <1>r, <1>p DEF Reconciled
<1>m. MarkUnlessCommitted => manifest' = manifest /\ pc' \in Late
  BY <1>s DEF MarkUnlessCommitted, Stop, records
<1>1. CASE BeginApply
  BY <1>1 DEF BeginApply, MayBegin, AfterCommit
<1>2. CASE StageContents \/ SealPreparation \/ PublishBase \/ StartApplying
             \/ IntendDirectory \/ MoveDirectory \/ RecordDirectory
             \/ IntendLeaf \/ MoveLeaf \/ RecordLeaf
             \/ StartValidating \/ PublishReceipt
  <2>1. pc \notin Late
    BY <1>2
    DEF StageContents, SealPreparation, PublishBase, StartApplying,
        IntendDirectory, MoveDirectory, RecordDirectory, IntendLeaf, MoveLeaf,
        RecordLeaf, StartValidating, PublishReceipt, CleanupSteps
  <2>2. manifest' = manifest
    BY <1>2, <1>p, <1>s, <1>q
    DEF StageContents, SealPreparation, PublishBase, StartApplying,
        IntendDirectory, MoveDirectory, RecordDirectory, IntendLeaf, MoveLeaf,
        RecordLeaf, StartValidating, PublishReceipt, records
  <2>3. pc # "idle"
    BY <2>1
  <2>4. QED
    BY <1>b, <1>y, <2>1, <2>2, <2>3
<1>3. CASE PublishManifest
  BY <1>3 DEF PublishManifest, Goto, AfterCommit, tree
<1>4. CASE CommitJournal
  BY <1>4, <1>s, <1>d DEF CommitJournal, tree, CleanupSteps
<1>5. CASE StartRollback \/ ReconcileForward \/ ReconcileRollback \/ WithdrawLeaf
             \/ LeavesWithdrawn \/ ExchangeBack \/ Quarantine \/ QuarantineMove
             \/ QuarantineVerify \/ RecordBack \/ RemoveDirectory \/ Rmdir
             \/ RecordRmdir \/ DirectoriesRemoved \/ DropEvidence
  <2>1. pc \notin Late
    BY <1>5
    DEF StartRollback, ReconcileForward, ReconcileRollback, WithdrawLeaf,
        LeavesWithdrawn, ExchangeBack, Quarantine, QuarantineMove,
        QuarantineVerify, RecordBack, RemoveDirectory, Rmdir, RecordRmdir,
        DirectoriesRemoved, DropEvidence, DropReceipt,
        DropPending, EvidenceDropped, CleanupSteps
  <2>2. CASE ReconcileForward \/ ReconcileRollback \/ WithdrawLeaf \/ ExchangeBack
    <3>1. manifest' = manifest
      BY <2>2, <1>f, <1>r, <1>q
      DEF ReconcileForward, ReconcileRollback, WithdrawLeaf, ExchangeBack, records
    <3>2. QED
      BY <1>b, <1>y, <2>1, <3>1
  <2>3. CASE Quarantine \/ QuarantineMove \/ QuarantineVerify \/ RecordBack
               \/ RemoveDirectory \/ Rmdir \/ RecordRmdir
    <3>1. manifest' = manifest
      BY <2>3, <1>f, <1>p, <1>q
      DEF Quarantine, QuarantineMove, QuarantineVerify, RecordBack,
          RemoveDirectory, Rmdir, RecordRmdir, records
    <3>2. QED
      BY <1>b, <1>y, <2>1, <3>1
  <2>4. CASE StartRollback \/ LeavesWithdrawn \/ DirectoriesRemoved \/ DropEvidence
    <3>1. manifest' = manifest
      BY <2>4, <1>s
      DEF StartRollback, LeavesWithdrawn, DirectoriesRemoved, DropEvidence, DropReceipt,
        DropPending, EvidenceDropped, records
    <3>2. QED
      BY <1>b, <1>y, <2>1, <3>1
  <2>5. QED
    BY <1>5, <2>2, <2>3, <2>4
<1>6. CASE FinishRollback \/ FinishCommit \/ RemoveStaging \/ RemoveDirectories
  <2>1. pc # "idle" /\ pc' \in Late /\ Fixed /\ manifest' = manifest
    BY <1>6, <1>p, <1>s
    DEF FinishRollback, FinishCommit, RemoveStaging, RemoveDirectories, Goto, Stop,
        tree, records, CleanupSteps
  <2>2. QED
    BY <2>1, <1>d
<1>7. CASE ApplyRaises
  <2>1. pc \notin Late /\ manifest' = manifest
    BY <1>7 DEF ApplyRaises, ForwardSteps, CleanupSteps
  <2>2. QED
    BY <1>b, <1>y, <2>1
<1>8. CASE PreparationRaises \/ ManifestUnreadable \/ CommitJournalRaises
             \/ CleanupRaises \/ RollbackRaises \/ RecoveryManifestUnreadable \/ Crash
  <2>1. Fixed
    BY <1>8
    DEF PreparationRaises, ManifestUnreadable, CommitJournalRaises, CleanupRaises,
        RollbackRaises, RecoveryManifestUnreadable, Crash, tree
  <2>2. pc' = "idle"
    BY <1>8
    DEF PreparationRaises, ManifestUnreadable, CommitJournalRaises, CleanupRaises,
        RollbackRaises, RecoveryManifestUnreadable, MarkUnlessCommitted,
        RollbackFails, Crash, Stop
  <2>3. manifest' = manifest
    BY <1>8, <1>s, <1>f, <1>m
    DEF PreparationRaises, ManifestUnreadable, CommitJournalRaises, CleanupRaises,
        RollbackRaises, RecoveryManifestUnreadable, Crash, records
  <2>4. QED
    BY <1>d, <2>1, <2>2, <2>3
<1>9. CASE RecoverCommitted
  <2>1. pc # "idle" /\ Fixed
    BY <1>9 DEF RecoverCommitted, tree
  <2>2. pc' \in Late /\ manifest' = manifest
    BY <1>9, <1>m DEF RecoverCommitted, CleanupSteps, records
  <2>3. QED
    BY <1>d, <2>1, <2>2
<1>10. CASE StartRecovery
  BY <1>10 DEF StartRecovery, CommitPoint, AfterCommit, tree, records
<1>11. CASE RemoveStagedLeaf \/ RemoveStagedDirectory \/ RefusePreparation
              \/ Owner \/ Quiesce \/ UNCHANGED vars
  <2>1. pc' = pc /\ prep' = prep /\ manifest' = manifest
    BY <1>11
    DEF RemoveStagedLeaf, RemoveStagedDirectory, RefusePreparation, Quiesce, Owner,
        OwnerWrites, OwnerDeletes, OwnerMakesDirectory, OwnerAddsFile,
        OwnerRemovesTree, engine, vars, control, records
  <2>2. Fixed \/ Owner
    BY <1>11
    DEF RemoveStagedLeaf, RemoveStagedDirectory, RefusePreparation, Quiesce, vars, tree
  <2>3. QED
    BY <2>1, <2>2 DEF AfterCommit
<1>12. QED
  BY <1>1, <1>2, <1>3, <1>4, <1>5, <1>6, <1>7, <1>8, <1>9, <1>10, <1>11
  DEF Next, Running, Apply, Rollback, Cleanup, Raises

\* The commit point is final in every plan: no step of the engine takes the
\* manifest record back or touches the public tree once it exists.
THEOREM CommitFinal == Spec => CommitIsFinal
<1>1. Init => AfterCommit
  BY DEF Init, AfterCommit
<1>2. AfterCommit /\ [Next]_vars => AfterCommit'
  BY CommitStep
<1>3. AfterCommit /\ [Next]_vars =>
        [manifest => manifest' /\ (UNCHANGED <<target, dir>> \/ Owner)]_vars
  BY CommitStep, ManifestStays
<1>4. QED
  BY <1>1, <1>2, <1>3, PTL DEF Spec, CommitIsFinal

=============================================================================
