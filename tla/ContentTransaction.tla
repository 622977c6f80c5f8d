------------------------- MODULE ContentTransaction -------------------------
(***************************************************************************)
(* The POSIX content-aware (v2) managed-content transaction of             *)
(* upgrade_contract/transaction.py: one digest-bound plan of create and    *)
(* replace mutations, applied to a live project tree through a private     *)
(* transaction directory, with a durable journal, rollback, and recovery   *)
(* after a process exit at any step.                                       *)
(*                                                                         *)
(* One engine process runs at a time: apply and recover both hold the      *)
(* scope flock, and a second process is refused.  Every durable effect     *)
(* (a rename, an exchange, an unlink, a checkpoint) is a step of its own,  *)
(* so a crash, an I/O error or an edit by the tree's owner may fall        *)
(* between any two of them.                                                *)
(***************************************************************************)
EXTENDS Naturals, FiniteSets

CONSTANTS
  N,             \* number of eligible mutations, in plan order
  Kind,          \* Kind[i]: "create" or "replace"
  M,             \* number of missing parent directories, in publication order
  Home,          \* Home[i]: innermost missing directory of target i, 0 if none
  Above,         \* Above[d]: the missing directory that holds d, 0 if none
  UserVersions,  \* the fresh contents the tree's owner may write
  Environment    \* which disturbances happen

Targets == 1..N
Dirs == 1..M
Disturbances == {"crash", "ioError", "write", "delete", "directory"}

ASSUME PlanAssumption ==
  /\ N \in Nat \ {0}
  /\ M \in Nat
  /\ Kind \in [Targets -> {"create", "replace"}]
  /\ Home \in [Targets -> 0..M]
  /\ Above \in [Dirs -> 0..M]
  /\ \A d \in Dirs : Above[d] < d
  /\ UserVersions \cap {"absent", "before", "after"} = {}
  /\ Environment \subseteq Disturbances

(***************************************************************************)
(* A leaf holds "absent", "before" (the object bound by the plan), "after" *)
(* (the staged object) or a version written by the owner.  Content and     *)
(* native identity (device, inode, mode) are compared together, so no      *)
(* object written by the owner ever passes for "before" or "after".        *)
(***************************************************************************)
Content == {"absent", "before", "after"} \cup UserVersions

VARIABLES
  target,       \* public leaf of each mutation
  dir,          \* public missing directories: "absent", "engine" or "owner"
  litter,       \* directories in which the owner has put a file
  used,         \* owner versions already written
  owned,        \* owned[i]: contents the owner holds on path i
  staged,       \* private staging slot of each mutation
  stagingRoot,  \* the "staging" directory exists
  dirStaged,    \* staged directories not yet published
  dirRoot,      \* the "directories" directory exists
  prep,         \* "none", "preparing" (.preparing-ID) or "sealed" (ID)
  journal,      \* the last durable checkpoint
  bases,        \* content-addressed bases published
  receipt,      \* the transaction's receipt is published
  manifest,     \* the cumulative manifest records the transaction
  residue,      \* .pending files an interrupted publication left behind
  pc, cursor,   \* control point and mutation index of the engine process
  mode,         \* the call in progress: "apply" or "recover"
  committed,    \* the committed= argument of the staging cleanup
  outcome,      \* status returned by the last call
  quiet         \* TRUE once crashes, errors and edits have stopped

tree    == <<target, dir, litter, used, owned>>
private == <<staged, stagingRoot, dirStaged, dirRoot>>
records == <<prep, journal, bases, receipt, manifest, residue>>
control == <<pc, cursor, mode, committed, outcome>>
vars    == <<tree, private, records, control, quiet>>

-----------------------------------------------------------------------------
Original(i) == IF Kind[i] = "replace" THEN "before" ELSE "absent"

\* The chain of missing directories from the root down to d, d included.
ChainOf[d \in 0..M] == IF d = 0 THEN {} ELSE {d} \cup ChainOf[Above[d]]
Chain(i) == ChainOf[Home[i]]
Depth(d) == Cardinality(ChainOf[d])

Reachable(d) == d \in Dirs => dir[d] # "absent"

EmptyDirectory(d) ==
  /\ d \notin litter
  /\ \A i \in Targets : Home[i] = d => target[i] = "absent"
  /\ \A e \in Dirs : Above[e] = d => dir[e] = "absent"

IsFirst(x, S) == x \in S /\ \A y \in S : x <= y
IsLast(x, S)  == x \in S /\ \A y \in S : y <= x

\* Rollback removes created directories by decreasing path depth.
IsDeepest(d, S) ==
  d \in S /\ \A e \in S : Depth(e) < Depth(d) \/ (Depth(e) = Depth(d) /\ d <= e)

\* Variant: every intent is journalled with the directory action.
PendingDirectory(way, what, at) == [way |-> way, what |-> "directory", at |-> at]

NoPending == [way |-> "none", what |-> "none", at |-> 0]
Pending(way, what, at) == [way |-> way, what |-> what, at |-> at]
PendingActions ==
  {NoPending}
    \cup [way : {"forward", "rollback"}, what : {"leaf"}, at : Targets]
    \cup [way : {"forward", "rollback"}, what : {"directory"}, at : Dirs]
EmptyJournal ==
  [state |-> "NONE", applied |-> {}, created |-> {}, pending |-> NoPending]

Unfinished == {"PREPARED", "APPLYING", "VALIDATING", "ROLLING_BACK",
               "RECOVERY_REQUIRED", "ROLLBACK_INCOMPLETE"}
Terminal == {"COMMITTED", "ROLLED_BACK"}
Checkpoints ==
  [state : {"NONE"} \cup Unfinished \cup Terminal,
   applied : SUBSET Targets, created : SUBSET Dirs, pending : PendingActions]

PreparationSteps == {"stage", "seal"}
ForwardSteps == {"base", "applying", "next", "moveDirectory", "recordDirectory",
                 "moveLeaf", "recordLeaf", "receipt", "manifest"}
RollbackSteps == {"rollback", "reconcile", "withdraw", "exchangeBack",
                  "quarantine", "quarantineMove", "quarantineVerify",
                  "recordBack", "emptyDirectories", "rmdir", "recordRmdir",
                  "dropReceipt", "dropPending"}
CleanupSteps == {"leaves", "directories"}
PCs == {"idle", "commitJournal", "commitCheck", "finish"}
         \cup PreparationSteps \cup ForwardSteps \cup RollbackSteps
         \cup CleanupSteps

TreeOK ==
  /\ target \in [Targets -> Content]
  /\ dir \in [Dirs -> {"absent", "engine", "owner"}]
  /\ litter \subseteq Dirs
  /\ used \subseteq UserVersions
  /\ owned \in [Targets -> SUBSET ({"before"} \cup UserVersions)]

SlotsOK ==
  /\ staged \in [Targets -> Content]
  /\ stagingRoot \in BOOLEAN /\ dirRoot \in BOOLEAN
  /\ dirStaged \subseteq Dirs

RecordsOK ==
  /\ prep \in {"none", "preparing", "sealed"}
  /\ journal \in Checkpoints
  /\ bases \subseteq Targets
  /\ receipt \in BOOLEAN /\ manifest \in BOOLEAN
  /\ residue \subseteq {"base", "receipt", "manifest", "journal"}

ControlOK ==
  /\ pc \in PCs
  /\ cursor \in 0..(N + 1)
  /\ mode \in {"apply", "recover"}
  /\ committed \in BOOLEAN
  /\ outcome \in {"none", "committed", "rolled_back", "recovery_required",
                  "rollback_incomplete", "error"}
  /\ quiet \in BOOLEAN

TypeOK == TreeOK /\ SlotsOK /\ RecordsOK /\ ControlOK

Init ==
  /\ target = [i \in Targets |-> Original(i)]
  /\ dir = [d \in Dirs |-> "absent"]
  /\ litter = {} /\ used = {}
  /\ owned = [i \in Targets |-> {Original(i)} \ {"absent"}]
  /\ staged = [i \in Targets |-> "absent"]
  /\ stagingRoot = FALSE /\ dirRoot = FALSE /\ dirStaged = {}
  /\ prep = "none" /\ journal = EmptyJournal
  /\ bases = {} /\ receipt = FALSE /\ manifest = FALSE /\ residue = {}
  /\ pc = "idle" /\ cursor = 0 /\ mode = "apply" /\ committed = FALSE
  /\ outcome = "none" /\ quiet = FALSE

-----------------------------------------------------------------------------
(***************************************************************************)
(* Control and checkpoints.  A checkpoint replaces journal.json atomically *)
(* through .journal.json.pending, unlinking a leftover pending file first. *)
(***************************************************************************)
Goto(p) == pc' = p /\ UNCHANGED <<cursor, mode, committed, outcome, quiet>>
Stop(o) ==
  pc' = "idle" /\ outcome' = o /\ UNCHANGED <<cursor, mode, committed, quiet>>

Persist(state, applied, created, pending) ==
  /\ journal' = [state |-> state, applied |-> applied,
                 created |-> created, pending |-> pending]
  /\ residue' = residue \ {"journal"}
  /\ UNCHANGED <<prep, bases, receipt, manifest>>

PersistState(state) ==
  Persist(state, journal.applied, journal.created, journal.pending)
PersistPending(pending) ==
  Persist(journal.state, journal.applied, journal.created, pending)

\* A leaf and its private slot trade places: rename_exchange_at when both
\* exist, rename_no_replace_at when one side is free.
Exchange(i) ==
  /\ stagingRoot
  /\ target' = [target EXCEPT ![i] = staged[i]]
  /\ staged' = [staged EXCEPT ![i] = target[i]]
  /\ UNCHANGED <<dir, litter, used, owned, stagingRoot, dirStaged, dirRoot>>

-----------------------------------------------------------------------------
(***************************************************************************)
(* Apply: preparation, evidence bases, and the mutations in plan order.    *)
(***************************************************************************)
\* The checks under the scope lock: no transaction directory that is not
\* terminal, no committed application of this plan, and inputs still bound.
MayBegin ==
  /\ \/ prep = "none"
     \/ prep = "sealed" /\ journal.state = "ROLLED_BACK" /\ ~receipt /\ ~manifest
  /\ \A i \in Targets : target[i] = Original(i)
  /\ \A d \in Dirs : dir[d] = "absent"

BeginApply ==
  /\ pc = "idle" /\ MayBegin
  /\ prep' = "preparing" /\ journal' = EmptyJournal /\ residue' = {}
  /\ mode' = "apply" /\ pc' = "stage" /\ cursor' = 1 /\ outcome' = "none"
  /\ UNCHANGED <<tree, private, bases, receipt, manifest, committed, quiet>>

\* plan.json, journal.json (PREPARED), one private copy of every after-content
\* and every missing directory.  Nothing outside the preparation reads them.
StageContents ==
  /\ pc = "stage"
  /\ staged' = [i \in Targets |-> "after"] /\ dirStaged' = Dirs
  /\ stagingRoot' = TRUE /\ dirRoot' = TRUE
  /\ journal' = [EmptyJournal EXCEPT !.state = "PREPARED"]
  /\ Goto("seal")
  /\ UNCHANGED <<tree, prep, bases, receipt, manifest, residue>>

SealPreparation ==
  /\ pc = "seal"
  /\ prep' = "sealed" /\ Goto("base")
  /\ UNCHANGED <<tree, private, journal, bases, receipt, manifest, residue>>

PublishBase ==
  /\ pc = "base"
  /\ bases' = bases \cup {cursor}
  /\ IF cursor < N THEN pc' = "base" /\ cursor' = cursor + 1
                   ELSE pc' = "applying" /\ cursor' = 1
  /\ UNCHANGED <<tree, private, prep, journal, receipt, manifest, residue,
                 mode, committed, outcome, quiet>>

StartApplying ==
  /\ pc = "applying" /\ PersistState("APPLYING") /\ Goto("next")
  /\ UNCHANGED <<tree, private>>

\* Missing directories of target i that this transaction has not yet created.
Ahead(i) == Chain(i) \ journal.created
CreatedIntact(i) == \A d \in Chain(i) \cap journal.created : dir[d] = "engine"

DirectoryReady(i, d) ==
  /\ CreatedIntact(i) /\ IsFirst(d, Ahead(i))
  /\ dir[d] = "absent" /\ d \in dirStaged

LeafReady(i) ==
  /\ CreatedIntact(i) /\ target[i] = Original(i) /\ staged[i] = "after"

IntendDirectory ==
  /\ pc = "next" /\ cursor <= N
  /\ \E d \in Dirs : /\ DirectoryReady(cursor, d)
                     /\ PersistPending(Pending("forward", "directory", d))
  /\ Goto("moveDirectory")
  /\ UNCHANGED <<tree, private>>

\* rename_no_replace_at, relative to the held parent handle.
MoveDirectory ==
  LET d == journal.pending.at IN
  /\ pc = "moveDirectory" /\ dir[d] = "absent" /\ Reachable(Above[d])
  /\ dir' = [dir EXCEPT ![d] = "engine"] /\ dirStaged' = dirStaged \ {d}
  /\ Goto("recordDirectory")
  /\ UNCHANGED <<target, litter, used, owned, staged, stagingRoot, dirRoot,
                 records>>

RecordDirectory ==
  LET d == journal.pending.at IN
  /\ pc = "recordDirectory" /\ dir[d] = "engine"
  /\ Persist("APPLYING", journal.applied, journal.created \cup {d}, NoPending)
  /\ Goto("next")
  /\ UNCHANGED <<tree, private>>

IntendLeaf ==
  /\ pc = "next" /\ cursor <= N /\ Ahead(cursor) = {} /\ LeafReady(cursor)
  /\ PersistPending(Pending("forward", "leaf", cursor))
  /\ Goto("moveLeaf")
  /\ UNCHANGED <<tree, private>>

\* A create needs the name free, a replace needs some leaf to exchange with:
\* the kernel checks no more than that, whatever the leaf holds by now.
LeafMovable(i) ==
  /\ Reachable(Home[i])
  /\ (Kind[i] = "create") <=> (target[i] = "absent")

MoveLeaf ==
  /\ pc = "moveLeaf" /\ LeafMovable(cursor)
  /\ Exchange(cursor) /\ Goto("recordLeaf")
  /\ UNCHANGED records

\* Variant: the displaced object is not compared with the bound original.
LeafPublished(i) == target[i] = "after"

LeafInstalled(i) == target[i] = "after" /\ staged[i] = Original(i)

RecordLeaf ==
  /\ pc = "recordLeaf" /\ LeafInstalled(cursor)
  /\ Persist("APPLYING", journal.applied \cup {cursor}, journal.created, NoPending)
  /\ pc' = "next" /\ cursor' = cursor + 1
  /\ UNCHANGED <<tree, private, mode, committed, outcome, quiet>>

StartValidating ==
  /\ pc = "next" /\ cursor > N
  /\ PersistState("VALIDATING") /\ Goto("receipt")
  /\ UNCHANGED <<tree, private>>

TargetsInstalled == \A i \in Targets : target[i] = "after"

\* Every target is verified once more before any commit evidence exists.
PublishReceipt ==
  /\ pc = "receipt" /\ TargetsInstalled
  /\ receipt' = TRUE /\ Goto("manifest")
  /\ UNCHANGED <<tree, private, prep, journal, bases, manifest, residue>>

\* The atomic replacement of manifest.json is the commit point.
PublishManifest ==
  /\ pc = "manifest"
  /\ manifest' = TRUE /\ Goto("commitJournal")
  /\ UNCHANGED <<tree, private, prep, journal, bases, receipt, residue>>

CommitJournal ==
  /\ pc = "commitJournal" /\ PersistState("COMMITTED")
  /\ committed' = TRUE /\ pc' = "leaves"
  /\ UNCHANGED <<tree, private, cursor, mode, outcome, quiet>>

-----------------------------------------------------------------------------
(***************************************************************************)
(* Exceptions during apply.  A failed check raises, and so may any system  *)
(* call; the handler decides from durable records alone what happens next. *)
(***************************************************************************)
ApplyCheckFails ==
  \/ /\ pc = "next" /\ cursor <= N
     /\ IF Ahead(cursor) # {} THEN \A d \in Dirs : ~DirectoryReady(cursor, d)
                              ELSE ~LeafReady(cursor)
  \/ /\ pc = "moveDirectory"
     /\ \/ dir[journal.pending.at] # "absent"
        \/ ~Reachable(Above[journal.pending.at])
  \/ pc = "recordDirectory" /\ dir[journal.pending.at] # "engine"
  \/ pc = "moveLeaf" /\ ~LeafMovable(cursor)
  \/ pc = "recordLeaf" /\ ~LeafInstalled(cursor)
  \/ pc = "receipt" /\ ~TargetsInstalled

IoError == "ioError" \in Environment /\ ~quiet

\* Evidence whose publication the current step may leave half done.
PendingEvidence ==
  CASE pc = "base" -> {"base"} [] pc = "receipt" -> {"receipt"}
    [] pc = "manifest" -> {"manifest"} [] OTHER -> {}

\* The residue of an unsealed preparation is always preserved.
PreparationRaises ==
  /\ pc \in PreparationSteps /\ IoError
  /\ Stop("error")
  /\ UNCHANGED <<tree, private, records>>

ApplyRaises ==
  /\ pc \in ForwardSteps /\ (ApplyCheckFails \/ IoError)
  /\ residue' = residue \cup PendingEvidence
  /\ Goto("rollback")
  /\ UNCHANGED <<tree, private, prep, journal, bases, receipt, manifest>>

\* The handler cannot read the manifest: the commit point is unknown and
\* nothing is touched.
ManifestUnreadable ==
  /\ pc \in ForwardSteps \cup {"commitJournal"} /\ IoError
  /\ PersistState("RECOVERY_REQUIRED") /\ Stop("recovery_required")
  /\ UNCHANGED <<tree, private>>

\* After the commit point only the journal can lag; it is left as it is, or
\* marked when the manifest replacement itself raised after its rename.
CommitJournalRaises ==
  /\ pc = "commitJournal" /\ IoError
  /\ \/ PersistState("RECOVERY_REQUIRED")
     \/ UNCHANGED records
  /\ Stop("recovery_required")
  /\ UNCHANGED <<tree, private>>

-----------------------------------------------------------------------------
(***************************************************************************)
(* Rollback, always driven by the durable journal.                         *)
(***************************************************************************)
StartRollback ==
  /\ pc = "rollback" /\ PersistState("ROLLING_BACK")
  /\ Goto(IF journal.pending = NoPending THEN "withdraw" ELSE "reconcile")
  /\ UNCHANGED <<tree, private>>

RollbackFails ==
  /\ PersistState("ROLLBACK_INCOMPLETE") /\ Stop("rollback_incomplete")

\* A forward intent is settled by observing both sides of the rename.
NotMoved(i) == target[i] = Original(i) /\ staged[i] = "after"

\* Variant: an interrupted intent is dropped without observing the tree.
IntentDropped(p) == "undone"

\* Variant: only a completed move is recognised.
MoveAssumed(p) ==
  IF \/ p.what = "directory" /\ dir[p.at] = "engine"
     \/ p.what = "leaf" /\ LeafInstalled(p.at)
  THEN "done" ELSE "ambiguous"

ForwardOutcome(p) ==
  IF p.what = "directory"
  THEN CASE p.at \in dirStaged /\ dir[p.at] = "absent" -> "undone"
         [] p.at \notin dirStaged /\ dir[p.at] = "engine" -> "done"
         [] OTHER -> "ambiguous"
  ELSE CASE NotMoved(p.at) -> "undone"
         [] LeafInstalled(p.at) -> "done"
         [] OTHER -> "ambiguous"

Reconciled(applied, created) ==
  /\ Persist("ROLLING_BACK", applied, created, NoPending) /\ Goto("withdraw")

ReconcileForward ==
  LET p == journal.pending IN
  /\ pc = "reconcile" /\ p.way = "forward"
  /\ CASE ForwardOutcome(p) = "undone" ->
            Reconciled(journal.applied, journal.created)
       [] ForwardOutcome(p) = "done" /\ p.what = "leaf" ->
            Reconciled(journal.applied \cup {p.at}, journal.created)
       [] ForwardOutcome(p) = "done" /\ p.what = "directory" ->
            Reconciled(journal.applied, journal.created \cup {p.at})
       [] OTHER -> RollbackFails
  /\ UNCHANGED <<tree, private>>

ReconcileRollback ==
  LET p == journal.pending IN
  /\ pc = "reconcile" /\ p.way = "rollback"
  /\ CASE p.what = "directory" ->
            Reconciled(journal.applied,
              IF dir[p.at] = "absent" THEN journal.created \ {p.at}
                                      ELSE journal.created)
       [] p.what = "leaf" /\ Kind[p.at] = "replace" ->
            Reconciled(IF NotMoved(p.at) THEN journal.applied \ {p.at}
                                         ELSE journal.applied,
                       journal.created)
       [] OTHER -> Goto("quarantine") /\ UNCHANGED records
  /\ UNCHANGED <<tree, private>>

\* Applied leaves are reversed in reverse order, each only while the public
\* leaf is exactly the one installed.
WithdrawLeaf ==
  /\ pc = "withdraw"
  /\ \E i \in journal.applied :
       /\ IsLast(i, journal.applied) /\ Reachable(Home[i])
       /\ IF target[i] = "after"
          THEN /\ PersistPending(Pending("rollback", "leaf", i))
               /\ Goto(IF Kind[i] = "create" THEN "quarantine" ELSE "exchangeBack")
          ELSE RollbackFails
  /\ UNCHANGED <<tree, private>>

LeavesWithdrawn ==
  /\ pc = "withdraw" /\ journal.applied = {}
  /\ Goto("emptyDirectories")
  /\ UNCHANGED <<tree, private, records>>

ExchangeBack ==
  LET i == journal.pending.at IN
  /\ pc = "exchangeBack"
  /\ IF staged[i] = Original(i)
     THEN target[i] # "absent" /\ Exchange(i) /\ Goto("recordBack") /\ UNCHANGED records
     ELSE RollbackFails /\ UNCHANGED <<tree, private>>

\* _quarantine_exact_regular_at: a created leaf leaves through its private
\* slot, is verified there, and only then unlinked.
Quarantine ==
  LET i == journal.pending.at IN
  /\ pc = "quarantine"
  /\ CASE staged[i] # "absent" /\ (target[i] # "absent" \/ staged[i] # "after") ->
            RollbackFails
       [] staged[i] = "after" /\ target[i] = "absent" ->
            IF Reachable(Home[i]) THEN Goto("quarantineVerify") /\ UNCHANGED records
                                  ELSE RollbackFails
       [] staged[i] = "absent" /\ target[i] = "absent" ->
            Goto("recordBack") /\ UNCHANGED records
       [] staged[i] = "absent" /\ target[i] = "after" ->
            Goto("quarantineMove") /\ UNCHANGED records
       [] OTHER -> RollbackFails
  /\ UNCHANGED <<tree, private>>

QuarantineMove ==
  LET i == journal.pending.at IN
  /\ pc = "quarantineMove"
  /\ IF target[i] # "absent"
     THEN Exchange(i) /\ Goto("quarantineVerify")
     ELSE UNCHANGED <<tree, private>> /\ Goto("recordBack")
  /\ UNCHANGED records

\* Variant: whatever was moved aside is unlinked.
QuarantinedAny(i) == staged[i] # "absent"

\* The object moved aside is the one the transaction installed.
QuarantinedExact(i) == staged[i] = "after"

QuarantineVerify ==
  LET i == journal.pending.at IN
  /\ pc = "quarantineVerify"
  /\ CASE QuarantinedExact(i) ->
            /\ staged' = [staged EXCEPT ![i] = "absent"]
            /\ Goto("recordBack")
            /\ UNCHANGED <<tree, stagingRoot, dirStaged, dirRoot, records>>
       [] ~QuarantinedExact(i) /\ target[i] = "absent" /\ Reachable(Home[i]) ->
            RollbackFails /\ Exchange(i)
       [] OTHER -> RollbackFails /\ UNCHANGED <<tree, private>>

LeafWithdrawn(i) ==
  /\ target[i] = Original(i)
  /\ Kind[i] = "replace" => staged[i] = "after"

RecordBack ==
  LET i == journal.pending.at IN
  /\ pc = "recordBack"
  /\ IF LeafWithdrawn(i)
     THEN /\ Persist("ROLLING_BACK", journal.applied \ {i}, journal.created, NoPending)
          /\ Goto("withdraw")
     ELSE RollbackFails
  /\ UNCHANGED <<tree, private>>

RemoveDirectory ==
  /\ pc = "emptyDirectories"
  /\ \E d \in journal.created :
       /\ IsDeepest(d, journal.created) /\ dir[d] # "absent"
       /\ IF dir[d] = "engine" /\ EmptyDirectory(d)
          THEN /\ PersistPending(Pending("rollback", "directory", d))
               /\ Goto("rmdir")
          ELSE RollbackFails
  /\ UNCHANGED <<tree, private>>

Rmdir ==
  LET d == journal.pending.at IN
  /\ pc = "rmdir" /\ dir[d] # "absent" /\ EmptyDirectory(d)
  /\ dir' = [dir EXCEPT ![d] = "absent"]
  /\ Goto("recordRmdir")
  /\ UNCHANGED <<target, litter, used, owned, private, records>>

RecordRmdir ==
  /\ pc = "recordRmdir"
  /\ Persist("ROLLING_BACK", journal.applied,
             journal.created \ {journal.pending.at}, NoPending)
  /\ Goto("emptyDirectories")
  /\ UNCHANGED <<tree, private>>

DirectoriesRemoved ==
  /\ pc = "emptyDirectories" /\ journal.created = {}
  /\ Goto("dropReceipt")
  /\ UNCHANGED <<tree, private, records>>

\* Variant: the published receipt survives the rollback.
ReceiptLeft ==
  /\ pc = "dropReceipt" /\ Goto("dropPending")
  /\ UNCHANGED <<tree, private, records>>

\* The provisional receipt goes first, then this transaction's .pending files.
DropReceipt ==
  /\ pc = "dropReceipt"
  /\ receipt' = FALSE /\ Goto("dropPending")
  /\ UNCHANGED <<tree, private, prep, journal, bases, manifest, residue>>

HalfPublished == residue \ {"journal"}

DropPending ==
  /\ pc = "dropPending"
  /\ \E file \in HalfPublished : residue' = residue \ {file}
  /\ UNCHANGED <<tree, private, prep, journal, bases, receipt, manifest,
                 control, quiet>>

\* Variant: the .pending files are left for the next transaction.
PendingLeft ==
  /\ pc = "dropPending"
  /\ committed' = FALSE /\ pc' = "leaves"
  /\ UNCHANGED <<tree, private, records, cursor, mode, outcome, quiet>>

EvidenceDropped ==
  /\ pc = "dropPending" /\ HalfPublished = {}
  /\ committed' = FALSE /\ pc' = "leaves"
  /\ UNCHANGED <<tree, private, records, cursor, mode, outcome, quiet>>

DropEvidence == DropReceipt \/ DropPending \/ EvidenceDropped

-----------------------------------------------------------------------------
(***************************************************************************)
(* _remove_runtime_staging_v2: the private slots, exact contents only,     *)
(* then "staging", then the staged directories, then "directories".        *)
(***************************************************************************)
Occupied == {i \in Targets : staged[i] # "absent"}

\* What a slot may hold when it is discarded: after a commit the displaced
\* original of a replace, otherwise the unpublished (or withdrawn) content.
Discardable(i) ==
  staged[i] = IF committed /\ Kind[i] = "replace" THEN "before" ELSE "after"

RemoveStagedLeaf ==
  /\ pc = "leaves" /\ stagingRoot
  /\ \E i \in Occupied :
       /\ IsFirst(i, Occupied) /\ Discardable(i)
       /\ staged' = [staged EXCEPT ![i] = "absent"]
  /\ UNCHANGED <<tree, stagingRoot, dirStaged, dirRoot, records, control, quiet>>

RemoveStaging ==
  /\ pc = "leaves" /\ stagingRoot /\ Occupied = {}
  /\ stagingRoot' = FALSE /\ Goto("directories")
  /\ UNCHANGED <<tree, staged, dirStaged, dirRoot, records>>

RemoveStagedDirectory ==
  /\ pc = "directories" /\ dirRoot
  /\ \E d \in dirStaged : IsFirst(d, dirStaged) /\ dirStaged' = dirStaged \ {d}
  /\ UNCHANGED <<tree, staged, stagingRoot, dirRoot, records, control, quiet>>

RemoveDirectories ==
  /\ pc = "directories" /\ dirRoot /\ dirStaged = {}
  /\ dirRoot' = FALSE /\ Goto("finish")
  /\ UNCHANGED <<tree, staged, stagingRoot, dirStaged, records>>

CleanupFails ==
  \/ pc = "leaves" /\ ~stagingRoot
  \/ pc = "leaves" /\ \E i \in Occupied : IsFirst(i, Occupied) /\ ~Discardable(i)
  \/ pc = "directories" /\ ~dirRoot

\* A failed cleanup of a rollback ends it; after a commit it only marks the
\* journal, which recovery leaves alone when it already says COMMITTED.
CleanupRaises ==
  /\ pc \in CleanupSteps /\ (CleanupFails \/ IoError)
  /\ IF ~committed THEN RollbackFails
     ELSE /\ IF mode = "recover" /\ journal.state = "COMMITTED"
             THEN UNCHANGED records ELSE PersistState("RECOVERY_REQUIRED")
          /\ Stop("recovery_required")
  /\ UNCHANGED <<tree, private>>

FinishRollback ==
  /\ pc = "finish" /\ ~committed
  /\ Persist("ROLLED_BACK", {}, {}, NoPending) /\ Stop("rolled_back")
  /\ UNCHANGED <<tree, private>>

FinishCommit ==
  /\ pc = "finish" /\ committed
  /\ IF journal.state = "COMMITTED" THEN UNCHANGED records
                                    ELSE PersistState("COMMITTED")
  /\ Stop(IF mode = "recover" /\ journal.state = "COMMITTED"
          THEN "none" ELSE "committed")
  /\ UNCHANGED <<tree, private>>

\* Outside its named checks the rollback raises when a parent directory or
\* a leaf it must move has vanished.
RollbackCheckFails ==
  \/ /\ pc = "withdraw"
     /\ \E i \in journal.applied : IsLast(i, journal.applied) /\ ~Reachable(Home[i])
  \/ /\ pc = "exchangeBack" /\ staged[journal.pending.at] = Original(journal.pending.at)
     /\ target[journal.pending.at] = "absent"
  \/ /\ pc = "emptyDirectories"
     /\ \E d \in journal.created :
          IsDeepest(d, journal.created) /\ dir[d] = "absent"
  \/ /\ pc = "rmdir"
     /\ \/ dir[journal.pending.at] = "absent"
        \/ ~EmptyDirectory(journal.pending.at)

QuarantineSteps == {"quarantine", "quarantineMove", "quarantineVerify"}

\* Steps whose exceptions the rollback itself records, in either mode.
Guarded == QuarantineSteps \cup {"dropPending"}

\* Apply records any failure of its rollback.  A recovery ends where it stands
\* on an exception outside the guarded steps (an unreadable receipt is recorded
\* too).  An error while recording leaves the last checkpoint in place.
RollbackRaises ==
  /\ pc \in RollbackSteps \cup {"finish"}
  /\ ~(pc = "finish" /\ committed /\ mode = "apply")
  /\ RollbackCheckFails \/ IoError
  /\ \/ /\ pc # "rollback" /\ (mode = "apply" \/ pc \in Guarded \cup {"dropReceipt"})
        /\ RollbackFails
     \/ /\ mode = "recover" /\ pc \notin Guarded \cup {"rollback"}
        /\ Stop("error") /\ UNCHANGED records
     \/ /\ IoError /\ (mode = "apply" \/ pc # "finish")
        /\ Stop("rollback_incomplete") /\ UNCHANGED records
  /\ UNCHANGED <<tree, private>>

-----------------------------------------------------------------------------
(***************************************************************************)
(* Recover: one pass over the transaction, from its durable records.  The  *)
(* code also refuses a COMMITTED journal without a manifest record and a   *)
(* ROLLED_BACK one with commit evidence: EvidenceAgrees, below, says that  *)
(* no history of this engine contains either.                              *)
(***************************************************************************)
\* Variant: the journal, which may lag, is taken for the commit point.
JournalledCommit == journal.state = "COMMITTED"

CommitPoint == manifest

StartRecovery ==
  /\ pc = "idle" /\ prep = "sealed" /\ journal.state # "ROLLED_BACK"
  /\ mode' = "recover" /\ outcome' = "none"
  /\ pc' = IF CommitPoint THEN "commitCheck" ELSE "rollback"
  /\ UNCHANGED <<tree, private, records, cursor, committed, quiet>>

\* An unsealed preparation stops every recovery before it mutates anything.
RefusePreparation ==
  /\ pc = "idle" /\ prep = "preparing"
  /\ outcome' = "recovery_required"
  /\ UNCHANGED <<tree, private, records, pc, cursor, mode, committed, quiet>>

CommittedTopologyHolds == \A d \in journal.created : dir[d] = "engine"

MarkUnlessCommitted ==
  /\ IF journal.state = "COMMITTED" THEN UNCHANGED records
                                    ELSE PersistState("RECOVERY_REQUIRED")
  /\ Stop("recovery_required")

RecoverCommitted ==
  /\ pc = "commitCheck"
  /\ IF CommittedTopologyHolds /\ TargetsInstalled /\ receipt
     THEN /\ committed' = TRUE
          /\ pc' = IF stagingRoot \/ dirRoot \/ "journal" \in residue
                   THEN "leaves" ELSE "finish"
          /\ UNCHANGED <<records, cursor, mode, outcome, quiet>>
     ELSE MarkUnlessCommitted
  /\ UNCHANGED <<tree, private>>

\* The manifest, or evidence it names, cannot be read during recovery.
RecoveryManifestUnreadable ==
  /\ mode = "recover" /\ pc \in {"commitCheck", "rollback"} /\ IoError
  /\ MarkUnlessCommitted
  /\ UNCHANGED <<tree, private>>

-----------------------------------------------------------------------------
(***************************************************************************)
(* The environment: process exits, and the owner of the tree.              *)
(***************************************************************************)
Happens(d) == d \in Environment /\ ~quiet

\* A process exit keeps everything durable and may leave one .pending file.
Crash ==
  /\ pc # "idle" /\ Happens("crash")
  /\ \/ UNCHANGED residue
     \/ residue' = residue \cup PendingEvidence
     \/ prep = "sealed" /\ residue' = residue \cup {"journal"}
  /\ pc' = "idle" /\ outcome' = "none"
  /\ UNCHANGED <<tree, private, prep, journal, bases, receipt, manifest,
                 cursor, mode, committed, quiet>>

engine == <<private, records, control, quiet>>

OwnerWrites(i) ==
  /\ Happens("write") /\ Reachable(Home[i])
  /\ \E v \in UserVersions \ used :
       /\ target' = [target EXCEPT ![i] = v]
       /\ used' = used \cup {v}
       /\ owned' = [owned EXCEPT ![i] = (@ \ {target[i]}) \cup {v}]
  /\ UNCHANGED <<dir, litter, engine>>

OwnerDeletes(i) ==
  /\ Happens("delete") /\ target[i] # "absent"
  /\ target' = [target EXCEPT ![i] = "absent"]
  /\ owned' = [owned EXCEPT ![i] = @ \ {target[i]}]
  /\ UNCHANGED <<dir, litter, used, engine>>

OwnerMakesDirectory(d) ==
  /\ Happens("directory") /\ dir[d] = "absent" /\ Reachable(Above[d])
  /\ dir' = [dir EXCEPT ![d] = "owner"]
  /\ UNCHANGED <<target, litter, used, owned, engine>>

OwnerAddsFile(d) ==
  /\ Happens("directory") /\ dir[d] # "absent" /\ d \notin litter
  /\ litter' = litter \cup {d}
  /\ UNCHANGED <<target, dir, used, owned, engine>>

OwnerRemovesTree(d) ==
  LET Below(e) == d \in ChainOf[e]
      Gone == {i \in Targets : Below(Home[i])} IN
  /\ Happens("directory") /\ Happens("delete") /\ dir[d] # "absent"
  /\ dir' = [e \in Dirs |-> IF Below(e) THEN "absent" ELSE dir[e]]
  /\ litter' = {e \in litter : ~Below(e)}
  /\ target' = [i \in Targets |-> IF i \in Gone THEN "absent" ELSE target[i]]
  /\ owned' = [i \in Targets |->
                 IF i \in Gone THEN owned[i] \ {target[i]} ELSE owned[i]]
  /\ UNCHANGED <<used, engine>>

Quiesce == ~quiet /\ quiet' = TRUE /\ UNCHANGED <<tree, private, records, control>>

Owner ==
  \/ \E i \in Targets : OwnerWrites(i) \/ OwnerDeletes(i)
  \/ \E d \in Dirs :
       OwnerMakesDirectory(d) \/ OwnerAddsFile(d) \/ OwnerRemovesTree(d)

-----------------------------------------------------------------------------
Apply ==
  \/ StageContents \/ SealPreparation \/ PublishBase \/ StartApplying
  \/ IntendDirectory \/ MoveDirectory \/ RecordDirectory
  \/ IntendLeaf \/ MoveLeaf \/ RecordLeaf
  \/ StartValidating \/ PublishReceipt \/ PublishManifest \/ CommitJournal

Rollback ==
  \/ StartRollback \/ ReconcileForward \/ ReconcileRollback
  \/ WithdrawLeaf \/ LeavesWithdrawn \/ ExchangeBack
  \/ Quarantine \/ QuarantineMove \/ QuarantineVerify \/ RecordBack
  \/ RemoveDirectory \/ Rmdir \/ RecordRmdir \/ DirectoriesRemoved
  \/ DropEvidence \/ FinishRollback

Cleanup ==
  \/ RemoveStagedLeaf \/ RemoveStaging
  \/ RemoveStagedDirectory \/ RemoveDirectories \/ FinishCommit

Raises ==
  \/ PreparationRaises \/ ApplyRaises \/ ManifestUnreadable
  \/ CommitJournalRaises \/ CleanupRaises \/ RollbackRaises
  \/ RecoveryManifestUnreadable

Running == Apply \/ Rollback \/ Cleanup \/ Raises \/ RecoverCommitted

Next ==
  \/ BeginApply \/ Running
  \/ StartRecovery \/ RefusePreparation
  \/ Crash \/ Owner \/ Quiesce

Spec == Init /\ [][Next]_vars

\* A started call runs on, and an unfinished history is recovered again until
\* it is terminal; nothing obliges anyone to start an apply.
FairSpec == Spec /\ WF_vars(Running) /\ WF_vars(StartRecovery)

-----------------------------------------------------------------------------
(***************************************************************************)
(* Properties.                                                             *)
(***************************************************************************)
\* No content of the owner is ever destroyed: what the owner last put on a
\* path is on that path or in its private slot.  Only a commit gives up the
\* displaced original of a replace.
OwnerContentKept ==
  \A i \in Targets :
    owned[i] \ (IF manifest THEN {"before"} ELSE {}) \subseteq {target[i], staged[i]}

\* The journal is never more than one move behind the tree: whatever the
\* engine has made public is in the applied or created inventory, or is the
\* one pending action, however the process ended.
JournalCoversTree ==
  prep = "sealed" /\ journal.state # "ROLLED_BACK" =>
    /\ \A i \in Targets :
         target[i] = "after" =>
           i \in journal.applied
             \/ (journal.pending.what = "leaf" /\ journal.pending.at = i)
    /\ \A d \in Dirs :
         dir[d] = "engine" =>
           d \in journal.created
             \/ (journal.pending.what = "directory" /\ journal.pending.at = d)

\* Commit evidence and journal never contradict each other: the manifest
\* record implies the receipt, every base and a complete inventory, a
\* COMMITTED journal implies the manifest record, and a ROLLED_BACK one
\* implies that neither record exists.
EvidenceAgrees ==
  /\ manifest => /\ receipt /\ bases = Targets
                 /\ journal.state \in {"VALIDATING", "COMMITTED", "RECOVERY_REQUIRED"}
                 /\ journal.applied = Targets /\ journal.pending = NoPending
  /\ journal.state = "COMMITTED" => manifest
  /\ journal.state = "ROLLED_BACK" => ~receipt /\ ~manifest

\* A rolled-back transaction leaves nothing of its own behind: no installed
\* leaf, no private slot, no created directory, no half-published evidence.
RolledBackClean ==
  journal.state = "ROLLED_BACK" =>
    /\ \A i \in Targets : target[i] # "after" /\ staged[i] = "absent"
    /\ \A d \in Dirs : dir[d] # "engine"
    /\ residue \subseteq {"journal"}

\* The commit point is final: once the manifest records the transaction, no
\* step of apply, rollback or recovery changes the public tree again.
CommitIsFinal ==
  [][manifest => manifest' /\ (UNCHANGED <<target, dir>> \/ Owner)]_vars

\* A cleanup that removed "staging" and stopped before its journal entry (or,
\* after a commit, before "directories" went too) cannot be entered again.
CleanupInterrupted == ~stagingRoot /\ (dirRoot \/ ~manifest)

\* With no change by the owner, once crashes and errors stop, repeated
\* recovery brings every sealed transaction to a terminal journal; the only
\* exception is an interrupted cleanup.
RecoverySettles ==
  (quiet /\ prep = "sealed") ~> (journal.state \in Terminal \/ CleanupInterrupted)

\* KNOWN_LIMITATIONS.md:66 says that "naos upgrade --recover resumes or rolls
\* back managed transactions": where nothing but process exits disturbs a
\* transaction, no rollback should end with it still unfinished.
RecoveryCompletes == outcome # "rollback_incomplete"

\* The transaction implements the promise of ContentPublication, its private
\* slots being the slots and its manifest record the commit.
publicationStatus ==
  CASE manifest -> "committed"
    [] journal.state \in {"NONE", "ROLLED_BACK"} -> "closed"
    [] OTHER -> "open"

Publication == INSTANCE ContentPublication WITH
  public <- target, aside <- staged, status <- publicationStatus

PublicationSpec == Publication!Spec
=============================================================================
