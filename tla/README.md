# A verification project for the NAOS governance toolkit

NAOS installs governance material into a software project and keeps it up to
date.  Most of its 200,000 lines read a tree and write a report.  What can go
wrong in ways a test hardly reaches is in a few places that change files: the
transaction engines behind `naos upgrade`, the store of repository intelligence
with a transaction engine of its own, and the small coordination protocols by
which several local processes share a file.  This project models those in
TLA+, checks them with TLC and proves their central properties with TLAPS.

Source paths below are relative to the repository; unprefixed modules of the
upgrade engine are in `upgrade_contract/`, unprefixed `naos_*.py` in `scripts/`.

## 1. Inventory

| Component | State it keeps | Operations | What is hard | What makes it correct |
|---|---|---|---|---|
| Content-aware transaction, POSIX (`transaction.py`, v2) | public leaves and directories; `.naos` transaction directory (staging, directories, journal); bases, receipt, manifest | apply, rollback, staging cleanup, recover | a process exit between any two renames; I/O errors that hit after the effect; an owner who edits the tree meanwhile; rollbacks interrupted and resumed | no owner content lost; journal at most one move behind; evidence files never contradict; rollback leaves nothing; commit final; recovery ends |
| Windows operation (`windows_operation.py`, record versions 2 and 3) | three slots per publication; write-once records and markers | apply, cancel (`initialize_rollback`), recover | no exchange primitive: a replace is two moves; metadata change at the move; torn markers | journal and slots at most one move apart; terminal markers agree; foreign objects untouched; ordered publication; v3 never reverses an installed manifest |
| Task claims (`naos_task_claims.py`) | a YAML file, a lock file, audit events | claim, release, list, `--expires-at` | the lock belongs to an inode and the path may be replaced; expiry against clocks that disagree; death between file, audit event and report | one active claim per task; nothing reported is lost; calls take effect one by one |
| Local context index (`naos_local_context_index.py`) | an SQLite file, a lock file, private temporaries | build, publish, take over a stale lock | stale-lock takeover, slow holders, dead holders | writers exclude each other; a wrong takeover admits one writer and no more; calls end |
| Create-only transaction, v1 (`transaction.py`) | as v2, with an action journal of its own | apply, recover | as v2, for creations only | as v2 |
| Transaction inventory and project lock (`transaction.py`, `v3_operation_history.py`) | directories of all transactions; a lock file | inventory, recover all, refuse | several unfinished transactions, a second process | one unfinished transaction at a time; recovery order |
| Windows coordinator and runtime (`windows_coordinator.py`, `windows_runtime.py`, ...) | one-leaf records; the list of operations | apply, recover | shares its journal with the operation; ordering of recoveries | as the operation |
| Histories, migration, rebind (`v3_j2_*`, `legacy_windows_terminal.py`, `rebind_records.py`, ...) | registrations and checkpoints of other record formats | migrate, register, rebind | old and new records side by side after a stop | exactly one authoritative history |
| Planner, provenance (`planner.py`, `provenance.py`, ...) | none (pure) | plan, verify | three-way comparison of baseline, tree and target | an owner's edit is never classed as replaceable |
| Sessions (`naos_session_identity.py`, `naos_session_lifecycle.py`) | `sessions.json`, a directory per session | select, create, close, refer a report | read, change and replace without a lock; a capacity | the index never contradicts itself; calls that do not overlap lose nothing |
| Task lifecycle (`naos_task_lifecycle.py`) | registry, completed history, a card per task; contexts and reports | resolve, complete, synchronise | four files replaced one after the other, no lock, no journal, shared temporary names | card, registry and history agree; a reported completion stays; the card is never lost |
| Audit log (`naos_audit_log.py`) | one file per event | write, list | names chosen by looking | no event overwritten |
| Policy, overrides, gates (`naos_policy.py`, `naos_policy_overrides.py`, `naos_gate_status.py`) | none (pure) | evaluate | expiry and scope of overrides | an expired override changes no verdict |
| Repository intelligence (`naos_repository_intelligence.py`) | `.naos/.../transactions` with a journal each, immutable generations, `active.json` | plan, apply, recover, status, query | deaths between any two renames; plans reviewed long before they are applied; failures after the commit; rollbacks interrupted and repeated | readers find a complete, journaled generation; no activation lost; one unresolved transaction; recovery ends |
| Repository intelligence on Windows (`naos_repository_intelligence_windows.py`) | records on the Windows backend | as above | as the Windows operation | as above |
| Command line, installers, read-only reports, exports | none | | | |

The parts meet in three ways.  The command line calls the planner, whose
digest-bound plan is the input of one engine: content-aware on POSIX, the
Windows runtime and operation elsewhere.  Engines and reports share the tree
with its owner, who edits it at any time and is not asked.  The coordination
scripts share their files with other processes of the same kind, and
`naos_task_claims.py` calls the audit log and the session index while it holds
its lock.  The POSIX engine and repository intelligence have a lock each
(`transaction.py:3804`, `StableFileLock`), which they never wait for; the engine
has it before it reads anything, repository intelligence only after its checks.

`PROJECT.json` lists every component with its status and every hazard at the
line where it bites, with the properties that would notice it going wrong.

## 2. Modules

| Module | What it is |
|---|---|
| `ContentTransaction` | the POSIX content-aware transaction: apply, rollback, cleanup, recovery |
| `ContentPublication` | what it promises: leaves and slots are traded, then committed as a whole or closed |
| `ContentTransactionProofs`, `ContentTransactionJournalProofs` | its theorems: the tree and its owner; the journal, the evidence, the refinement |
| `WindowsOperation` | the Windows operation, record versions 2 and 3 |
| `OrderedPublication` | what it promises: ordered steps, forward or back, one terminal answer |
| `WindowsOperationProofs` | its theorems |
| `TaskClaims`, `TaskClaimsProofs` | task claims and their theorems |
| `ContextIndex`, `ContextIndexProofs` | write coordination of the context index and its theorems |
| `SessionIndex`, `SessionIndexProofs` | the session index and its theorems |
| `RepositoryIntelligence` | the store on POSIX: plans, activation, rollback, recovery |
| `ActivationRegister` | what it promises: one current activation, replaced in one step |
| `RepositoryIntelligenceProofs` | its theorems |
| `TaskCompletion`, `TaskCompletionProofs` | completing a task, and its theorems |
| `MC...` | the small instances TLC checks |

`PROJECT.json` "map" gives the source lines of every definition.  In each module
a definition marked *Variant* just before another is that definition with a
plausible mistake in it.  No specification uses them; each passing run's
property is known to fail when its variant is put in place.

### ContentTransaction

State.  A leaf (`target[i]`) or its private staging slot (`staged[i]`) holds
"absent", "before" (the object bound by the plan), "after" (the staged object)
or a version of the owner's; contents and native identity are one value, because
the code compares both.  `journal` is the last durable checkpoint: state,
applied leaves, created directories, pending action.  `bases`, `receipt` and
`manifest` are the evidence files; `residue` the `.pending` files an interrupted
publication leaves; `prep` tells `.preparing-ID` from its sealed directory.  `pc`
and `cursor` are the process.

Actions.  Each durable effect (a rename, an exchange, an unlink, a checkpoint)
is one action, in the order of the code: `BeginApply`, `StageContents`,
`SealPreparation`, `PublishBase`, then per mutation `IntendDirectory`,
`MoveDirectory`, `RecordDirectory`, `IntendLeaf`, `MoveLeaf`, `RecordLeaf`, then
`PublishReceipt`, `PublishManifest`, `CommitJournal` and the staging cleanup.
Rollback reconciles the pending action, withdraws leaves (exchange back, or
quarantine and unlink), removes directories by decreasing depth, drops the
evidence, and cleans up.  Exceptions are actions too: what an error handler does
depends on the manifest it can read.  A crash resets the process and nothing
else.

The owner's edits are actions of the environment: write, delete, make or remove
a directory, between any two steps, also between the last check of a leaf and
the exchange, and between the check of a file in quarantine and its removal.

### WindowsOperation

A publication has a target, a staged slot and, for a replacement, a backup slot;
a creation is one move, a replacement two.  Steps are pairs of publication and
rank, totally ordered.  The journal is the set of files that exist: directory,
plan, intent, one marker per step in each direction, `rollback.json`, terminal
markers; `torn` says some record is incomplete.  A move leaves its object `raw`
until its metadata are restored, and `RepairForward` and `RepairBackward` are
what recovery does when it finds one.  Environment: the process stops between
any two effects, a record is torn, the owner writes or removes a target.

### TaskClaims

A caller opens the lock file (making it when there is none), waits for the lock
of *that inode*, looks whether the path still names it, then reads the clock and
the file, replaces the file, writes an audit event and reports.  `After` is what
a call does to the set of claims; `Load` computes it and `Write` stores it.  The
clock moves either way, because callers can set theirs.  The lock file may be
removed by somebody outside NAOS at any moment at which no caller is past its
identity check: that assumption is stated in the module, and no code can do
without it.

### ContextIndex

A writer creates the lock file with O_EXCL, writes into it the time its call
began, builds a database under a name of its own, checks its tables, renames it
over the index and unlinks the lock path.  A lock counts as stale when the
*finder's* start is more than `StaleAfter` past the recorded time; finding and
removing it are two steps.  `disturbed` is a history variable: some call lasted
longer than `StaleAfter` (300 s in the code), a writer died, or a lock file was
not removed.  Exclusion is claimed, and holds, only up to that point: beyond it,
of two callers that find the same stale lock the slower one removes the fresh
lock of the quicker one (`:364`), and both write, each a private file.  A writer
that lost its lock this way removes whoever's lock is at the path when it ends
(`:426`), which admits another one.  `taken`, a history variable, counts the
locks that were removed as stale while their writer was at work, and
`TakeoversBounded` says that this does not get out of hand: there are never more
than one writer and one for each of these.  That the index itself is always a
checked database needs no property: the only step that writes it moves a private
file there that has passed the check (`:1611`).

### SessionIndex

`records` and `latest` are the index file; `used` remembers the ids that were
generated or given, so that a generated one is new.  A command reads the index
and selects a session (`Select`: the one asked for, else the latest active one,
else a new one), replaces the file (`Save`), reads it again when its report is
written (`Refer`) and replaces it again (`SaveReference`).  Other scripts only do
the last two.  `Refuse` is a reader that finds more than `Capacity` records,
`Stop` an end of the call anywhere.  The lists of active and closed ids are
derived from the records at every write and are not kept; which of several
active sessions was used last is left open.  `overtaken` is a
history variable: the callers whose draft was computed from an index that has
been replaced since.

### RepositoryIntelligence

State.  `journals` is the transactions directory, in the order of creation (a
journal "EMPTY" or "PREPARING" is a `.RIT-....preparing` directory without or
with its file); `staging` and `prepared` are the two private directories of the
newest transaction; `published` tells of each generation whose staging directory
it is, which is what the code compares inodes for; `pointer`, `pending` and
`context` are `active.json`, its pending file and the root around them.  A
generation is named after its content, so it is identified with the version of
the source it was built from.  `plans` are plan files of any age and `checked`
those whose caller has made its checks before the lock.  `holder`, `at`, `me`,
`mem` and `todo` are the process that has the lock: the journal it has in memory
and the one on disk are different variables, and every place where the code
writes the one over the other is a step.

Actions, in the order of `apply_plan`: `Enter` with all checks under the lock,
`MakeDirectory`, `PrepareJournal`, `PublishTransaction`, then `ReuseGeneration`,
or the copy and `Promote`, or for a first activation `MakeContext` to
`PromoteContext`; `WriteReceipt` with its second inspection, `RecordProposal`,
`WritePending`, `PublishPointer`, `Commit`, `Confirm`, each journal write in
between on its own.  `ApplyRaises` is any check that refuses or any call that
fails, also after the commit.  `KeepPointer` to `RecordRolledBack` undo a
transaction, for the call that failed and for recovery alike; `Conflict` says
when they refuse, and then journal ROLLBACK_INCOMPLETE.  Recovery first settles
preparations, then undoes what is unresolved.  `Stop` is a death anywhere.

A refresh base is the pointer and the names next to it (`RefreshBase`): the code
also compares the contents and native identities of what these names lead to,
which nothing in the model changes.

`ActivationRegister` is what a reader relies on.  Its variable `current` is
refined by what the *journals* say: the pointer, or what it replaced while its
transaction is unresolved.  Readers refuse a pointer whose journal is not
COMMITTED, so what they accept is `current`, or for a while nothing.

### TaskCompletion

`active` and `completed` are the cards, `registry` and `history` the sets of
tasks completed in either file, the `...Temp` variables the temporary files,
whose names all callers share.  Per caller, `loaded` is what was parsed and
`original` the bytes that were read for the comparison and the rollback; in the
code these are separate readings (`:1207`, `:1219`), and so they are here.  A
call resolves the task, reads, checks again (`Recheck`), writes three temporary
files, replaces three files and unlinks the active card; a failure in the last
four steps undoes them in the code's order.  `overlapped` is a history variable:
a call wrote while another one was between its recheck and its end, or replaced
the history between another's two readings of it.  There is no lock that prevents
this, so the invariants are about what one call and its failures can do, and
`CardKept`, without that exception, shows what two can do together.

## 3. Runs

| Run | Question | Result |
|---|---|---|
| `content_transaction` | types, `OwnerContentKept`, `JournalCoversTree`, `EvidenceAgrees`, `RolledBackClean`, `CommitIsFinal`, refinement of `ContentPublication`, under every disturbance | holds, 421,650 states |
| `content_recovery` | does recovery settle every sealed transaction? | `RecoverySettles` holds, 7,170 states |
| `content_cleanup_crash` | does every rollback disturbed by process exits alone complete? | violated, see below |
| `windows_operation` | version 2: types, `AtMostOneAhead`, `TerminalAgree`, `StrangersKept`, refinement of `OrderedPublication` | holds, 14,824 states |
| `windows_recovery` | version 3: does recovery end every operation that has an intent (`Settles`), and is an installed manifest final (`ManifestFinal`)? | holds, 480 states |
| `task_claims` | types, `OneActive`, `ReportedKept`, `AtomicCalls`, `EndedFinal` | holds, 2.4 million states |
| `context_index` | `LockHeld`, `TakeoversBounded` and `CallsEnd` with slow, dying and failing writers | holds, 158,590 states |
| `session_index` | types, `IndexAgrees` and `SessionsKept`, when calls overlap and drop each other's updates | holds, 3.2 million states |
| `session_index_full` | can the index written be read (`WrittenIndexLoads`)? | violated, see below |
| `repository_intelligence` | types, `PointerSound`, `GenerationsVouched`, `OneUnresolved`, `SettledClean`, `RefusalsExplained`, `ReplacesReviewed`, recovery (`Settles`), refinement of `ActivationRegister` (`Atomic`) | holds, 994,576 states |
| `task_completion` | types, `RestAgrees`, `ActiveGoesLast`, `ReportedKept`, with failures and deaths anywhere | holds, 2,958,267 states |
| `task_completion_card` | is the card of a task always somewhere (`CardKept`)? | violated, see below |

### Bounds

* Content runs: one creation below a missing directory and one replacement.
  These are the two kinds of leaf and the two kinds of step; two mutations are
  enough for an applied one beside a pending one, and one directory for
  creation before and removal after its leaf.  Two owner versions, because an
  owner can overwrite what the engine put back.
* Windows runs: a replaced content file, a new evidence record, a replaced
  manifest: every role, both kinds, five steps.  The two versions
  differ in one definition (`HeadCommits`) and have a run each; the theorems are
  about both.
* Claims: two callers, three calls in all, a clock of three instants, two lock
  files.  Two callers on different inodes is the case that breaks a plain lock;
  the third call meets what the first two left.
* Context index: three writers, two of which may find the same stale lock, and a
  third whom the release of one that lost its lock lets in; all three are at work
  in some states.  The clock goes one unit past the stale limit, so a lock can
  be stale and a fresh one taken after it.
* Session index: two callers, three ids, and a capacity of
  two where the code has 10000: nothing depends on it but the comparison.
* Repository intelligence: three transactions, so that one can replace another
  and a third one be prepared for either; two sources, so that a generation is
  reused as well as made; one caller between its checks and the lock besides the
  holder.  Plans, deaths and failures share a bound of four (`MaxEvents`): three
  plans and one failure, or one plan with a failure, a death during its rollback
  and another one during recovery.  Waiting callers are not told apart but by
  their plans.
* Task completion: two callers, two tasks, two failures or deaths; one call's
  rollback, interrupted, meets another call.  `task_completion_card` allows none.

Symmetry is used for owner versions, callers and writers in runs without
liveness.  `CHECK_DEADLOCK FALSE` is set throughout: engines and callers really
stop when their calls are over and bounds are used up.

### Fairness

`content_recovery` and `windows_recovery` assume that the process goes on with
its next step, that somebody calls recovery again while it is needed, and that
disturbances end at some point (`Quiesce`).  The first is what a running process
does; the second is the operator the messages address; the third is why
`RecoverySettles` and `Settles` speak of `quiet`.  `context_index` assumes weak
fairness of each call's own steps only.  A writer may still die; the lock wait is
bounded by the code's timeout, which is why `LockTimeout` is a step of the call.
`repository_intelligence` assumes that the process with the lock goes on unless
it dies, and that somebody calls recovery while it is needed: `apply` refuses
until then and says so.  Deaths and failures end because `MaxEvents` bounds them.
No fairness is assumed of plans, callers or edits.

### Findings

* *content_cleanup_crash.*  `KNOWN_LIMITATIONS.md:66` says `naos upgrade
  --recover` resumes or rolls back managed transactions.  After a process exit
  between the removal of the private `staging` directory and the journal entry
  ROLLED_BACK, each recovery opens `staging` again, fails, and leaves
  ROLLBACK_INCOMPLETE; the tree itself is restored.  `RecoverySettles` shows
  that this interrupted cleanup is the only exception.
* *session_index_full.*  The capacity is checked when the index is read
  (`naos_session_identity.py:157`) and not when a record is added (`:392`, `:587`).
  An index that is just full is accepted and gets one more record; every later
  call, the report reference of the same command first, refuses to read it.
* *task_completion_card.*  `docs/tutorials/MICRO_TUTORIAL_14_...md:51` says that
  native completion *atomically* preserves the card and moves it, and
  `NAOS_CATALOG.md:1154` says *transactionally*.  Two completions of one task that
  pass the recheck together share their temporary files: the second finds its
  own gone and rolls back.  It puts the active card back, the first one unlinks
  that and reports success, and the rollback then removes the completed card.

What the runs show of repository intelligence is in agreement with its
documents.  `KNOWN_LIMITATIONS.md:50` says that incomplete unwitnessed bootstrap
objects stay preserved and refused: `Wedged` is exactly that state.
`RefusalsExplained` shows that it is the only one an undo or a recovery refuses,
and that only a first activation can get there, when nothing is served yet.  `SettledClean` has one exception (`undone`): a call that
fails after its commit and dies while it takes the commit back may leave
`.active.json.pending` next to a journal that says COMMITTED; no recovery looks
at that, and inspections refuse the store until somebody removes the file.

## 4. Theorems

8,963 proof obligations, all for arbitrary constants under the named assumptions
of each module (`PlanAssumption`, `OperationAssumption`, `ClaimsAssumption`,
`IndexAssumption`, `SessionAssumption`, `StoreAssumption`,
`CompletionAssumption`).

* **ContentTransactionProofs.**  `TypeCorrect`, `OwnerContentSafe`
  (`Spec => []OwnerContentKept`) and `CommitFinal` (`Spec => CommitIsFinal`), for
  every plan and every set of disturbances.  The inductive invariant adds three
  parts.  `ControlInv` relates the control point to the mutation index and to
  the pending action: without it, the journal is not typed.  `SlotInv` says private
  slots exist only while `staging` does: without it, a new preparation could drop
  an owner's content left in a slot.  `CommitInv` says that the commit branch of
  the cleanup is entered only past the commit: without it, the cleanup could
  discard a displaced original.
* **ContentTransactionJournalProofs.**  `JournalCovers`, `EvidenceNeverDisagrees`,
  `RollbackLeavesNothing` and `PublicationImplemented` (`Spec => PublicationSpec`),
  for every plan and every set of disturbances.  The three state invariants are
  not inductive, not even together: what the journal says of the tree depends on
  how far the engine was when it stopped.  `JInv` adds what is missing.
  `PreparingInv`: before the attempt is sealed nothing is recorded or public, so a
  discarded preparation leaves nothing.  `ForwardInv`: on the way to the commit
  the checkpoint is exactly as far as the index, so the manifest is published
  over a tree that is all applied.  `RollbackInv`: a part of the record is
  forgotten only once nothing of it is left, so ROLLED_BACK can be believed.
  `TreeInv`: while leaves are applied their slots hold the originals, so there is
  something to put back.  A rollback that is interrupted at any step keeps the
  same invariant, and so a recovery starts from it.  The proof sorts the 40-odd
  steps into kinds (`Halt`, `Bystander`, exchanges of a leaf and its slot, changes
  of one record) and treats each kind once.  In the refinement, the kinds that
  `ContentPublication` sees are opening, a trade, the commit and the closing; all
  else is a stutter (`UnseenStutters`).
* **WindowsOperationProofs.**  `TypeCorrect`, `OneStepAhead`, `TerminalsAgree`,
  `StrangersSafe`, `Refinement` (the operation implements `OrderedPublication`)
  and `ManifestStays`, for any list of publications and both versions.  The
  invariant says what the private slots and the journal have to do with each
  other at each control point (`Ahead`, `ControlOK`), and that the marked steps
  are a prefix (`JournalOK`).  It says nothing about the public targets, which
  are the owner's to change.
* **TaskClaimsProofs.**  `TypeCorrect`, `OneActiveClaim`, `NothingDropped`,
  `CallsSerial`, `EndedStays`.  `LockOK` (whoever is past the check has the lock
  of the inode at the path, and no two share one) gives `DraftOK`: what a caller is
  about to write is its call applied to the file as it is.  From there the claims
  only evolve (`AfterEvolves`): ids stay, ended claims stay as they are.
* **ContextIndexProofs.**  `TypeCorrect`, `WritersExcluded`
  (`Spec => []LockHeld`) and `TakeoversCounted` (`Spec => []TakeoversBounded`), for
  any set of writers.  The invariant of the second says that the lock at the path
  belongs to a writer inside and was taken no earlier than that writer's call
  began, so it looks stale to no call under way.  The third is not inductive: it
  does not say whose lock a release removes.  `Counted` bounds the writers at work
  whose lock is not at the path (`Stripped`) by `taken`.  A takeover strips at
  most the writer whose lock it removes and is counted if that is at work; a
  release of the writer's own lock strips nobody; a release by a stripped writer
  strips at most one other and leaves with it.  At most one writer at work
  is not stripped, which gives the bound.
* **SessionIndexProofs.**  `TypeCorrect`; `AlwaysAgrees` (`Spec => []IndexAgrees`),
  where drafts that were computed from an index overwritten since agree with
  themselves too; and `OnlyOvertakenLose` (`Spec => SessionsKept`), because the
  draft of a caller that was not overtaken has all the index has.  Calls that do
  not overlap lose nothing, as a special case.
* **RepositoryIntelligenceProofs.**  `TypeCorrect`, `OneUnresolvedHolds`,
  `RefreshTriedOnceHolds`, `ReplacesReviewedHolds` and `RegisterImplemented`
  (`Spec => Atomic`).  The inductive invariant `IInv` says that whoever has the
  lock works on the newest transaction (`Mine`, `Recovering`), that its journal on
  disk is what it has in memory but for what it is about to write (`Follows`,
  `Fresh`), that a pointer was journaled before it was published
  (`PointerJournaled`), and what holds while nobody has the lock (`Resting`).
  Without the memory part, a rollback could write any journal; without the
  pointer part, recovery could meet a pointer it does not know.  `Decided` adds
  what a call has published so far and what its rollback has put back.

  `PointerSoundHolds`, `GenerationsVouchedHolds`, `SettledCleanHolds` and
  `WedgedServesNothingHolds` rest on `Stored`, which relates the journals to the
  disk.  `Generations`, `Activations` and `Leftovers` say it of the disk alone:
  whose generation it is, what an activation relies on, and that whatever comes and
  goes belongs to the newest transaction.  `Remembering`, `Advancing` and
  `Undoing` say it of the process, step by step.  The memory is needed: a
  generation is in place before any journal says so, and it is the process, or a
  recovery that compares inodes, that writes it down before it resolves the
  transaction.  `RefusalsExplainedHolds` goes further with `Traced`: a journal that
  says a generation was staged is borne out by what is in its place (`Backed`), the
  prepared root is filled only after its identity was journaled (`Rooted`), and
  what a call checked before is still so when it checks again (`Rechecked`).
  `RefreshTriedOnce` is proved only: a plan that reviewed an activation is tried
  once, because a failed attempt changes the names it reviewed.  The refinement then goes action by
  action: all but those that create, resolve or reopen a journal, or move a
  committed pointer, are stutters.
* **TaskCompletionProofs.**  `TypeCorrect`, `RestAgreesHolds`, `ActiveGoesLastHolds`
  and `ReportedKeptHolds`.  Until calls overlap, at most one is writing, and the
  invariant tells for each of its steps which of the four files already have the
  task (and, in the rollback, which still do), and that for all other tasks what
  it read is what is there.

All safety invariants, action properties and refinements of the passing runs
are theorems.  Only model-checked: liveness (`RecoverySettles`, `CallsEnd`, and
`Settles` of the Windows operation and of repository intelligence; TLAPS proves
none under fairness here), and the violated properties, for which a counterexample
is the result.  `RefusalsExplainedHolds` is the safety part of the last of these:
what a repeated recovery needs is that it is never refused.

## 5. What is not modelled

* One transaction at a time: the project lock and several
  unfinished transactions are not in the engine models.
* Contents, digests, canonical JSON and record signatures are values that match
  or do not; a corrupted record is an error the engine refuses.  A durable write
  survives a crash once it returned; the directory syncs that give that are not
  steps.
* Windows record version 1, one-leaf coordinator, runtime.
* In repository intelligence: what an inspection finds in the source, enrollment
  and provenance, damaged journals and generations (they are refused), plans
  without a refresh base (an older format), queries, the Windows store.  A journal
  is replaced in one step (its pending file is removed by the next write), the
  inspection before the lock is one step, readers are not processes.
* In task completion: the record's contents, verification prerequisites, dry runs
  (nothing is written), registries without cards.  Resolving a task reads cards,
  registry and history in one step; the recheck is one step; a restoration is one
  step (a `.naos-rollback` file and a rename in the code).
* In the claims script: a claims file damaged from outside (it is then never
  written), the kit repository mode (no writes), the session report reference.
* The content of the context index, and which writer's reading is newer.
* The components marked `not_modelled` in `PROJECT.json`, with the reason there.

## 6. Plan

1. `CreateOnlyTransaction`: the v1 engine (`apply_create_only_plan`, its recovery),
   implementing `ContentPublication` too; runs as for v2; types and owner content
   proved.
2. `TransactionInventory`: several transactions under the project lock, two
   processes; composes with the engines' abstract specifications, not with the
   detailed ones.  One unfinished transaction at a time, recovery order.
3. `ChangeClassification`: the planner's three-way comparison as operators, checked
   against a reference definition over all small inputs; override expiry likewise.
4. `WindowsRuntime`: the list of operations, ordered recovery, refusal.
5. Proofs: the counterpart of `RefusalsExplained` for the two transaction engines
   (recovery is refused only by what the owner did or by the interrupted cleanup of
   *content_cleanup_crash*), then the safety theorems of 1 and 2.
