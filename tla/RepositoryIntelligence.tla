----------------------- MODULE RepositoryIntelligence -----------------------
(***************************************************************************)
(* The store of repository intelligence on POSIX systems                   *)
(* (scripts/naos_repository_intelligence.py): generations of an index,     *)
(* each a private directory that is never changed once published, and a    *)
(* pointer to the active one.  A plan is made for the source as it is and  *)
(* for the activation it would replace; applying it publishes a generation *)
(* and then the pointer, under a lock that is never waited for, step by    *)
(* step after a journal; recovery undoes what a stopped call left.         *)
(*                                                                         *)
(* A generation is named after its content, so it is identified here with  *)
(* the version of the source it was built from.  Transactions are numbered *)
(* in the order in which they began.                                       *)
(***************************************************************************)
EXTENDS Integers, Sequences, FiniteSets, SequencesExt

CONSTANTS
  Sources,          \* versions of the project's source
  MaxTransactions,  \* bound of the number of transactions
  MaxWaiting,       \* bound of the callers between their checks and the lock
  MaxEvents         \* bound of the plans made, deaths and failing calls, together

ASSUME StoreAssumption ==
  /\ Sources # {}
  /\ MaxTransactions \in Nat /\ MaxWaiting \in Nat /\ MaxEvents \in Nat

VARIABLES
  source,     \* the project's source, which its owner edits
  pointer,    \* active.json: the transaction it names, or 0
  pending,    \* is there a .active.json.pending?
  context,    \* is there a context root?
  published,  \* for each published generation, whose staging directory it is
  staging,    \* staging/ of the newest transaction
  prepared,   \* context/ of the newest transaction: the root it would publish
  receipts,   \* transactions with an activation receipt
  journals,   \* the journals on disk
  plans,      \* plan files
  checked,    \* plans whose caller is about to take the lock
  holder,     \* what the holder of the lock does: "none", "apply", "recover"
  at,         \* the step the holder is about to take
  me,         \* the transaction it works on, or 0
  mem,        \* that transaction's journal in the holder's memory
  todo,       \* transactions this recovery has still to undo
  stops,      \* deaths and failures so far
  undone      \* history: commits that were followed by a failure of the call

disk == <<pointer, pending, context, published, staging, prepared, receipts>>
call == <<holder, at, me, mem, todo>>
vars == <<source, disk, journals, plans, checked, call, stops, undone>>

Transactions == 1..MaxTransactions
None == 0

\* What a plan was reviewed against: no pointer at all, or the pointer and
\* the names in the transactions directory.
Bases == [tx : {None} \cup Transactions, names : Nat, preparing : BOOLEAN]
Plans == [gen : Sources, base : Bases]

States == {"EMPTY", "PREPARING", "PREPARED", "APPLYING", "VALIDATING",
           "COMMITTED", "ROLLED_BACK", "ROLLBACK_INCOMPLETE"}
Final == {"COMMITTED", "ROLLED_BACK"}

Journals ==
  [plan : Plans, state : States,
   before : {None} \cup Transactions, \* active_before
   initial : BOOLEAN,                 \* initial_context_absent
   staged : BOOLEAN,                  \* is the identity of staging/ recorded?
   rooted : BOOLEAN,                  \* is the identity of context/ recorded?
   published : BOOLEAN,               \* generation_published
   index : -1..4,                     \* completed_action_index
   proposed : BOOLEAN]                \* are the digests of the new pointer?

\* Variant: a context root without a pointer is taken for none.
NewJournalWithoutPointer(plan) ==
  [plan |-> plan, state |-> "EMPTY", before |-> pointer, initial |-> pointer = None,
   staged |-> FALSE, rooted |-> FALSE, published |-> FALSE, index |-> -1,
   proposed |-> FALSE]

NewJournal(plan) ==
  [plan |-> plan, state |-> "EMPTY", before |-> pointer, initial |-> ~context,
   staged |-> FALSE, rooted |-> FALSE, published |-> FALSE, index |-> -1,
   proposed |-> FALSE]

Newest == Len(journals)
GenOf(t) == journals[t].plan.gen
Unresolved == {t \in DOMAIN journals : journals[t].state \notin Final}
Preparing == {t \in DOMAIN journals : journals[t].state \in {"EMPTY", "PREPARING"}}

\* Versions are only ever compared: which one comes first makes no difference.
FirstSource == CHOOSE s \in Sources : TRUE

\* The journal in memory when there is none.
NoBase == [tx |-> None, names |-> 0, preparing |-> FALSE]
NoJournal ==
  [plan |-> [gen |-> FirstSource, base |-> NoBase],
   state |-> "EMPTY", before |-> None, initial |-> FALSE, staged |-> FALSE,
   rooted |-> FALSE, published |-> FALSE, index |-> -1, proposed |-> FALSE]
MyGen == mem.plan.gen

UndoSteps == {"restore", "replace", "clean", "reconcile", "emptying",
              "dismantled", "unstage", "record"}
EarlySteps == {"mkdir", "prepare", "publish"}
ApplySteps ==
  {"choose", "copy", "copying", "recordStaged", "mkContext", "mkGenerations",
   "recordContext", "fill", "promoteContext", "promote", "recordPublished",
   "revalidate", "recordReceipt", "recordProposal", "check", "point",
   "recordPointed", "validate", "confirm"}

TypeOK ==
  /\ source \in Sources
  /\ pointer \in {None} \cup Transactions
  /\ pending \in BOOLEAN /\ context \in BOOLEAN
  /\ DOMAIN published \subseteq Sources
  /\ \A g \in DOMAIN published : published[g] \in Transactions
  /\ staging \in {"none", "partial", "complete"}
  /\ prepared \in {"none", "bare", "ready", "filled", "torn"}
  /\ receipts \subseteq Transactions
  /\ journals \in Seq(Journals) /\ Newest <= MaxTransactions
  /\ plans \subseteq Plans /\ checked \subseteq plans
  /\ holder \in {"none", "apply", "recover"}
  /\ at \in {"idle", "normalise", "next"} \cup EarlySteps \cup ApplySteps \cup UndoSteps
  /\ me \in {None} \cup Transactions /\ mem \in Journals
  /\ todo \subseteq Transactions
  /\ stops \in 0..MaxEvents
  /\ undone \subseteq Transactions

Init ==
  /\ source = FirstSource
  /\ pointer = None /\ pending = FALSE /\ context = FALSE
  /\ published = <<>> /\ staging = "none" /\ prepared = "none"
  /\ receipts = {} /\ journals = <<>> /\ plans = {} /\ checked = {}
  /\ holder = "none" /\ at = "idle" /\ me = None /\ mem = NoJournal /\ todo = {}
  /\ stops = 0 /\ undone = {}

MayHappen == Cardinality(plans) + stops < MaxEvents
Idle == holder = "none"
Release ==
  /\ holder' = "none" /\ at' = "idle" /\ me' = None /\ mem' = NoJournal
  /\ todo' = {}
Goto(step) == at' = step /\ UNCHANGED <<holder, me, todo>>
Continue(step) == Goto(step) /\ UNCHANGED mem
Write(state) == journals' = [journals EXCEPT ![me] = [mem EXCEPT !.state = state]]
Apart(g, t) == [h \in DOMAIN published \cup {g} |-> IF h = g THEN t ELSE published[h]]

-----------------------------------------------------------------------------
(* Plans, and what a caller looks at before it takes the lock.             *)

\* A journal that says that its transaction published generation g.
Vouches(t, g) ==
  /\ GenOf(t) = g /\ journals[t].published /\ journals[t].index >= 1

\* With no pointer, every generation must be that of a journal, inode and all.
InactiveContextOwned(inflight) ==
  /\ ~pending /\ pointer = None /\ DOMAIN published # {}
  /\ \A g \in DOMAIN published : \E t \in DOMAIN journals :
       /\ Vouches(t, g) /\ published[g] = t
       /\ \/ journals[t].state \in Final
          \/ t = inflight /\ journals[t].state \in {"APPLYING", "VALIDATING"}

\* No blocking finding of inspect_repository about the context root.
Inspectable(inflight) ==
  context => ~pending /\ (pointer = None => InactiveContextOwned(inflight))

\* The witness of a refresh lease: the pointer and its neighbours' names.
RefreshBase ==
  IF pointer = None THEN NoBase
  ELSE [tx |-> pointer, names |-> Newest, preparing |-> Preparing # {}]

ActiveCommitted == pointer # None => journals[pointer].state = "COMMITTED"

EditSource ==
  /\ source' \in Sources \ {source}
  /\ UNCHANGED <<disk, journals, plans, checked, call, stops, undone>>

BuildPlan ==
  /\ Idle /\ Inspectable(None) /\ ActiveCommitted
  /\ MayHappen
  /\ plans' = plans \cup {[gen |-> source, base |-> RefreshBase]}
  /\ UNCHANGED <<source, disk, journals, checked, call, stops, undone>>

Precheck(plan) ==
  /\ plan.gen = source /\ Inspectable(None)
  /\ Cardinality(checked) < MaxWaiting
  /\ checked' = checked \cup {plan}
  /\ UNCHANGED <<source, disk, journals, plans, call, stops, undone>>

\* The lock is held, a check under the lock refuses, the plan is already
\* active, or the caller dies: nothing is changed.
Leave(plan) ==
  /\ plan \in checked
  /\ checked' = checked \ {plan}
  /\ UNCHANGED <<source, disk, journals, plans, call, stops, undone>>

-----------------------------------------------------------------------------
(* Applying a plan.                                                        *)

\* Variant: a plan is applied to whatever is active.
ReviewedOnce(base, own) == TRUE

\* Is the store what the plan was reviewed against, but for the transaction
\* that applies it?
Reviewed(base, own) ==
  RefreshBase = [base EXCEPT !.names = IF base.tx = None THEN 0 ELSE @ + own]

\* Variant: the journals are not looked at.
MayApplyAnyway(plan) ==
  /\ Inspectable(None) /\ ActiveCommitted
  /\ pointer # None => journals[pointer].plan # plan
  /\ Reviewed(plan.base, 0)

\* The checks made under the lock, before anything is written.
MayApply(plan) ==
  /\ Unresolved = {} /\ Inspectable(None) /\ ActiveCommitted
  /\ pointer # None => journals[pointer].plan # plan
  /\ Reviewed(plan.base, 0)

Enter(plan) ==
  /\ plan \in checked /\ Idle /\ Newest < MaxTransactions /\ MayApply(plan)
  /\ checked' = checked \ {plan}
  /\ holder' = "apply" /\ at' = "mkdir" /\ me' = Newest + 1
  /\ mem' = NewJournal(plan) /\ todo' = {}
  /\ UNCHANGED <<source, disk, journals, plans, stops, undone>>

MakeDirectory ==
  /\ at = "mkdir"
  /\ journals' = Append(journals, mem) /\ Continue("prepare")
  /\ UNCHANGED <<source, disk, plans, checked, stops, undone>>

PrepareJournal ==
  /\ at = "prepare"
  /\ Write("PREPARING") /\ Continue("publish")
  /\ UNCHANGED <<source, disk, plans, checked, stops, undone>>

PublishTransaction ==
  /\ at = "publish"
  /\ Write("PREPARED") /\ Continue("choose")
  /\ UNCHANGED <<source, disk, plans, checked, stops, undone>>

ReuseAuthorized(g) ==
  \E t \in DOMAIN journals \ {me} : journals[t].state \in Final /\ Vouches(t, g)

ReuseGeneration ==
  /\ at = "choose" /\ MyGen \in DOMAIN published /\ ReuseAuthorized(MyGen)
  /\ mem' = [mem EXCEPT !.index = 1] /\ Goto("recordPublished")
  /\ UNCHANGED <<source, disk, journals, plans, checked, stops, undone>>

StartCopy ==
  /\ at = "choose" /\ MyGen \notin DOMAIN published
  /\ Write("APPLYING") /\ Continue("copy")
  /\ UNCHANGED <<source, disk, plans, checked, stops, undone>>

BeginCopy ==
  /\ at = "copy"
  /\ staging' = "partial" /\ Continue("copying")
  /\ UNCHANGED <<source, pointer, pending, context, published, prepared, receipts,
                 journals, plans, checked, stops, undone>>

FinishCopy ==
  /\ at = "copying"
  /\ staging' = "complete"
  /\ mem' = [mem EXCEPT !.staged = TRUE, !.index = 0] /\ Goto("recordStaged")
  /\ UNCHANGED <<source, pointer, pending, context, published, prepared, receipts,
                 journals, plans, checked, stops, undone>>

RecordStaged ==
  /\ at = "recordStaged"
  /\ Write("APPLYING") /\ Continue(IF mem.initial THEN "mkContext" ELSE "promote")
  /\ UNCHANGED <<source, disk, plans, checked, stops, undone>>

\* A first activation publishes the context root with the generation in it.
MakeContext ==
  /\ at = "mkContext"
  /\ prepared' = "bare" /\ Continue("mkGenerations")
  /\ UNCHANGED <<source, pointer, pending, context, published, staging, receipts,
                 journals, plans, checked, stops, undone>>

MakeGenerations ==
  /\ at = "mkGenerations"
  /\ prepared' = "ready"
  /\ mem' = [mem EXCEPT !.rooted = TRUE] /\ Goto("recordContext")
  /\ UNCHANGED <<source, pointer, pending, context, published, staging, receipts,
                 journals, plans, checked, stops, undone>>

\* Variant: the identity of the prepared root is not journaled at once.
RecordContextLater ==
  /\ at = "recordContext"
  /\ Continue("fill")
  /\ UNCHANGED <<source, disk, journals, plans, checked, stops, undone>>

RecordContext ==
  /\ at = "recordContext"
  /\ Write("APPLYING") /\ Continue("fill")
  /\ UNCHANGED <<source, disk, plans, checked, stops, undone>>

FillContext ==
  /\ at = "fill"
  /\ staging' = "none" /\ prepared' = "filled" /\ Continue("promoteContext")
  /\ UNCHANGED <<source, pointer, pending, context, published, receipts, journals,
                 plans, checked, stops, undone>>

PromoteContext ==
  /\ at = "promoteContext" /\ ~context
  /\ context' = TRUE /\ prepared' = "none" /\ published' = Apart(MyGen, me)
  /\ mem' = [mem EXCEPT !.published = TRUE, !.index = 1] /\ Goto("recordPublished")
  /\ UNCHANGED <<source, pointer, pending, staging, receipts, journals, plans,
                 checked, stops, undone>>

Promote ==
  /\ at = "promote" /\ ~pending /\ MyGen \notin DOMAIN published
  /\ staging' = "none" /\ published' = Apart(MyGen, me)
  /\ mem' = [mem EXCEPT !.published = TRUE, !.index = 1] /\ Goto("recordPublished")
  /\ UNCHANGED <<source, pointer, pending, context, prepared, receipts, journals,
                 plans, checked, stops, undone>>

RecordPublished ==
  /\ at = "recordPublished"
  /\ Write("APPLYING") /\ Continue("revalidate")
  /\ UNCHANGED <<source, disk, plans, checked, stops, undone>>

\* The source is inspected once more before the receipt is written.
WriteReceipt ==
  /\ at = "revalidate" /\ source = MyGen /\ Inspectable(me)
  /\ receipts' = receipts \cup {me}
  /\ mem' = [mem EXCEPT !.index = 2] /\ Goto("recordReceipt")
  /\ UNCHANGED <<source, pointer, pending, context, published, staging, prepared,
                 journals, plans, checked, stops, undone>>

RecordReceipt ==
  /\ at = "recordReceipt"
  /\ Write("VALIDATING")
  /\ mem' = [mem EXCEPT !.proposed = TRUE] /\ Goto("recordProposal")
  /\ UNCHANGED <<source, disk, plans, checked, stops, undone>>

\* Variant: the proposal is journaled after the pointer was replaced.
RecordProposalLater ==
  /\ at = "recordProposal"
  /\ Continue("check")
  /\ UNCHANGED <<source, disk, journals, plans, checked, stops, undone>>

RecordProposal ==
  /\ at = "recordProposal"
  /\ Write("VALIDATING") /\ Continue("check")
  /\ UNCHANGED <<source, disk, plans, checked, stops, undone>>

\* _atomic_write_bytes: a pending file, then a replacement.
WritePending ==
  /\ at = "check" /\ Reviewed(mem.plan.base, 1)
  /\ pending' = TRUE /\ Continue("point")
  /\ UNCHANGED <<source, pointer, context, published, staging, prepared, receipts,
                 journals, plans, checked, stops, undone>>

PublishPointer ==
  /\ at = "point"
  /\ pointer' = me /\ pending' = FALSE
  /\ mem' = [mem EXCEPT !.index = 3] /\ Goto("recordPointed")
  /\ UNCHANGED <<source, context, published, staging, prepared, receipts,
                 journals, plans, checked, stops, undone>>

RecordPointed ==
  /\ at = "recordPointed"
  /\ Write("VALIDATING") /\ Continue("validate")
  /\ UNCHANGED <<source, disk, plans, checked, stops, undone>>

\* What has been published is validated against the source as it is now.
Commit ==
  /\ at = "validate" /\ source = MyGen
  /\ mem' = [mem EXCEPT !.index = 4]
  /\ journals' = [journals EXCEPT ![me] = [mem' EXCEPT !.state = "COMMITTED"]]
  /\ Goto("confirm")
  /\ UNCHANGED <<source, disk, plans, checked, stops, undone>>

\* The last validation: a stale result is reported, not an error.
Confirm ==
  /\ at = "confirm"
  /\ Release
  /\ UNCHANGED <<source, disk, journals, plans, checked, stops, undone>>

\* A check of the call itself that refuses to go on.
Refused ==
  \/ at = "choose" /\ MyGen \in DOMAIN published /\ ~ReuseAuthorized(MyGen)
  \/ at = "promoteContext" /\ context
  \/ at = "promote" /\ (pending \/ MyGen \in DOMAIN published)
  \/ at = "revalidate" /\ ~(source = MyGen /\ Inspectable(me))
  \/ at = "check" /\ ~Reviewed(mem.plan.base, 1)
  \/ at = "validate" /\ source # MyGen

\* It raises, also after the commit, and the call undoes its transaction.
ApplyRaises ==
  /\ at \in ApplySteps
  /\ \/ Refused /\ UNCHANGED stops
     \/ MayHappen /\ stops' = stops + 1
  /\ undone' = IF at = "confirm" THEN undone \cup {me} ELSE undone
  /\ pending' \in {pending, FALSE}
  /\ Continue("restore")
  /\ UNCHANGED <<source, pointer, context, published, staging, prepared, receipts,
                 journals, plans, checked>>

-----------------------------------------------------------------------------
(* Undoing a transaction: _restore_active_pointer, then                    *)
(* _cleanup_failed_transaction_state, then the journal.                    *)

PointerRestored ==
  \/ pointer = mem.before
  \/ holder = "apply" /\ ~mem.proposed

KeepPointer ==
  /\ at = "restore" /\ PointerRestored
  /\ Continue("clean")
  /\ UNCHANGED <<source, disk, journals, plans, checked, stops, undone>>

RemovePointer ==
  /\ at = "restore" /\ ~PointerRestored
  /\ mem.proposed /\ pointer = me /\ mem.before = None
  /\ pointer' = None /\ Continue("clean")
  /\ UNCHANGED <<source, pending, context, published, staging, prepared, receipts,
                 journals, plans, checked, stops, undone>>

RestorePending ==
  /\ at = "restore" /\ ~PointerRestored
  /\ mem.proposed /\ pointer \in {me, None} /\ mem.before # None
  /\ pending' = TRUE /\ Continue("replace")
  /\ UNCHANGED <<source, pointer, context, published, staging, prepared, receipts,
                 journals, plans, checked, stops, undone>>

\* Variant: the pointer is taken away, not put back.
ForgetPointer ==
  /\ at = "replace"
  /\ pointer' = None /\ pending' = FALSE /\ Continue("clean")
  /\ UNCHANGED <<source, context, published, staging, prepared, receipts,
                 journals, plans, checked, stops, undone>>

RestorePointer ==
  /\ at = "replace"
  /\ pointer' = mem.before /\ pending' = FALSE /\ Continue("clean")
  /\ UNCHANGED <<source, context, published, staging, prepared, receipts,
                 journals, plans, checked, stops, undone>>

\* Variant: a pending pointer is left where it is.
KeepPending ==
  /\ at = "clean"
  /\ Continue("reconcile")
  /\ UNCHANGED <<source, disk, journals, plans, checked, stops, undone>>

RemovePending ==
  /\ at = "clean"
  /\ pending' = FALSE /\ Continue("reconcile")
  /\ UNCHANGED <<source, pointer, context, published, staging, prepared, receipts,
                 journals, plans, checked, stops, undone>>

\* Is what was published, if anything, this transaction's own?
GenerationKnown ==
  IF MyGen \in DOMAIN published
  THEN IF mem.staged THEN published[MyGen] = me ELSE ~mem.published
  ELSE ~mem.published

ContextKnown ==
  IF context
  THEN /\ prepared = "none" /\ mem.rooted /\ pointer = None /\ ~pending
       /\ published = Apart(MyGen, me) /\ Cardinality(DOMAIN published) = 1
  ELSE prepared = "none" /\ ~mem.published

NothingToDismantle ==
  IF mem.initial THEN ContextKnown ELSE GenerationKnown

Reconcile ==
  /\ at = "reconcile" /\ NothingToDismantle
  /\ Continue("unstage")
  /\ UNCHANGED <<source, disk, journals, plans, checked, stops, undone>>

\* The prepared root is taken apart only if it is exactly as journaled.
MayDismantle == mem.initial /\ ~context /\ mem.rooted

DismantlePrepared ==
  /\ at = "reconcile" /\ MayDismantle
  /\ \/ prepared = "filled" /\ prepared' = "torn" /\ Continue("emptying")
     \/ prepared = "ready" /\ prepared' = "bare" /\ Continue("dismantled")
  /\ UNCHANGED <<source, pointer, pending, context, published, staging, receipts,
                 journals, plans, checked, stops, undone>>

EmptyPrepared ==
  /\ at = "emptying"
  /\ prepared' = "bare" /\ Continue("dismantled")
  /\ UNCHANGED <<source, pointer, pending, context, published, staging, receipts,
                 journals, plans, checked, stops, undone>>

RemovePrepared ==
  /\ at = "dismantled"
  /\ prepared' = "none" /\ Continue("unstage")
  /\ UNCHANGED <<source, pointer, pending, context, published, staging, receipts,
                 journals, plans, checked, stops, undone>>

\* Variant: what is journaled is believed.
NotReconciled == mem

\* Variant: reconciling counts as one more action.
ReconciledAsAction ==
  IF (mem.initial /\ context) \/ (~mem.initial /\ mem.staged /\ MyGen \in DOMAIN published)
  THEN [mem EXCEPT !.published = TRUE, !.index = @ + 1]
  ELSE mem

\* A generation found in its place by its inode is journaled as published.
Reconciled ==
  IF (mem.initial /\ context) \/ (~mem.initial /\ mem.staged /\ MyGen \in DOMAIN published)
  THEN [mem EXCEPT !.published = TRUE, !.index = IF @ < 1 THEN 1 ELSE @]
  ELSE mem

RemoveStaging ==
  /\ at = "unstage"
  /\ staging' = "none" /\ mem' = Reconciled /\ Goto("record")
  /\ UNCHANGED <<source, pointer, pending, context, published, prepared, receipts,
                 journals, plans, checked, stops, undone>>

\* An apply returns; a recovery turns to what it has left to do.
UndoEnds ==
  IF holder = "apply" THEN Release
  ELSE /\ at' = "next" /\ me' = None /\ mem' = NoJournal
       /\ todo' = todo \ {me} /\ UNCHANGED holder

RecordRolledBack ==
  /\ at = "record"
  /\ Write("ROLLED_BACK") /\ UndoEnds
  /\ UNCHANGED <<source, disk, plans, checked, stops, undone>>

Conflict ==
  \/ /\ at = "restore" /\ ~PointerRestored
     /\ ~(mem.proposed /\ pointer \in {me, None})
  \/ /\ at = "reconcile" /\ ~NothingToDismantle
     /\ ~(MayDismantle /\ prepared \in {"filled", "ready"})

UndoRaises ==
  /\ at \in UndoSteps
  /\ \/ Conflict /\ UNCHANGED stops
     \/ MayHappen /\ stops' = stops + 1
  /\ Write("ROLLBACK_INCOMPLETE") /\ UndoEnds
  /\ UNCHANGED <<source, disk, plans, checked, undone>>

-----------------------------------------------------------------------------
(* Recovery, and death.                                                    *)

StartRecovery ==
  /\ Idle /\ Unresolved # {}
  /\ holder' = "recover" /\ at' = "normalise"
  /\ UNCHANGED <<source, disk, journals, plans, checked, me, mem, todo, stops, undone>>

DiscardPreparation ==
  /\ at = "normalise" /\ Newest # 0 /\ journals[Newest].state = "EMPTY"
  /\ journals' = Front(journals)
  /\ UNCHANGED <<source, disk, plans, checked, call, stops, undone>>

AdoptPreparation(t) ==
  /\ at = "normalise" /\ journals[t].state = "PREPARING"
  /\ journals' = [journals EXCEPT ![t].state = "PREPARED"]
  /\ UNCHANGED <<source, disk, plans, checked, call, stops, undone>>

ListUnresolved ==
  /\ at = "normalise" /\ Preparing = {}
  /\ todo' = Unresolved /\ at' = "next"
  /\ UNCHANGED <<source, disk, journals, plans, checked, holder, me, mem, stops, undone>>

UndoNext ==
  /\ at = "next"
  /\ \E t \in todo : me' = t /\ mem' = journals[t]
  /\ at' = "restore"
  /\ UNCHANGED <<source, disk, journals, plans, checked, holder, todo, stops, undone>>

EndRecovery ==
  /\ at = "next" /\ todo = {}
  /\ Release
  /\ UNCHANGED <<source, disk, journals, plans, checked, stops, undone>>

\* The holder dies, or fails where nothing is undone or journaled any more.
Stop ==
  /\ ~Idle /\ MayHappen
  /\ stops' = stops + 1
  /\ Release
  /\ UNCHANGED <<source, disk, journals, plans, checked, undone>>

-----------------------------------------------------------------------------
ApplyStep ==
  \/ MakeDirectory \/ PrepareJournal \/ PublishTransaction
  \/ ReuseGeneration \/ StartCopy \/ BeginCopy \/ FinishCopy \/ RecordStaged
  \/ MakeContext \/ MakeGenerations \/ RecordContext \/ FillContext
  \/ PromoteContext \/ Promote \/ RecordPublished
  \/ WriteReceipt \/ RecordReceipt \/ RecordProposal
  \/ WritePending \/ PublishPointer \/ RecordPointed \/ Commit \/ Confirm

UndoStep ==
  \/ KeepPointer \/ RemovePointer \/ RestorePending \/ RestorePointer
  \/ RemovePending \/ Reconcile \/ DismantlePrepared \/ EmptyPrepared
  \/ RemovePrepared \/ RemoveStaging \/ RecordRolledBack

RecoverStep ==
  \/ StartRecovery \/ DiscardPreparation \/ ListUnresolved \/ UndoNext \/ EndRecovery
  \/ \E t \in DOMAIN journals : AdoptPreparation(t)

Next ==
  \/ EditSource \/ BuildPlan
  \/ \E plan \in plans : Precheck(plan) \/ Leave(plan) \/ Enter(plan)
  \/ ApplyStep \/ ApplyRaises \/ UndoStep \/ UndoRaises \/ RecoverStep \/ Stop

Spec == Init /\ [][Next]_vars

\* Calls go on unless they die, and what needs recovery is recovered again.
FairSpec ==
  Spec /\ WF_vars(ApplyStep \/ ApplyRaises \/ UndoStep \/ UndoRaises \/ RecoverStep)

-----------------------------------------------------------------------------
(* The pointer always names a complete generation with its receipt, under  *)
(* a journal from which a recovery could still take it back: a transaction *)
(* that was rolled back never stays the active one.                        *)
PointerSound ==
  pointer # None =>
    /\ context /\ GenOf(pointer) \in DOMAIN published /\ pointer \in receipts
    /\ journals[pointer].state # "ROLLED_BACK"
    /\ journals[pointer].proposed
    /\ journals[pointer].before # pointer

(* A published generation is never orphaned: its journal vouches for it as *)
(* soon as it is resolved, so that a later plan may use it again.          *)
GenerationsVouched ==
  \A g \in DOMAIN published :
    LET t == published[g]
    IN  t \in Unresolved \/ (journals[t].state \in Final /\ Vouches(t, g))

(* However calls overlap, fail and stop, at most one transaction is        *)
(* unresolved, the newest one, and it belongs to the pointer it found.     *)
OneUnresolved ==
  \A t \in Unresolved :
    /\ t = Newest
    /\ pointer \in {t, journals[t].before}
    /\ journals[t].before # None => journals[journals[t].before].state = "COMMITTED"

(* With no call and nothing unresolved, nothing half done is left: neither *)
(* staging, nor a prepared root, nor a pending pointer, which would make   *)
(* every later plan be refused.  The exception is a call that failed after *)
(* its commit and died while it was taking the commit back.                *)
SettledClean ==
  Idle /\ Unresolved = {} =>
    /\ staging = "none" /\ prepared = "none"
    /\ pending => Newest \in undone

(* A plan that reviewed an activation is tried once: after a failed        *)
(* attempt the names it reviewed are not those any more.                   *)
RefreshTriedOnce ==
  \A t, u \in DOMAIN journals :
    t # u /\ journals[t].plan = journals[u].plan => journals[t].plan.base.tx = None

(* The pointer moves forward only from the very activation that the plan   *)
(* of the new one was reviewed against, however long ago that was and      *)
(* whoever else made plans: no activation in between is lost.              *)
ReplacesReviewed ==
  [][pointer' > pointer => journals'[pointer'].plan.base.tx = pointer]_vars

(* A prepared root that is not as its journal says cannot be recovered:    *)
(* it is preserved and every later apply is refused.                       *)
Wedged ==
  \/ prepared \in {"bare", "torn"}
  \/ prepared = "ready" /\ Newest # 0 /\ ~journals[Newest].rooted

(* That can only happen to a first activation: an activation that readers  *)
(* use is never behind a transaction that recovery cannot resolve.         *)
WedgedServesNothing == Wedged => pointer = None /\ ~context /\ published = <<>>

(* No call stands in its own way.  What an apply checks again under the    *)
(* lock refuses nothing but a source that was edited meanwhile, and what   *)
(* an undo checks before it removes anything refuses nothing that a        *)
(* stopped call or recovery can have left, but for a wedged prepared root. *)
RefusalsExplained ==
  /\ Refused => source # MyGen
  /\ Conflict => Wedged
  /\ WedgedServesNothing

(* With recovery repeated, every transaction comes to be resolved, unless  *)
(* what was prepared for a first activation is not as journaled.           *)
Settles == <>[](Unresolved = {} \/ Wedged)

-----------------------------------------------------------------------------
(* Seen from outside, a transaction takes place when its journal says      *)
(* COMMITTED, whatever the pointer file holds before or after.             *)
Served ==
  IF pointer \in Unresolved THEN journals[pointer].before ELSE pointer

Tried == IF Unresolved = {} THEN None ELSE Newest
Replaced == [t \in DOMAIN journals |-> journals[t].before]

Register == INSTANCE ActivationRegister WITH
  current <- Served, trying <- Tried, replaces <- Replaced

Atomic == Register!Spec
=============================================================================
