--------------------- MODULE RepositoryIntelligenceProofs ---------------------
(***************************************************************************)
(* Proofs about RepositoryIntelligence, for any sources and bounds.  The   *)
(* inductive invariant says why one journal at a time is enough: only the  *)
(* newest transaction is ever worked on, its journal agrees with what the  *)
(* holder of the lock remembers about its plan and its predecessor, and    *)
(* that predecessor was committed before it began and is touched no more.  *)
(* Three strengthenings follow: Decided, for the store seen as a register; *)
(* Stored, for what the journals say of generations, receipts, the context *)
(* root and whatever a stopped call left beside them; and Traced, for why  *)
(* nothing that was left makes a later check of a call refuse.             *)
(***************************************************************************)
EXTENDS RepositoryIntelligence, FiniteSetTheorems, SequenceTheorems, TLAPS

\* The steps at which the holder of the lock works on a transaction on disk.
WorkSteps == (EarlySteps \ {"mkdir"}) \cup ApplySteps \cup UndoSteps

\* What a journal says about the transaction before it, once and for all.
Follows(t) ==
  /\ journals[t].before \in 0..(t - 1)
  /\ journals[t].before # None => journals[journals[t].before].state = "COMMITTED"
  /\ journals[t].plan.base.tx = journals[t].before
  /\ journals[t].before # None => journals[t].plan.base.names = t - 1

\* The transaction that the holder of the lock is about to create.
Fresh ==
  at = "mkdir" =>
    /\ me = Newest + 1 /\ Newest < MaxTransactions /\ Unresolved = {}
    /\ mem.state = "EMPTY"
    /\ mem.before = pointer
    /\ pointer # None => journals[pointer].state = "COMMITTED"
    /\ mem.plan.base.tx = pointer
    /\ pointer # None => mem.plan.base.names = Newest

\* The transaction that the holder of the lock works on.
Mine ==
  at \in WorkSteps =>
    /\ me = Newest /\ me # None
    /\ mem.plan = journals[me].plan /\ mem.before = journals[me].before
    /\ pointer \in {me, mem.before}
    /\ at # "prepare" => journals[me].state # "EMPTY"

Recovering ==
  /\ at \in {"idle", "mkdir", "normalise"} => todo = {}
  /\ at = "next" => todo \subseteq Unresolved \ Preparing
  /\ todo \subseteq {Newest}

PointerJournaled ==
  pointer # None => pointer \in DOMAIN journals /\ journals[pointer].state # "EMPTY"

Ordered ==
  /\ \A t \in DOMAIN journals : Follows(t)
  /\ Fresh /\ Mine /\ Recovering /\ PointerJournaled
  /\ OneUnresolved

\* Between calls there is nothing to go on with.
Resting == Idle => at = "idle"

\* The inductive invariant.
IInv == TypeOK /\ IsFiniteSet(plans) /\ Resting /\ Ordered

-----------------------------------------------------------------------------
(***************************************************************************)
(* Types.                                                                  *)
(***************************************************************************)
LEMMA WriteTyped ==
  ASSUME TypeOK, NEW s \in States, Write(s)
  PROVE  journals' \in Seq(Journals) /\ Newest' = Newest
<1>1. [mem EXCEPT !.state = s] \in Journals
  BY DEF TypeOK, Journals
<1>2. CASE me \in 1..Newest
  BY <1>1, <1>2, ExceptSeq DEF TypeOK, Write, Newest
<1>3. CASE me \notin 1..Newest
  <2>1. journals \in Seq(Journals) /\ me \notin DOMAIN journals
    BY <1>3 DEF TypeOK, Newest
  <2>2. journals' = journals
    BY <2>1 DEF Write
  <2> QED BY <2>1, <2>2 DEF Newest
<1> QED BY <1>2, <1>3

LEMMA IndexTyped ==
  ASSUME NEW m \in Journals, NEW i \in -1..4
  PROVE  [m EXCEPT !.index = i] \in Journals
BY DEF Journals

LEMMA MemTyped ==
  ASSUME TypeOK
  PROVE  /\ [mem EXCEPT !.staged = TRUE, !.index = 0] \in Journals
         /\ [mem EXCEPT !.rooted = TRUE] \in Journals
         /\ [mem EXCEPT !.published = TRUE, !.index = 1] \in Journals
         /\ [mem EXCEPT !.index = 1] \in Journals
         /\ [mem EXCEPT !.index = 2] \in Journals
         /\ [mem EXCEPT !.index = 3] \in Journals
         /\ [mem EXCEPT !.index = 4] \in Journals
         /\ [mem EXCEPT !.proposed = TRUE] \in Journals
         /\ mem.before \in {None} \cup Transactions
         /\ mem.plan.gen \in Sources
<1>1. mem \in Journals
  BY DEF TypeOK
<1>2. mem.before \in {None} \cup Transactions /\ mem.plan.gen \in Sources
  BY <1>1 DEF Journals, Plans
<1>3. \A i \in -1..4 : [mem EXCEPT !.index = i] \in Journals
  BY <1>1, IndexTyped
<1>4. [mem EXCEPT !.staged = TRUE, !.index = 0] \in Journals
  <2> DEFINE m == [mem EXCEPT !.staged = TRUE]
  <2>1. m \in Journals
    BY <1>1 DEF Journals
  <2>2. [mem EXCEPT !.staged = TRUE, !.index = 0] = [m EXCEPT !.index = 0]
    BY <1>1 DEF Journals
  <2> HIDE DEF m
  <2>3. 0 \in -1..4
    OBVIOUS
  <2>4. [m EXCEPT !.index = 0] \in Journals
    BY <2>1, <2>3, IndexTyped
  <2> QED BY <2>2, <2>4
<1>5. [mem EXCEPT !.rooted = TRUE] \in Journals
  BY <1>1 DEF Journals
<1>6. [mem EXCEPT !.published = TRUE, !.index = 1] \in Journals
  <2> DEFINE m == [mem EXCEPT !.published = TRUE]
  <2>1. m \in Journals
    BY <1>1 DEF Journals
  <2>2. [mem EXCEPT !.published = TRUE, !.index = 1] = [m EXCEPT !.index = 1]
    BY <1>1 DEF Journals
  <2> HIDE DEF m
  <2>3. 1 \in -1..4
    OBVIOUS
  <2>4. [m EXCEPT !.index = 1] \in Journals
    BY <2>1, <2>3, IndexTyped
  <2> QED BY <2>2, <2>4
<1>7. [mem EXCEPT !.proposed = TRUE] \in Journals
  BY <1>1 DEF Journals
<1> QED BY <1>2, <1>3, <1>4, <1>5, <1>6, <1>7

LEMMA ReconciledTyped ==
  ASSUME TypeOK
  PROVE  Reconciled \in Journals
<1>1. mem \in Journals
  BY DEF TypeOK
<1>2. (IF mem.index < 1 THEN 1 ELSE mem.index) \in -1..4
  BY <1>1 DEF Journals
<1>3. [mem EXCEPT !.published = TRUE, !.index = IF @ < 1 THEN 1 ELSE @] \in Journals
  BY <1>1, <1>2 DEF Journals
<1> QED BY <1>1, <1>3 DEF Reconciled

LEMMA ApartTyped ==
  ASSUME TypeOK, NEW g \in Sources, NEW t \in Transactions
  PROVE  /\ DOMAIN Apart(g, t) \subseteq Sources
         /\ \A h \in DOMAIN Apart(g, t) : Apart(g, t)[h] \in Transactions
BY DEF TypeOK, Apart

LEMMA NoJournalTyped == NoJournal \in Journals
<1>1. FirstSource \in Sources
  BY StoreAssumption DEF FirstSource
<1> QED BY <1>1 DEF NoJournal, Journals, Plans, Bases, NoBase, States, None

LEMMA ReleaseTyped ==
  ASSUME TypeOK, Release
  PROVE  /\ holder' \in {"none", "apply", "recover"} /\ at' = "idle" /\ me' = None
         /\ mem' \in Journals /\ todo' \subseteq Transactions
BY NoJournalTyped DEF TypeOK, Release

LEMMA HappenTyped ==
  ASSUME TypeOK, IsFiniteSet(plans), MayHappen
  PROVE  stops + 1 \in 0..MaxEvents
<1>1. Cardinality(plans) \in Nat
  BY FS_CardinalityType
<1> QED BY <1>1, StoreAssumption DEF TypeOK, MayHappen

LEMMA CommitTyped ==
  ASSUME TypeOK, Commit
  PROVE  journals' \in Seq(Journals) /\ Newest' = Newest
<1>1. [mem' EXCEPT !.state = "COMMITTED"] \in Journals
  BY MemTyped DEF Commit, Journals, States
<1>2. CASE me \in 1..Newest
  BY <1>1, <1>2, ExceptSeq DEF TypeOK, Commit, Newest
<1>3. CASE me \notin 1..Newest
  <2>1. journals \in Seq(Journals) /\ me \notin DOMAIN journals
    BY <1>3 DEF TypeOK, Newest
  <2>2. journals' = journals
    BY <2>1 DEF Commit
  <2> QED BY <2>1, <2>2 DEF Newest
<1> QED BY <1>2, <1>3

LEMMA ApplyWritesTyped ==
  ASSUME TypeOK, Mine, Fresh,
         PrepareJournal \/ PublishTransaction \/ StartCopy \/ RecordStaged
         \/ RecordContext \/ RecordPublished \/ RecordReceipt \/
         RecordProposal \/ RecordPointed
  PROVE  TypeOK'
<1>1. CASE PrepareJournal
  BY <1>1, WriteTyped DEF PrepareJournal, TypeOK, disk, call, Goto,
     Continue, Newest, EarlySteps, ApplySteps, UndoSteps, States
<1>2. CASE PublishTransaction
  BY <1>2, WriteTyped DEF PublishTransaction, TypeOK, disk, call, Goto,
     Continue, Newest, EarlySteps, ApplySteps, UndoSteps, States
<1>3. CASE StartCopy
  BY <1>3, WriteTyped DEF StartCopy, TypeOK, disk, call, Goto, Continue,
     Newest, EarlySteps, ApplySteps, UndoSteps, States
<1>4. CASE RecordStaged
  BY <1>4, WriteTyped DEF RecordStaged, TypeOK, disk, call, Goto,
     Continue, Newest, EarlySteps, ApplySteps, UndoSteps, States
<1>5. CASE RecordContext
  BY <1>5, WriteTyped DEF RecordContext, TypeOK, disk, call, Goto,
     Continue, Newest, EarlySteps, ApplySteps, UndoSteps, States
<1>6. CASE RecordPublished
  BY <1>6, WriteTyped DEF RecordPublished, TypeOK, disk, call, Goto,
     Continue, Newest, EarlySteps, ApplySteps, UndoSteps, States
<1>7. CASE RecordReceipt
  BY <1>7, WriteTyped, MemTyped DEF RecordReceipt, TypeOK, disk, call,
     Goto, Continue, Newest, EarlySteps, ApplySteps, UndoSteps, States
<1>8. CASE RecordProposal
  BY <1>8, WriteTyped DEF RecordProposal, TypeOK, disk, call, Goto,
     Continue, Newest, EarlySteps, ApplySteps, UndoSteps, States
<1>9. CASE RecordPointed
  BY <1>9, WriteTyped DEF RecordPointed, TypeOK, disk, call, Goto,
     Continue, Newest, EarlySteps, ApplySteps, UndoSteps, States
<1> QED BY <1>1, <1>2, <1>3, <1>4, <1>5, <1>6, <1>7, <1>8, <1>9

LEMMA ApplyMovesTyped ==
  ASSUME TypeOK, Mine, Fresh,
         ReuseGeneration \/ BeginCopy \/ FinishCopy \/ MakeContext \/
         MakeGenerations \/ FillContext \/ WriteReceipt \/ WritePending \/
         PublishPointer
  PROVE  TypeOK'
<1>1. CASE ReuseGeneration
  BY <1>1, MemTyped DEF ReuseGeneration, TypeOK, disk, call, Goto,
     Continue, Newest, EarlySteps, ApplySteps, UndoSteps
<1>2. CASE BeginCopy
  BY <1>2 DEF BeginCopy, TypeOK, disk, call, Goto, Continue, Newest,
     EarlySteps, ApplySteps, UndoSteps
<1>3. CASE FinishCopy
  BY <1>3, MemTyped DEF FinishCopy, TypeOK, disk, call, Goto, Continue,
     Newest, EarlySteps, ApplySteps, UndoSteps
<1>4. CASE MakeContext
  BY <1>4 DEF MakeContext, TypeOK, disk, call, Goto, Continue, Newest,
     EarlySteps, ApplySteps, UndoSteps
<1>5. CASE MakeGenerations
  BY <1>5, MemTyped DEF MakeGenerations, TypeOK, disk, call, Goto,
     Continue, Newest, EarlySteps, ApplySteps, UndoSteps
<1>6. CASE FillContext
  BY <1>6 DEF FillContext, TypeOK, disk, call, Goto, Continue, Newest,
     EarlySteps, ApplySteps, UndoSteps
<1>7. CASE WriteReceipt
  BY <1>7, MemTyped DEF WriteReceipt, TypeOK, disk, call, Goto, Continue,
     Newest, EarlySteps, ApplySteps, UndoSteps, WorkSteps, Mine, None
<1>8. CASE WritePending
  BY <1>8 DEF WritePending, TypeOK, disk, call, Goto, Continue, Newest,
     EarlySteps, ApplySteps, UndoSteps
<1>9. CASE PublishPointer
  BY <1>9, MemTyped DEF PublishPointer, TypeOK, disk, call, Goto,
     Continue, Newest, EarlySteps, ApplySteps, UndoSteps
<1> QED BY <1>1, <1>2, <1>3, <1>4, <1>5, <1>6, <1>7, <1>8, <1>9

LEMMA UndoTyped ==
  ASSUME TypeOK, Mine, Fresh,
         KeepPointer \/ RemovePointer \/ RestorePending \/ RestorePointer
         \/ RemovePending \/ Reconcile \/ DismantlePrepared \/
         EmptyPrepared \/ RemovePrepared \/ RemoveStaging
  PROVE  TypeOK'
<1>1. CASE KeepPointer
  BY <1>1 DEF KeepPointer, TypeOK, disk, call, Goto, Continue, Newest,
     EarlySteps, ApplySteps, UndoSteps
<1>2. CASE RemovePointer
  BY <1>2 DEF RemovePointer, TypeOK, disk, call, Goto, Continue, Newest,
     EarlySteps, ApplySteps, UndoSteps
<1>3. CASE RestorePending
  BY <1>3 DEF RestorePending, TypeOK, disk, call, Goto, Continue, Newest,
     EarlySteps, ApplySteps, UndoSteps
<1>4. CASE RestorePointer
  BY <1>4, MemTyped DEF RestorePointer, TypeOK, disk, call, Goto,
     Continue, Newest, EarlySteps, ApplySteps, UndoSteps
<1>5. CASE RemovePending
  BY <1>5 DEF RemovePending, TypeOK, disk, call, Goto, Continue, Newest,
     EarlySteps, ApplySteps, UndoSteps
<1>6. CASE Reconcile
  BY <1>6 DEF Reconcile, TypeOK, disk, call, Goto, Continue, Newest,
     EarlySteps, ApplySteps, UndoSteps
<1>7. CASE DismantlePrepared
  BY <1>7 DEF DismantlePrepared, TypeOK, disk, call, Goto, Continue,
     Newest, EarlySteps, ApplySteps, UndoSteps
<1>8. CASE EmptyPrepared
  BY <1>8 DEF EmptyPrepared, TypeOK, disk, call, Goto, Continue, Newest,
     EarlySteps, ApplySteps, UndoSteps
<1>9. CASE RemovePrepared
  BY <1>9 DEF RemovePrepared, TypeOK, disk, call, Goto, Continue, Newest,
     EarlySteps, ApplySteps, UndoSteps
<1>10. CASE RemoveStaging
  BY <1>10, ReconciledTyped DEF RemoveStaging, TypeOK, disk, call, Goto,
     Continue, Newest, EarlySteps, ApplySteps, UndoSteps
<1> QED BY <1>1, <1>2, <1>3, <1>4, <1>5, <1>6, <1>7, <1>8, <1>9, <1>10

LEMMA PromotionTyped ==
  ASSUME TypeOK, Mine, Fresh,
         PromoteContext \/ Promote \/ Commit \/ Confirm
  PROVE  TypeOK'
<1>1. CASE PromoteContext
  BY <1>1, MemTyped, ApartTyped DEF PromoteContext, TypeOK, disk, call,
     Goto, Continue, Newest, EarlySteps, ApplySteps, UndoSteps, MyGen,
     WorkSteps, Mine, None
<1>2. CASE Promote
  BY <1>2, MemTyped, ApartTyped DEF Promote, TypeOK, disk, call, Goto,
     Continue, Newest, EarlySteps, ApplySteps, UndoSteps, MyGen,
     WorkSteps, Mine, None
<1>3. CASE Commit
  BY <1>3, MemTyped, CommitTyped DEF Commit, TypeOK, disk, call, Goto,
     Continue, Newest, EarlySteps, ApplySteps, UndoSteps
<1>4. CASE Confirm
  BY <1>4, ReleaseTyped DEF Confirm, TypeOK, disk, call, Goto, Continue,
     Newest
<1> QED BY <1>1, <1>2, <1>3, <1>4

LEMMA CreationTyped ==
  ASSUME TypeOK, Fresh, MakeDirectory
  PROVE  TypeOK'
<1>1. journals' \in Seq(Journals) /\ Newest' = Newest + 1
  BY AppendProperties DEF MakeDirectory, TypeOK, Newest
<1>2. Newest' <= MaxTransactions
  BY <1>1, StoreAssumption DEF MakeDirectory, Fresh, TypeOK, Newest
<1> QED BY <1>1, <1>2 DEF MakeDirectory, TypeOK, disk, call, Goto, Continue, EarlySteps

LEMMA RaiseTyped ==
  ASSUME TypeOK, IsFiniteSet(plans), Mine, ApplyRaises
  PROVE  TypeOK'
<1>1. stops' \in 0..MaxEvents
  BY HappenTyped DEF ApplyRaises, TypeOK
<1>2. undone' \subseteq Transactions
  BY DEF ApplyRaises, TypeOK, Mine, WorkSteps, ApplySteps, None
<1>3. pending' \in BOOLEAN
  BY DEF ApplyRaises, TypeOK
<1> QED BY <1>1, <1>2, <1>3
        DEF ApplyRaises, TypeOK, Goto, Continue, UndoSteps, Newest

LEMMA UndoEndsTyped ==
  ASSUME TypeOK, UndoEnds
  PROVE  /\ holder' \in {"none", "apply", "recover"} /\ at' \in {"idle", "next"}
         /\ me' = None /\ mem' \in Journals /\ todo' \subseteq Transactions
BY ReleaseTyped, NoJournalTyped DEF TypeOK, UndoEnds

LEMMA UndoEndTyped ==
  ASSUME TypeOK, IsFiniteSet(plans), RecordRolledBack \/ UndoRaises
  PROVE  TypeOK'
<1>1. CASE RecordRolledBack
  <2>1. journals' \in Seq(Journals) /\ Newest' = Newest
    BY <1>1, WriteTyped DEF RecordRolledBack, States
  <2> QED BY <1>1, <2>1, UndoEndsTyped DEF RecordRolledBack, TypeOK, disk
<1>2. CASE UndoRaises
  <2>1. journals' \in Seq(Journals) /\ Newest' = Newest
    BY <1>2, WriteTyped DEF UndoRaises, States
  <2>2. stops' \in 0..MaxEvents
    BY <1>2, HappenTyped DEF UndoRaises, TypeOK
  <2> QED BY <1>2, <2>1, <2>2, UndoEndsTyped DEF UndoRaises, TypeOK, disk
<1> QED BY <1>1, <1>2

LEMMA RecoveryTyped ==
  ASSUME TypeOK, Recovering, RecoverStep
  PROVE  TypeOK'
<1>1. CASE StartRecovery
  BY <1>1 DEF StartRecovery, TypeOK, disk, Newest
<1>2. CASE DiscardPreparation
  <2>1. journals' \in Seq(Journals) /\ Newest' \in Nat /\ Newest' <= Newest
    BY <1>2 DEF DiscardPreparation, Front, TypeOK, Newest
  <2>2. Newest' <= MaxTransactions
    BY <2>1, StoreAssumption DEF TypeOK, Newest
  <2> QED BY <1>2, <2>1, <2>2 DEF DiscardPreparation, TypeOK, disk, call
<1>3. ASSUME NEW t \in DOMAIN journals, AdoptPreparation(t)
      PROVE  TypeOK'
  <2>1. [journals[t] EXCEPT !.state = "PREPARED"] \in Journals
    <3>1. journals[t] \in Journals
      BY DEF TypeOK
    <3> QED BY <3>1 DEF Journals, States
  <2>2. journals' = [journals EXCEPT ![t] = [journals[t] EXCEPT !.state = "PREPARED"]]
    BY <1>3 DEF AdoptPreparation
  <2>3. journals' \in Seq(Journals) /\ Newest' = Newest
    BY <2>1, <2>2, ExceptSeq DEF TypeOK, Newest
  <2> QED BY <1>3, <2>3 DEF AdoptPreparation, TypeOK, disk, call
<1>4. CASE ListUnresolved
  <2>1. Unresolved \subseteq Transactions
    BY StoreAssumption DEF Unresolved, TypeOK, Newest, Transactions
  <2> QED BY <1>4, <2>1 DEF ListUnresolved, TypeOK, disk, Newest
<1>5. CASE UndoNext
  <2>1. PICK t \in todo : me' = t /\ mem' = journals[t]
    BY <1>5 DEF UndoNext
  <2>2. mem' \in Journals
    BY <1>5, <2>1 DEF UndoNext, TypeOK, Recovering, Unresolved
  <2> QED BY <1>5, <2>1, <2>2 DEF UndoNext, TypeOK, disk, Newest, UndoSteps
<1>6. CASE EndRecovery
  BY <1>6, ReleaseTyped DEF EndRecovery, TypeOK, disk, Newest
<1> QED BY <1>1, <1>2, <1>3, <1>4, <1>5, <1>6 DEF RecoverStep

LEMMA OutsideTyped ==
  ASSUME TypeOK, IsFiniteSet(plans),
         EditSource \/ BuildPlan \/ Stop
           \/ \E plan \in plans : Precheck(plan) \/ Leave(plan) \/ Enter(plan)
  PROVE  TypeOK'
<1>1. CASE EditSource
  BY <1>1 DEF EditSource, TypeOK, disk, call, Newest
<1>2. CASE BuildPlan
  <2>1. RefreshBase \in Bases
    BY DEF RefreshBase, NoBase, Bases, TypeOK, Newest, None
  <2>2. plans' \subseteq Plans /\ plans \subseteq plans'
    BY <1>2, <2>1 DEF BuildPlan, TypeOK, Plans
  <2> QED BY <1>2, <2>2 DEF BuildPlan, TypeOK, disk, call, Newest
<1>3. CASE Stop
  BY <1>3, HappenTyped, ReleaseTyped DEF Stop, TypeOK, disk, Newest
<1>4. ASSUME NEW plan \in plans, Precheck(plan) \/ Leave(plan)
      PROVE  TypeOK'
  BY <1>4 DEF Precheck, Leave, TypeOK, disk, call, Newest
<1>5. ASSUME NEW plan \in plans, Enter(plan)
      PROVE  TypeOK'
  <2>1. NewJournal(plan) \in Journals
    BY DEF NewJournal, Journals, TypeOK, States
  <2>2. Newest + 1 \in Transactions
    BY <1>5, StoreAssumption DEF Enter, Transactions, TypeOK, Newest
  <2> QED BY <1>5, <2>1, <2>2 DEF Enter, TypeOK, disk, Newest, EarlySteps
<1> QED BY <1>1, <1>2, <1>3, <1>4, <1>5

-----------------------------------------------------------------------------
(***************************************************************************)
(* Order.                                                                  *)
(***************************************************************************)
LEMMA Working ==
  ASSUME TypeOK, Mine, at \in WorkSteps
  PROVE  /\ me = Newest /\ me \in 1..Newest /\ Newest \in Nat
         /\ DOMAIN journals = 1..Newest
BY DEF TypeOK, Mine, Newest, None, Transactions

\* What another journal is not told by a write to that of the newest.
LEMMA WriteElsewhere ==
  ASSUME TypeOK, Mine, at \in WorkSteps, NEW s \in States,
         NEW m \in Journals, m.plan = mem.plan, m.before = mem.before,
         journals' = [journals EXCEPT ![me] = [m EXCEPT !.state = s]]
  PROVE  /\ Newest' = Newest /\ DOMAIN journals' = DOMAIN journals
         /\ \A t \in 1..(Newest - 1) : journals'[t] = journals[t]
         /\ journals'[me].state = s
         /\ journals'[me].plan = journals[me].plan
         /\ journals'[me].before = journals[me].before
<1>1. journals \in Seq(Journals)
  BY DEF TypeOK
<1>2. [m EXCEPT !.state = s] \in Journals
  BY <1>1 DEF Journals
<1>3. /\ Newest' = Newest /\ journals'[me] = [m EXCEPT !.state = s]
      /\ \A t \in 1..(Newest - 1) : journals'[t] = journals[t]
  BY <1>1, <1>2, Working, ExceptSeq DEF Newest
<1>4. DOMAIN journals' = DOMAIN journals
  BY <1>1
<1>5. /\ [m EXCEPT !.state = s].state = s
      /\ [m EXCEPT !.state = s].plan = m.plan
      /\ [m EXCEPT !.state = s].before = m.before
  BY <1>1 DEF Journals
<1> QED BY <1>3, <1>4, <1>5 DEF Mine

\* A step that writes no journal, and leaves the pointer to one of its two.
LEMMA MoveOrdered ==
  ASSUME TypeOK, Ordered, at \in WorkSteps \ {"prepare"}, at' \in WorkSteps \ {"prepare"},
         UNCHANGED <<journals, me, todo>>, pointer' \in {me, mem.before},
         mem'.plan = mem.plan, mem'.before = mem.before
  PROVE  Ordered'
<1>1. /\ UNCHANGED <<Newest, Unresolved, Preparing>>
      /\ \A t \in DOMAIN journals : Follows(t) <=> Follows(t)'
  BY DEF Newest, Unresolved, Preparing, Follows
<1>2. Fresh' /\ Recovering'
  BY <1>1 DEF Ordered, Fresh, Recovering, WorkSteps, EarlySteps, ApplySteps, UndoSteps
<1>3. Mine'
  BY <1>1 DEF Ordered, Mine
<1>4. PointerJournaled'
  <2>1. me \in DOMAIN journals /\ journals[me].state # "EMPTY"
    BY Working DEF Ordered, Mine
  <2>2. mem.before # None => mem.before \in DOMAIN journals
                             /\ journals[mem.before].state = "COMMITTED"
    BY <2>1, Working DEF Ordered, Mine, Follows, None
  <2> QED BY <2>1, <2>2 DEF PointerJournaled
<1>5. OneUnresolved'
  <2>1. \A t \in Unresolved : t = me /\ journals[t].before = mem.before
    BY Working DEF Ordered, OneUnresolved, Mine
  <2> QED BY <1>1, <2>1 DEF Ordered, OneUnresolved
<1> QED BY <1>1, <1>2, <1>3, <1>4, <1>5 DEF Ordered

\* A step that writes the journal of the transaction it works on.
LEMMA WriteOrdered ==
  ASSUME TypeOK, Ordered, at \in WorkSteps, NEW s \in States \ {"EMPTY"},
         NEW m \in Journals, m.plan = mem.plan, m.before = mem.before,
         journals' = [journals EXCEPT ![me] = [m EXCEPT !.state = s]],
         UNCHANGED pointer,
         \/ /\ at' \in WorkSteps \ {"prepare"} /\ UNCHANGED <<me, todo>>
            /\ mem'.plan = mem.plan /\ mem'.before = mem.before
         \/ at' \in {"idle", "next"} /\ todo' \subseteq todo \ {me}
  PROVE  Ordered'
<1>1. /\ Newest' = Newest /\ DOMAIN journals' = DOMAIN journals
      /\ \A t \in 1..(Newest - 1) : journals'[t] = journals[t]
      /\ journals'[me].state = s
      /\ journals'[me].plan = journals[me].plan
      /\ journals'[me].before = journals[me].before
  BY WriteElsewhere DEF Ordered
<1>2. me = Newest /\ me \in 1..Newest /\ Newest \in Nat /\ DOMAIN journals = 1..Newest
  BY Working DEF Ordered
<1>3. \A t \in DOMAIN journals' : Follows(t)'
  <2>1. ASSUME NEW t \in 1..Newest
        PROVE  Follows(t)'
    <3>1. /\ journals'[t].plan = journals[t].plan
          /\ journals'[t].before = journals[t].before
      BY <1>1, <1>2
    <3>2. Follows(t)
      BY <1>2 DEF Ordered
    <3>3. journals[t].before # None => journals[t].before \in 1..(Newest - 1)
      BY <1>2, <3>2 DEF Follows, None
    <3> QED BY <1>1, <3>1, <3>2, <3>3 DEF Follows
  <2> QED BY <1>1, <1>2, <2>1
<1>4. Unresolved' \subseteq {me}
  BY <1>1, <1>2 DEF Ordered, OneUnresolved, Unresolved
<1>5. OneUnresolved'
  <2>1. pointer \in {me, journals[me].before}
    BY DEF Ordered, Mine
  <2>2. ASSUME NEW t \in Unresolved'
        PROVE  /\ t = Newest' /\ pointer' \in {t, journals'[t].before}
               /\ journals'[t].before # None
                    => journals'[journals'[t].before].state = "COMMITTED"
    <3>1. t = me /\ t \in DOMAIN journals'
      BY <1>1, <1>2, <1>4
    <3>2. Follows(t)'
      BY <1>3, <3>1
    <3> QED BY <1>1, <1>2, <2>1, <3>1, <3>2 DEF Follows
  <2> QED BY <2>2 DEF OneUnresolved
<1>6. Recovering'
  <2>1. todo \subseteq {me} /\ (at' = "next" => todo' = {})
    BY <1>2 DEF Ordered, Recovering, WorkSteps, EarlySteps, ApplySteps, UndoSteps
  <2> QED BY <1>1, <1>2, <2>1
          DEF Recovering, WorkSteps, EarlySteps, ApplySteps, UndoSteps
<1>7. Fresh'
  BY DEF Fresh, WorkSteps, EarlySteps, ApplySteps, UndoSteps
<1>8. Mine'
  BY <1>1 DEF Ordered, Mine, WorkSteps, EarlySteps, ApplySteps, UndoSteps
<1>9. PointerJournaled'
  BY <1>1, <1>2 DEF Ordered, PointerJournaled
<1> QED BY <1>3, <1>5, <1>6, <1>7, <1>8, <1>9 DEF Ordered

\* Nothing that a transaction depends on is touched.
LEMMA RestOrdered ==
  ASSUME Ordered, UNCHANGED <<journals, pointer>>,
         \/ UNCHANGED call
         \/ at' \in {"idle", "normalise"} /\ todo' = {}
  PROVE  Ordered'
<1>1. /\ UNCHANGED <<Newest, Unresolved, Preparing>>
      /\ \A t \in DOMAIN journals : Follows(t) <=> Follows(t)'
  BY DEF Newest, Unresolved, Preparing, Follows
<1>2. OneUnresolved' /\ PointerJournaled'
  BY <1>1 DEF Ordered, OneUnresolved, PointerJournaled
<1>3. Fresh' /\ Mine' /\ Recovering'
  BY <1>1 DEF Ordered, Fresh, Mine, Recovering, call, WorkSteps, EarlySteps,
              ApplySteps, UndoSteps
<1> QED BY <1>1, <1>2, <1>3 DEF Ordered

LEMMA MoveStepOrdered ==
  ASSUME TypeOK, Ordered,
         ReuseGeneration \/ BeginCopy \/ FinishCopy \/ MakeContext
         \/ MakeGenerations \/ FillContext \/ PromoteContext \/ Promote
         \/ WriteReceipt \/ WritePending \/ PublishPointer \/ ApplyRaises
         \/ KeepPointer \/ RemovePointer \/ RestorePending \/ RestorePointer
         \/ RemovePending \/ Reconcile \/ DismantlePrepared \/ EmptyPrepared
         \/ RemovePrepared \/ RemoveStaging
  PROVE  Ordered'
<1> DEFINE Moves == /\ at \in WorkSteps \ {"prepare"}
                    /\ at' \in WorkSteps \ {"prepare"}
                    /\ UNCHANGED <<journals, me, todo>>
           Keeps == mem'.plan = mem.plan /\ mem'.before = mem.before
<1>1. mem \in Journals /\ (Moves => pointer \in {me, mem.before})
  BY DEF TypeOK, Ordered, Mine
<1>2. CASE ReuseGeneration \/ BeginCopy \/ FinishCopy \/ MakeContext
           \/ MakeGenerations \/ FillContext
  <2>1. Moves /\ UNCHANGED pointer
    BY <1>2 DEF ReuseGeneration, BeginCopy, FinishCopy, MakeContext,
       MakeGenerations, FillContext, Goto, Continue, disk, WorkSteps,
       EarlySteps, ApplySteps
  <2>2. Keeps
    BY <1>1, <1>2 DEF ReuseGeneration, BeginCopy, FinishCopy, MakeContext,
       MakeGenerations, FillContext, Continue, Journals
  <2> QED BY <1>1, <2>1, <2>2, MoveOrdered
<1>3. CASE PromoteContext \/ Promote \/ WriteReceipt \/ WritePending
           \/ PublishPointer \/ ApplyRaises
  <2>1. Moves /\ pointer' \in {pointer, me}
    BY <1>3 DEF PromoteContext, Promote, WriteReceipt, WritePending,
       PublishPointer, ApplyRaises, Goto, Continue, WorkSteps, EarlySteps,
       ApplySteps, UndoSteps
  <2>2. Keeps
    BY <1>1, <1>3 DEF PromoteContext, Promote, WriteReceipt, WritePending,
       PublishPointer, ApplyRaises, Continue, Journals
  <2> QED BY <1>1, <2>1, <2>2, MoveOrdered
<1>4. CASE KeepPointer \/ RemovePointer \/ RestorePending \/ RestorePointer
  <2>1. Moves /\ Keeps /\ pointer' \in {pointer, mem.before}
    BY <1>4 DEF KeepPointer, RemovePointer, RestorePending, RestorePointer,
       Goto, Continue, disk, WorkSteps, UndoSteps
  <2> QED BY <1>1, <2>1, MoveOrdered
<1>5. CASE RemovePending \/ Reconcile \/ DismantlePrepared \/ EmptyPrepared
           \/ RemovePrepared \/ RemoveStaging
  <2>1. Moves /\ UNCHANGED pointer
    BY <1>5 DEF RemovePending, Reconcile, DismantlePrepared, EmptyPrepared,
       RemovePrepared, RemoveStaging, Goto, Continue, disk, WorkSteps, UndoSteps
  <2>2. Keeps
    BY <1>1, <1>5 DEF RemovePending, Reconcile, DismantlePrepared, EmptyPrepared,
       RemovePrepared, RemoveStaging, Reconciled, Continue, Journals
  <2> QED BY <1>1, <2>1, <2>2, MoveOrdered
<1> QED BY <1>2, <1>3, <1>4, <1>5

LEMMA WriteStepOrdered ==
  ASSUME TypeOK, Ordered,
         PrepareJournal \/ PublishTransaction \/ StartCopy \/ RecordStaged
         \/ RecordContext \/ RecordPublished \/ RecordReceipt
         \/ RecordProposal \/ RecordPointed \/ Commit
         \/ RecordRolledBack \/ UndoRaises
  PROVE  Ordered'
<1> DEFINE Goes == /\ at \in WorkSteps /\ at' \in WorkSteps \ {"prepare"}
                   /\ UNCHANGED <<pointer, me, todo>>
           Keeps == mem'.plan = mem.plan /\ mem'.before = mem.before
           Writes(s) == journals' = [journals EXCEPT ![me] = [mem EXCEPT !.state = s]]
<1>1. mem \in Journals
  BY DEF TypeOK
<1>2. CASE PrepareJournal \/ PublishTransaction \/ StartCopy \/ RecordStaged
           \/ RecordContext
  <2>1. Goes /\ Keeps /\ \E s \in States \ {"EMPTY"} : Writes(s)
    BY <1>2 DEF PrepareJournal, PublishTransaction, StartCopy, RecordStaged,
       RecordContext, Write, Goto, Continue, disk, WorkSteps, EarlySteps,
       ApplySteps, States
  <2> QED BY <1>1, <2>1, WriteOrdered
<1>3. CASE RecordPublished \/ RecordReceipt \/ RecordProposal \/ RecordPointed
  <2>1. Goes /\ \E s \in States \ {"EMPTY"} : Writes(s)
    BY <1>3 DEF RecordPublished, RecordReceipt, RecordProposal,
       RecordPointed, Write, Goto, Continue, disk, WorkSteps, ApplySteps, States
  <2>2. Keeps
    BY <1>1, <1>3 DEF RecordPublished, RecordReceipt, RecordProposal,
       RecordPointed, Continue, Journals
  <2> QED BY <1>1, <2>1, <2>2, WriteOrdered
<1>4. CASE Commit
  <2>1. Goes
    BY <1>4 DEF Commit, Goto, disk, WorkSteps, ApplySteps
  <2>2. mem' \in Journals /\ Keeps
    BY <1>1, <1>4, MemTyped DEF Commit, Journals
  <2>3. journals' = [journals EXCEPT ![me] = [mem' EXCEPT !.state = "COMMITTED"]]
    BY <1>4 DEF Commit
  <2> QED BY <2>1, <2>2, <2>3, WriteOrdered DEF States
<1>5. CASE RecordRolledBack \/ UndoRaises
  <2>1. PICK s \in States \ {"EMPTY"} : Writes(s)
    BY <1>5 DEF RecordRolledBack, UndoRaises, Write, States
  <2>2. /\ at \in WorkSteps /\ UNCHANGED pointer
        /\ at' \in {"idle", "next"} /\ todo' \subseteq todo \ {me}
    BY <1>5 DEF RecordRolledBack, UndoRaises, UndoEnds, Release, disk,
       WorkSteps, UndoSteps
  <2> QED BY <1>1, <2>1, <2>2, WriteOrdered
<1> QED BY <1>2, <1>3, <1>4, <1>5

LEMMA CreationOrdered ==
  ASSUME TypeOK, Ordered, MakeDirectory
  PROVE  Ordered'
<1>1. /\ mem \in Journals /\ Newest \in Nat /\ DOMAIN journals = 1..Newest
      /\ journals' = Append(journals, mem) /\ at = "mkdir" /\ at' = "prepare"
      /\ UNCHANGED <<pointer, me, mem, todo>>
  BY DEF TypeOK, Newest, MakeDirectory, Goto, Continue, disk
<1>2. /\ me = Newest + 1 /\ Unresolved = {} /\ mem.before = pointer
      /\ pointer # None => journals[pointer].state = "COMMITTED"
      /\ mem.plan.base.tx = pointer
      /\ pointer # None => mem.plan.base.names = Newest
  BY <1>1 DEF Ordered, Fresh
<1>3. /\ Newest' = Newest + 1 /\ DOMAIN journals' = 1..(Newest + 1)
      /\ journals'[Newest + 1] = mem
      /\ \A t \in 1..Newest : journals'[t] = journals[t]
  BY <1>1, AppendProperties DEF TypeOK, Newest
<1>4. pointer = None \/ pointer \in 1..Newest
  BY <1>1 DEF Ordered, PointerJournaled
<1>6. ASSUME NEW t \in 1..Newest
      PROVE  Follows(t)'
  <2>1. Follows(t) /\ journals'[t] = journals[t]
    BY <1>1, <1>3 DEF Ordered
  <2>2. journals[t].before # None => journals[t].before \in 1..Newest
    BY <1>1, <2>1 DEF Follows, None
  <2> QED BY <1>3, <2>1, <2>2 DEF Follows
<1>7. \A t \in DOMAIN journals' : Follows(t)'
  <2>1. ASSUME NEW t \in DOMAIN journals'
        PROVE  Follows(t)'
    <3>1. CASE t \in 1..Newest
      BY <1>6, <3>1
    <3>2. CASE t = Newest + 1
      BY <1>1, <1>2, <1>3, <1>4, <3>2 DEF Follows, None
    <3> QED BY <1>1, <1>3, <3>1, <3>2
  <2> QED BY <2>1
<1>8. Unresolved' \subseteq {me}
  BY <1>1, <1>2, <1>3 DEF Unresolved
<1>9. OneUnresolved'
  BY <1>1, <1>2, <1>3, <1>4, <1>8 DEF OneUnresolved, None
<1>10. Fresh' /\ Recovering'
  BY <1>1, <1>2, <1>3 DEF Ordered, OneUnresolved, Fresh, Recovering, Unresolved
<1>11. Mine'
  BY <1>1, <1>2, <1>3 DEF Mine, None
<1>12. PointerJournaled'
  BY <1>1, <1>2, <1>3, <1>4 DEF Ordered, PointerJournaled
<1> QED BY <1>7, <1>9, <1>10, <1>11, <1>12 DEF Ordered

LEMMA EntryOrdered ==
  ASSUME TypeOK, Ordered, NEW plan \in plans, Enter(plan)
  PROVE  Ordered'
<1>1. /\ UNCHANGED <<journals, pointer, Newest, Unresolved, Preparing>>
      /\ at' = "mkdir" /\ me' = Newest + 1 /\ todo' = {} /\ Newest < MaxTransactions
  BY DEF Enter, disk, Newest, Unresolved, Preparing
<1>2. mem'.plan = plan /\ mem'.before = pointer /\ mem'.state = "EMPTY"
  BY DEF Enter, NewJournal
<1>3. plan.base \in Bases
  BY DEF TypeOK, Plans
<1>4. plan.base.tx = pointer /\ (pointer # None => plan.base.names = Newest)
  <2>1. RefreshBase = [plan.base EXCEPT !.names =
                         IF plan.base.tx = None THEN 0 ELSE @ + 0]
    BY DEF Enter, MayApply, Reviewed
  <2>2. RefreshBase.tx = pointer
    BY DEF RefreshBase, NoBase
  <2>3. plan.base.tx = pointer
    BY <1>3, <2>1, <2>2 DEF Bases
  <2>4. pointer # None => RefreshBase.names = Newest
    BY DEF RefreshBase
  <2> QED BY <1>3, <2>1, <2>3, <2>4 DEF Bases
<1>5. Fresh'
  BY <1>1, <1>2, <1>4 DEF Fresh, Enter, MayApply, ActiveCommitted
<1>6. Mine' /\ Recovering'
  BY <1>1 DEF Mine, Recovering, WorkSteps, EarlySteps, ApplySteps, UndoSteps
<1>7. /\ \A t \in DOMAIN journals' : Follows(t)'
      /\ OneUnresolved' /\ PointerJournaled'
  BY <1>1 DEF Ordered, Follows, OneUnresolved, PointerJournaled
<1> QED BY <1>5, <1>6, <1>7 DEF Ordered

LEMMA RecoveryOrdered ==
  ASSUME TypeOK, Ordered, Resting, RecoverStep
  PROVE  Ordered'
<1>1. CASE StartRecovery
  <2>1. Idle /\ at' = "normalise" /\ UNCHANGED <<journals, pointer, todo>>
    BY <1>1 DEF StartRecovery, disk
  <2> QED BY <2>1, RestOrdered DEF Ordered, Recovering, Resting, Idle
<1>2. CASE EndRecovery
  BY <1>2, RestOrdered DEF EndRecovery, Release, disk
<1>3. CASE DiscardPreparation
  <2>1. /\ Newest \in Nat \ {0} /\ DOMAIN journals = 1..Newest
        /\ UNCHANGED <<pointer, at, me, mem, todo>> /\ at = "normalise"
        /\ journals[Newest].state = "EMPTY"
    BY <1>3 DEF DiscardPreparation, TypeOK, Newest, disk, call
  <2>2. /\ Newest' = Newest - 1 /\ DOMAIN journals' = 1..(Newest - 1)
        /\ \A t \in 1..(Newest - 1) : journals'[t] = journals[t]
    <3>1. journals' = SubSeq(journals, 1, Newest - 1)
      BY <1>3 DEF DiscardPreparation, Front, Newest
    <3>2. \A t \in 1..(Newest - 1) : journals[t] \in Journals
      BY <2>1 DEF TypeOK
    <3>3. Len(journals') = Newest - 1 /\ journals' \in Seq(Journals)
      BY <2>1, <3>1, <3>2, SubSeqProperties
    <3>4. \A t \in 1..(Newest - 1) : journals'[t] = journals[t]
      BY <2>1, <3>1, <3>2, SubSeqProperties
    <3> QED BY <3>3, <3>4 DEF Newest
  <2>3. Unresolved' = {}
    <3>1. \A t \in 1..(Newest - 1) : t \notin Unresolved
      BY <2>1 DEF Ordered, OneUnresolved
    <3> QED BY <2>1, <2>2, <3>1 DEF Unresolved
  <2>4. \A t \in DOMAIN journals' : Follows(t)'
    <3>1. ASSUME NEW t \in 1..(Newest - 1)
          PROVE  Follows(t)'
      <4>1. Follows(t) /\ journals'[t] = journals[t]
        BY <2>1, <2>2 DEF Ordered
      <4>2. journals[t].before # None => journals[t].before \in 1..(Newest - 1)
        BY <2>1, <4>1 DEF Follows, None
      <4> QED BY <2>2, <4>1, <4>2 DEF Follows
    <3> QED BY <2>2, <3>1
  <2>5. PointerJournaled'
    BY <2>1, <2>2 DEF Ordered, PointerJournaled
  <2>6. OneUnresolved' /\ Fresh' /\ Mine' /\ Recovering'
    BY <2>1, <2>3 DEF Ordered, OneUnresolved, Fresh, Mine, Recovering,
       WorkSteps, EarlySteps, ApplySteps, UndoSteps
  <2> QED BY <2>4, <2>5, <2>6 DEF Ordered
<1>4. ASSUME NEW u \in DOMAIN journals, AdoptPreparation(u)
      PROVE  Ordered'
  <2>1. /\ journals[u].state = "PREPARING" /\ at = "normalise"
        /\ UNCHANGED <<pointer, at, me, mem, todo>>
    BY <1>4 DEF AdoptPreparation, disk, call
  <2>2. u \in Unresolved /\ u = Newest
    BY <2>1 DEF Ordered, OneUnresolved, Unresolved, Final
  <2>3. journals[u] \in Journals /\ DOMAIN journals = 1..Newest /\ Newest \in Nat
    BY DEF TypeOK, Newest
  <2>4. [journals[u] EXCEPT !.state = "PREPARED"] \in Journals
    BY <2>3 DEF Journals, States
  <2>5. journals' = [journals EXCEPT ![u] = [journals[u] EXCEPT !.state = "PREPARED"]]
    BY <1>4 DEF AdoptPreparation
  <2>6. Newest' = Newest /\ DOMAIN journals' = DOMAIN journals
    BY <2>4, <2>5, ExceptSeq DEF TypeOK, Newest
  <2>7. /\ \A t \in DOMAIN journals : t # u => journals'[t] = journals[t]
        /\ journals'[u].state = "PREPARED"
        /\ journals'[u].plan = journals[u].plan
        /\ journals'[u].before = journals[u].before
    BY <2>3, <2>5 DEF Journals
  <2>8. ASSUME NEW t \in DOMAIN journals
        PROVE  Follows(t)'
    <3>1. Follows(t)
      BY DEF Ordered
    <3>2. journals[t].before # None => journals[t].before \in DOMAIN journals
                                       /\ journals[t].before # u
      BY <2>1, <2>2, <2>3, <3>1 DEF Follows, None
    <3>3. journals'[t].plan = journals[t].plan /\ journals'[t].before = journals[t].before
      BY <2>7
    <3> QED BY <2>7, <3>1, <3>2, <3>3 DEF Follows
  <2>9. Unresolved' = Unresolved
    BY <2>1, <2>6, <2>7 DEF Unresolved, Final
  <2>10. OneUnresolved'
    <3>1. \A t \in Unresolved : t = u
      BY <2>2 DEF Ordered, OneUnresolved
    <3>2. Follows(u)'
      BY <2>8
    <3>3. pointer \in {u, journals[u].before}
      BY <2>2 DEF Ordered, OneUnresolved
    <3> QED BY <2>1, <2>2, <2>6, <2>7, <2>9, <3>1, <3>2, <3>3
            DEF OneUnresolved, Follows
  <2>11. PointerJournaled'
    BY <2>1, <2>6, <2>7 DEF Ordered, PointerJournaled
  <2>12. Fresh' /\ Mine' /\ Recovering'
    BY <2>1, <2>6 DEF Ordered, Fresh, Mine, Recovering,
       WorkSteps, EarlySteps, ApplySteps, UndoSteps
  <2> QED BY <2>6, <2>8, <2>10, <2>11, <2>12 DEF Ordered
<1>5. CASE ListUnresolved
  <2>1. /\ UNCHANGED <<journals, pointer, Newest, Unresolved, Preparing>>
        /\ Preparing = {} /\ todo' = Unresolved /\ at' = "next"
    BY <1>5 DEF ListUnresolved, disk, Newest, Unresolved, Preparing
  <2>2. todo' \subseteq {Newest}
    BY <2>1 DEF Ordered, OneUnresolved
  <2>3. Fresh' /\ Mine' /\ Recovering'
    BY <2>1, <2>2 DEF Fresh, Mine, Recovering, WorkSteps, EarlySteps, ApplySteps,
       UndoSteps
  <2>4. /\ \A t \in DOMAIN journals' : Follows(t)'
        /\ OneUnresolved' /\ PointerJournaled'
    BY <2>1 DEF Ordered, Follows, OneUnresolved, PointerJournaled
  <2> QED BY <2>3, <2>4 DEF Ordered
<1>6. CASE UndoNext
  <2>1. PICK t \in todo : me' = t /\ mem' = journals[t]
    BY <1>6 DEF UndoNext
  <2>2. /\ UNCHANGED <<journals, pointer, Newest, Unresolved, Preparing, todo>>
        /\ at = "next" /\ at' = "restore"
    BY <1>6 DEF UndoNext, disk, Newest, Unresolved, Preparing
  <2>3. t = Newest /\ t \in Unresolved /\ journals[t].state # "EMPTY"
    BY <2>2 DEF Ordered, Recovering, Unresolved, Preparing
  <2>4. t # None /\ pointer \in {t, journals[t].before}
    BY <2>3 DEF Ordered, OneUnresolved, Unresolved, TypeOK, Newest, None
  <2>5. Mine' /\ Fresh' /\ Recovering'
    BY <2>1, <2>2, <2>3, <2>4 DEF Ordered, Mine, Fresh, Recovering
  <2>6. /\ \A u \in DOMAIN journals' : Follows(u)'
        /\ OneUnresolved' /\ PointerJournaled'
    BY <2>2 DEF Ordered, Follows, OneUnresolved, PointerJournaled
  <2> QED BY <2>5, <2>6 DEF Ordered
<1> QED BY <1>1, <1>2, <1>3, <1>4, <1>5, <1>6 DEF RecoverStep

LEMMA OutsideOrdered ==
  ASSUME TypeOK, Ordered,
         \/ EditSource \/ BuildPlan \/ Confirm \/ Stop
         \/ \E plan \in plans : Precheck(plan) \/ Leave(plan)
  PROVE  Ordered'
<1>1. CASE \/ EditSource \/ BuildPlan
           \/ \E plan \in plans : Precheck(plan) \/ Leave(plan)
  <2>1. UNCHANGED <<journals, pointer, call>>
    BY <1>1 DEF EditSource, BuildPlan, Precheck, Leave, disk
  <2> QED BY <2>1, RestOrdered
<1>2. CASE Confirm \/ Stop
  <2>1. UNCHANGED <<journals, pointer>> /\ at' = "idle" /\ todo' = {}
    BY <1>2 DEF Confirm, Stop, Release, disk
  <2> QED BY <2>1, RestOrdered
<1> QED BY <1>1, <1>2

LEMMA RestingStep ==
  ASSUME Resting, [Next]_vars
  PROVE  Resting'
<1>1. CASE ApplyStep
  <2>1. (at # "idle" /\ holder' = holder) \/ Release
    BY <1>1 DEF ApplyStep, MakeDirectory, PrepareJournal, PublishTransaction,
       ReuseGeneration, StartCopy, BeginCopy, FinishCopy, RecordStaged, MakeContext,
       MakeGenerations, RecordContext, FillContext, PromoteContext, Promote,
       RecordPublished, WriteReceipt, RecordReceipt, RecordProposal, WritePending,
       PublishPointer, RecordPointed, Commit, Confirm, Goto, Continue
  <2> QED BY <2>1 DEF Resting, Idle, Release
<1>2. CASE UndoStep \/ UndoRaises \/ ApplyRaises
  <2>1. (at # "idle" /\ holder' = holder) \/ Release
    BY <1>2 DEF UndoStep, UndoRaises, ApplyRaises, UndoEnds, KeepPointer,
       RemovePointer, RestorePending, RestorePointer, RemovePending, Reconcile,
       DismantlePrepared, EmptyPrepared, RemovePrepared, RemoveStaging,
       RecordRolledBack, Goto, Continue, ApplySteps, UndoSteps
  <2> QED BY <2>1 DEF Resting, Idle, Release
<1>3. CASE RecoverStep
  BY <1>3 DEF RecoverStep, StartRecovery, DiscardPreparation, AdoptPreparation,
     ListUnresolved, UndoNext, EndRecovery, Release, call, Resting, Idle
<1>4. CASE \/ EditSource \/ BuildPlan \/ Stop \/ UNCHANGED vars
           \/ \E plan \in plans : Precheck(plan) \/ Leave(plan) \/ Enter(plan)
  BY <1>4 DEF EditSource, BuildPlan, Precheck, Leave, Enter, Stop, Release, call,
     vars, Resting, Idle
<1> QED BY <1>1, <1>2, <1>3, <1>4 DEF Next

LEMMA PlansFinite ==
  ASSUME IsFiniteSet(plans), [Next]_vars
  PROVE  IsFiniteSet(plans')
<1>1. CASE BuildPlan
  BY <1>1, FS_AddElement DEF BuildPlan
<1>2. CASE ~BuildPlan
  <2>1. plans' = plans
    BY <1>2 DEF Next, vars, ApplyStep, MakeDirectory, PrepareJournal,
       PublishTransaction, ReuseGeneration, StartCopy, BeginCopy, FinishCopy,
       RecordStaged, MakeContext, MakeGenerations, RecordContext, FillContext,
       PromoteContext, Promote, RecordPublished, WriteReceipt, RecordReceipt,
       RecordProposal, WritePending, PublishPointer, RecordPointed, Commit,
       Confirm, UndoStep, UndoRaises, ApplyRaises, KeepPointer, RemovePointer,
       RestorePending, RestorePointer, RemovePending, Reconcile,
       DismantlePrepared, EmptyPrepared, RemovePrepared, RemoveStaging,
       RecordRolledBack, RecoverStep, StartRecovery, DiscardPreparation,
       AdoptPreparation, ListUnresolved, UndoNext, EndRecovery, EditSource,
       Precheck, Leave, Enter, Stop
  <2> QED BY <2>1
<1> QED BY <1>1, <1>2

LEMMA IInvInit == Init => IInv
<1> SUFFICES ASSUME Init PROVE IInv
  OBVIOUS
<1>1. FirstSource \in Sources
  BY StoreAssumption DEF FirstSource
<1>2. TypeOK
  <2>1. journals \in Seq(Journals) /\ Newest = 0
    BY DEF Init, Newest
  <2>2. DOMAIN published = {}
    BY DEF Init
  <2>3. pending \in BOOLEAN /\ context \in BOOLEAN
    BY DEF Init
  <2>4. /\ source \in Sources /\ pointer = None /\ staging = "none"
        /\ prepared = "none" /\ receipts = {} /\ plans = {} /\ checked = {}
        /\ holder = "none" /\ at = "idle" /\ me = None /\ mem \in Journals
        /\ todo = {} /\ stops = 0 /\ undone = {}
    BY <1>1, NoJournalTyped DEF Init
  <2>5. stops \in 0..MaxEvents /\ Newest <= MaxTransactions
    BY <2>1, <2>4, StoreAssumption
  <2> QED BY <2>1, <2>2, <2>3, <2>4, <2>5 DEF TypeOK
<1>3. IsFiniteSet(plans)
  BY FS_EmptySet DEF Init
<1>4. DOMAIN journals = {}
  BY DEF Init
<1> QED BY <1>2, <1>3, <1>4
        DEF Init, IInv, Resting, Ordered, Fresh, Mine, Recovering, PointerJournaled,
            OneUnresolved, Unresolved, WorkSteps, EarlySteps, ApplySteps, UndoSteps

LEMMA IInvStep == IInv /\ [Next]_vars => IInv'
<1> SUFFICES ASSUME IInv, [Next]_vars PROVE IInv'
  OBVIOUS
<1>1. /\ TypeOK /\ IsFiniteSet(plans) /\ Resting /\ Ordered
      /\ Mine /\ Fresh /\ Recovering
  BY DEF IInv, Ordered
<1>2. Resting' /\ IsFiniteSet(plans')
  BY <1>1, RestingStep, PlansFinite
<1>3. CASE ApplyStep
  <2>1. TypeOK'
    BY <1>1, <1>3, ApplyWritesTyped, ApplyMovesTyped, PromotionTyped, CreationTyped
    DEF ApplyStep
  <2>2. Ordered'
    BY <1>1, <1>3, MoveStepOrdered, WriteStepOrdered, CreationOrdered, OutsideOrdered
    DEF ApplyStep
  <2> QED BY <1>2, <2>1, <2>2 DEF IInv
<1>4. CASE ApplyRaises
  BY <1>1, <1>2, <1>4, RaiseTyped, MoveStepOrdered DEF IInv
<1>5. CASE UndoStep
  <2>1. TypeOK'
    BY <1>1, <1>5, UndoTyped, UndoEndTyped DEF UndoStep
  <2>2. Ordered'
    BY <1>1, <1>5, MoveStepOrdered, WriteStepOrdered DEF UndoStep
  <2> QED BY <1>2, <2>1, <2>2 DEF IInv
<1>6. CASE UndoRaises
  BY <1>1, <1>2, <1>6, UndoEndTyped, WriteStepOrdered DEF IInv
<1>7. CASE RecoverStep
  BY <1>1, <1>2, <1>7, RecoveryTyped, RecoveryOrdered DEF IInv
<1>8. CASE \/ EditSource \/ BuildPlan \/ Stop
           \/ \E plan \in plans : Precheck(plan) \/ Leave(plan) \/ Enter(plan)
  BY <1>1, <1>2, <1>8, OutsideTyped, OutsideOrdered, EntryOrdered DEF IInv
<1>9. CASE UNCHANGED vars
  <2>1. TypeOK'
    BY <1>1, <1>9 DEF TypeOK, vars, disk, call, Newest
  <2>2. Ordered'
    BY <1>1, <1>9, RestOrdered DEF vars, disk
  <2> QED BY <1>2, <2>1, <2>2 DEF IInv
<1> QED BY <1>3, <1>4, <1>5, <1>6, <1>7, <1>8, <1>9 DEF Next

THEOREM IInvHolds == Spec => []IInv
<1> QED BY IInvInit, IInvStep, PTL DEF Spec

-----------------------------------------------------------------------------
(* Every variable keeps its type.                                          *)
THEOREM TypeCorrect == Spec => []TypeOK
<1>1. IInv => TypeOK
  BY DEF IInv
<1> QED BY <1>1, IInvHolds, PTL

(* However calls overlap, fail and stop, only the newest transaction can   *)
(* be unresolved, and the pointer names it or the one it would replace.    *)
THEOREM OneUnresolvedHolds == Spec => []OneUnresolved
<1>1. IInv => OneUnresolved
  BY DEF IInv, Ordered
<1> QED BY <1>1, IInvHolds, PTL

(* A plan that reviewed an activation is tried by one transaction only.    *)
THEOREM RefreshTriedOnceHolds == Spec => []RefreshTriedOnce
<1>1. IInv => RefreshTriedOnce
  <2> SUFFICES ASSUME IInv, NEW t \in DOMAIN journals, NEW u \in DOMAIN journals,
                      t # u, journals[t].plan = journals[u].plan
               PROVE  journals[t].plan.base.tx = None
    BY DEF RefreshTriedOnce
  <2>1. Follows(t) /\ Follows(u) /\ t \in Nat /\ u \in Nat
    BY DEF IInv, Ordered, TypeOK
  <2> QED BY <2>1 DEF Follows
<1> QED BY <1>1, IInvHolds, PTL

(* What a new activation replaces is what its plan was reviewed against:   *)
(* no activation made in between is lost.                                  *)
THEOREM ReplacesReviewedHolds == Spec => ReplacesReviewed
<1> DEFINE Replaces == pointer' > pointer => journals'[pointer'].plan.base.tx = pointer
<1>1. IInv /\ [Next]_vars => [Replaces]_vars
  <2> SUFFICES ASSUME IInv, [Next]_vars, pointer' > pointer
               PROVE  journals'[pointer'].plan.base.tx = pointer
    OBVIOUS
  <2>1. PublishPointer \/ RemovePointer \/ RestorePointer
    <3>1. pointer' # pointer
      BY DEF IInv, TypeOK, None, Transactions
    <3> QED BY <3>1 DEF Next, vars, disk, ApplyStep, MakeDirectory, PrepareJournal,
         PublishTransaction, ReuseGeneration, StartCopy, BeginCopy, FinishCopy,
         RecordStaged, MakeContext, MakeGenerations, RecordContext, FillContext,
         PromoteContext, Promote, RecordPublished, WriteReceipt, RecordReceipt,
         RecordProposal, WritePending, RecordPointed, Commit, Confirm, UndoStep,
         UndoRaises, ApplyRaises, KeepPointer, RestorePending, RemovePending,
         Reconcile, DismantlePrepared, EmptyPrepared, RemovePrepared,
         RemoveStaging, RecordRolledBack, RecoverStep, StartRecovery,
         DiscardPreparation, AdoptPreparation, ListUnresolved, UndoNext,
         EndRecovery, EditSource, BuildPlan, Precheck, Leave, Enter, Stop
  <2>2. at \in WorkSteps
    BY <2>1 DEF PublishPointer, RemovePointer, RestorePointer, WorkSteps,
       ApplySteps, UndoSteps
  <2>3. /\ me \in DOMAIN journals /\ me \in Nat /\ Follows(me)
        /\ pointer \in {me, mem.before} /\ mem.before = journals[me].before
    BY <2>2, Working DEF IInv, Ordered, Mine
  <2>4. CASE PublishPointer
    BY <2>3, <2>4 DEF PublishPointer, Follows
  <2>5. CASE RemovePointer \/ RestorePointer
    <3>1. pointer' \in {None, mem.before}
      BY <2>5 DEF RemovePointer, RestorePointer
    <3> QED BY <2>3, <3>1 DEF Follows, None
  <2> QED BY <2>1, <2>4, <2>5
<1> QED BY <1>1, IInvHolds, PTL DEF Spec, ReplacesReviewed

-----------------------------------------------------------------------------
(***************************************************************************)
(* The store as a register.  The pointer names a transaction only after    *)
(* its journal says what the pointer will be, so whoever undoes it knows   *)
(* that there is something to take back.                                   *)
(***************************************************************************)
Proposing ==
  /\ \A t \in DOMAIN journals :
       journals[t].state = "COMMITTED" \/ t = pointer => journals[t].proposed
  /\ at \in WorkSteps /\ pointer = me => mem.proposed
  /\ at \in {"recordProposal", "check", "point"} => mem.proposed
  /\ at \in {"check", "point"} => journals[me].proposed

Deciding ==
  /\ at \in {"recordPointed", "validate", "confirm"} => pointer = me
  /\ at \in UndoSteps \ {"restore", "replace"} => pointer = mem.before
  /\ at \in {"prepare", "publish"} \cup (ApplySteps \ {"confirm"})
       => journals[me].state \notin Final

Decided == Proposing /\ Deciding

LEMMA MoveDecided ==
  ASSUME IInv, Decided,
         ReuseGeneration \/ BeginCopy \/ FinishCopy \/ MakeContext \/
         MakeGenerations \/ FillContext \/ PromoteContext \/ Promote \/
         WriteReceipt \/ WritePending \/ PublishPointer \/ ApplyRaises \/
         KeepPointer \/ RemovePointer \/ RestorePending \/ RestorePointer
         \/ RemovePending \/ Reconcile \/ DismantlePrepared \/
         EmptyPrepared \/ RemovePrepared \/ RemoveStaging
  PROVE  Decided'
<1>1. /\ mem \in Journals /\ Mine /\ Proposing /\ Deciding
      /\ at \in WorkSteps => /\ me \in DOMAIN journals /\ me \in Nat /\ Follows(me)
                             /\ mem.before \in Nat /\ mem.before # me
      /\ None \notin DOMAIN journals
      /\ at \in WorkSteps /\ mem.before # None
           => mem.before \in DOMAIN journals /\ journals[mem.before].proposed
  <2>1. /\ mem \in Journals /\ Mine /\ Proposing /\ Deciding /\ Newest \in Nat
        /\ DOMAIN journals = 1..Newest
    BY DEF IInv, Ordered, TypeOK, Decided, Newest
  <2>2. ASSUME at \in WorkSteps
        PROVE  /\ me \in DOMAIN journals /\ me \in Nat /\ Follows(me)
               /\ mem.before \in Nat /\ mem.before # me
               /\ mem.before # None
                    => mem.before \in DOMAIN journals /\ journals[mem.before].proposed
    <3>1. me \in 1..Newest /\ Follows(me) /\ mem.before = journals[me].before
      BY <2>1, <2>2, Working DEF IInv, Ordered, Mine
    <3> QED BY <2>1, <3>1 DEF Follows, Proposing, None
  <2> QED BY <2>1, <2>2 DEF None
<1>2. CASE ReuseGeneration
  BY <1>1, <1>2 DEF ReuseGeneration, Goto, Continue, disk, Decided,
     Proposing, Deciding, Mine, WorkSteps, EarlySteps, ApplySteps,
     UndoSteps, Journals
<1>3. CASE BeginCopy
  BY <1>1, <1>3 DEF BeginCopy, Goto, Continue, disk, Decided, Proposing,
     Deciding, Mine, WorkSteps, EarlySteps, ApplySteps, UndoSteps,
     Journals
<1>4. CASE FinishCopy
  BY <1>1, <1>4 DEF FinishCopy, Goto, Continue, disk, Decided, Proposing,
     Deciding, Mine, WorkSteps, EarlySteps, ApplySteps, UndoSteps,
     Journals
<1>5. CASE MakeContext
  BY <1>1, <1>5 DEF MakeContext, Goto, Continue, disk, Decided, Proposing,
     Deciding, Mine, WorkSteps, EarlySteps, ApplySteps, UndoSteps,
     Journals
<1>6. CASE MakeGenerations
  BY <1>1, <1>6 DEF MakeGenerations, Goto, Continue, disk, Decided,
     Proposing, Deciding, Mine, WorkSteps, EarlySteps, ApplySteps,
     UndoSteps, Journals
<1>7. CASE FillContext
  BY <1>1, <1>7 DEF FillContext, Goto, Continue, disk, Decided, Proposing,
     Deciding, Mine, WorkSteps, EarlySteps, ApplySteps, UndoSteps,
     Journals
<1>8. CASE PromoteContext
  BY <1>1, <1>8 DEF PromoteContext, Goto, Continue, disk, Decided,
     Proposing, Deciding, Mine, WorkSteps, EarlySteps, ApplySteps,
     UndoSteps, Journals
<1>9. CASE Promote
  BY <1>1, <1>9 DEF Promote, Goto, Continue, disk, Decided, Proposing,
     Deciding, Mine, WorkSteps, EarlySteps, ApplySteps, UndoSteps,
     Journals
<1>10. CASE WriteReceipt
  BY <1>1, <1>10 DEF WriteReceipt, Goto, Continue, disk, Decided,
     Proposing, Deciding, Mine, WorkSteps, EarlySteps, ApplySteps,
     UndoSteps, Journals
<1>11. CASE WritePending
  BY <1>1, <1>11 DEF WritePending, Goto, Continue, disk, Decided,
     Proposing, Deciding, Mine, WorkSteps, EarlySteps, ApplySteps,
     UndoSteps, Journals
<1>12. CASE PublishPointer
  BY <1>1, <1>12 DEF PublishPointer, Goto, Continue, disk, Decided,
     Proposing, Deciding, Mine, WorkSteps, EarlySteps, ApplySteps,
     UndoSteps, Journals
<1>13. CASE ApplyRaises
  BY <1>1, <1>13 DEF ApplyRaises, Goto, Continue, disk, Decided,
     Proposing, Deciding, Mine, WorkSteps, EarlySteps, ApplySteps,
     UndoSteps, Journals
<1>14. CASE KeepPointer
  BY <1>1, <1>14 DEF KeepPointer, Goto, Continue, disk, Decided,
     Proposing, Deciding, Mine, WorkSteps, EarlySteps, ApplySteps,
     UndoSteps, Journals, PointerRestored
<1>15. CASE RemovePointer
  BY <1>1, <1>15 DEF RemovePointer, Goto, Continue, disk, Decided,
     Proposing, Deciding, Mine, WorkSteps, EarlySteps, ApplySteps,
     UndoSteps, Journals, Follows, None
<1>16. CASE RestorePending
  BY <1>1, <1>16 DEF RestorePending, Goto, Continue, disk, Decided,
     Proposing, Deciding, Mine, WorkSteps, EarlySteps, ApplySteps,
     UndoSteps, Journals
<1>17. CASE RestorePointer
  BY <1>1, <1>17 DEF RestorePointer, Goto, Continue, disk, Decided,
     Proposing, Deciding, Mine, WorkSteps, EarlySteps, ApplySteps,
     UndoSteps, Journals, Follows, None
<1>18. CASE RemovePending
  BY <1>1, <1>18 DEF RemovePending, Goto, Continue, disk, Decided,
     Proposing, Deciding, Mine, WorkSteps, EarlySteps, ApplySteps,
     UndoSteps, Journals
<1>19. CASE Reconcile
  BY <1>1, <1>19 DEF Reconcile, Goto, Continue, disk, Decided, Proposing,
     Deciding, Mine, WorkSteps, EarlySteps, ApplySteps, UndoSteps,
     Journals
<1>20. CASE DismantlePrepared
  BY <1>1, <1>20 DEF DismantlePrepared, Goto, Continue, disk, Decided,
     Proposing, Deciding, Mine, WorkSteps, EarlySteps, ApplySteps,
     UndoSteps, Journals
<1>21. CASE EmptyPrepared
  BY <1>1, <1>21 DEF EmptyPrepared, Goto, Continue, disk, Decided,
     Proposing, Deciding, Mine, WorkSteps, EarlySteps, ApplySteps,
     UndoSteps, Journals
<1>22. CASE RemovePrepared
  BY <1>1, <1>22 DEF RemovePrepared, Goto, Continue, disk, Decided,
     Proposing, Deciding, Mine, WorkSteps, EarlySteps, ApplySteps,
     UndoSteps, Journals
<1>23. CASE RemoveStaging
  BY <1>1, <1>23 DEF RemoveStaging, Goto, Continue, disk, Decided,
     Proposing, Deciding, Mine, WorkSteps, EarlySteps, ApplySteps,
     UndoSteps, Journals, Reconciled
<1> QED BY <1>2, <1>3, <1>4, <1>5, <1>6, <1>7, <1>8, <1>9, <1>10, <1>11,
           <1>12, <1>13, <1>14, <1>15, <1>16, <1>17, <1>18, <1>19,
           <1>20, <1>21, <1>22, <1>23

LEMMA WriteDecided ==
  ASSUME IInv, Decided,
         PrepareJournal \/ PublishTransaction \/ StartCopy \/ RecordStaged
         \/ RecordContext \/ RecordPublished \/ RecordReceipt
         \/ RecordProposal \/ RecordPointed \/ Commit
         \/ RecordRolledBack \/ UndoRaises
  PROVE  Decided'
<1> DEFINE Writes(m, s) == journals' = [journals EXCEPT ![me] = [m EXCEPT !.state = s]]
<1>1. /\ TypeOK /\ Mine /\ Proposing /\ Deciding /\ mem \in Journals
      /\ journals \in Seq(Journals) /\ Newest \in Nat /\ DOMAIN journals = 1..Newest
  BY DEF IInv, Ordered, TypeOK, Decided, Newest
<1>2. ASSUME NEW m \in Journals, m.plan = mem.plan, m.before = mem.before,
             m.proposed = mem.proposed, NEW s \in States, Writes(m, s),
             at \in WorkSteps, UNCHANGED pointer, s = "COMMITTED" => pointer = me
      PROVE  /\ me \in DOMAIN journals /\ me # None /\ DOMAIN journals' = DOMAIN journals
             /\ \A t \in DOMAIN journals' :
                  journals'[t].state = "COMMITTED" \/ t = pointer => journals'[t].proposed
             /\ journals'[me].state = s /\ journals'[me].proposed = mem.proposed
  <2>1. me \in DOMAIN journals /\ me # None
    BY <1>1, <1>2, Working DEF None
  <2>2. journals'[me] = [m EXCEPT !.state = s]
    BY <1>1, <1>2, <2>1
  <2>3. journals'[me].state = s /\ journals'[me].proposed = mem.proposed
    BY <1>2, <2>2 DEF Journals
  <2>4. DOMAIN journals' = DOMAIN journals
        /\ \A t \in DOMAIN journals : t # me => journals'[t] = journals[t]
    BY <1>1, <1>2
  <2>5. s = "COMMITTED" \/ me = pointer => mem.proposed
    BY <1>1, <1>2 DEF Proposing
  <2> QED BY <1>1, <2>1, <2>3, <2>4, <2>5 DEF Proposing
<1>3. CASE PrepareJournal \/ PublishTransaction \/ StartCopy \/ RecordStaged
           \/ RecordContext \/ RecordPublished
  <2>1. PICK s \in {"PREPARING", "PREPARED", "APPLYING"} : Writes(mem, s)
    BY <1>3 DEF PrepareJournal, PublishTransaction, StartCopy, RecordStaged,
       RecordContext, RecordPublished, Write
  <2>2. at \in WorkSteps /\ UNCHANGED <<pointer, me, mem>>
    BY <1>3 DEF PrepareJournal, PublishTransaction, StartCopy, RecordStaged,
       RecordContext, RecordPublished, Goto, Continue, disk, WorkSteps, EarlySteps,
       ApplySteps
  <2>3. /\ at' \in WorkSteps \ UndoSteps
        /\ at' \notin {"recordProposal", "check", "point", "recordPointed",
                       "validate", "confirm"}
    BY <1>3 DEF PrepareJournal, PublishTransaction, StartCopy, RecordStaged,
       RecordContext, RecordPublished, Goto, Continue, WorkSteps, EarlySteps,
       ApplySteps, UndoSteps
  <2>4. /\ \A t \in DOMAIN journals' :
             journals'[t].state = "COMMITTED" \/ t = pointer => journals'[t].proposed
        /\ journals'[me].state = s /\ s \notin Final
    BY <1>1, <1>2, <2>1, <2>2 DEF States, Final
  <2> QED BY <1>1, <2>2, <2>3, <2>4 DEF Decided, Proposing, Deciding
<1>4. CASE RecordReceipt \/ RecordProposal \/ RecordPointed
  <2>1. /\ Writes(mem, "VALIDATING") /\ at \in WorkSteps /\ UNCHANGED <<pointer, me>>
        /\ mem.proposed => mem'.proposed
    BY <1>1, <1>4 DEF RecordReceipt, RecordProposal, RecordPointed, Write, Goto,
       Continue, disk, WorkSteps, ApplySteps, Journals
  <2>2. /\ \A t \in DOMAIN journals' :
             journals'[t].state = "COMMITTED" \/ t = pointer => journals'[t].proposed
        /\ journals'[me].state = "VALIDATING" /\ journals'[me].proposed = mem.proposed
    BY <1>1, <1>2, <2>1 DEF States
  <2>3. \/ at' = "recordProposal" /\ mem'.proposed
        \/ at = "recordProposal" /\ at' = "check" /\ mem' = mem
        \/ at = "recordPointed" /\ at' = "validate"
    BY <1>1, <1>4 DEF RecordReceipt, RecordProposal, RecordPointed, Goto, Continue,
       Journals
  <2> QED BY <1>1, <2>1, <2>2, <2>3
          DEF Decided, Proposing, Deciding, UndoSteps, Final
<1>5. CASE Commit
  <2>1. /\ mem' \in Journals /\ mem'.plan = mem.plan /\ mem'.before = mem.before
        /\ mem'.proposed = mem.proposed
    BY <1>1, <1>5, MemTyped DEF Commit, Journals
  <2>2. /\ Writes(mem', "COMMITTED") /\ at = "validate" /\ at' = "confirm"
        /\ UNCHANGED <<pointer, me>>
    BY <1>5 DEF Commit, Goto, disk
  <2>3. pointer = me /\ at \in WorkSteps
    BY <1>1, <2>2 DEF Deciding, WorkSteps, ApplySteps
  <2>4. \A t \in DOMAIN journals' :
          journals'[t].state = "COMMITTED" \/ t = pointer => journals'[t].proposed
    BY <1>2, <2>1, <2>2, <2>3 DEF States
  <2> QED BY <1>1, <2>1, <2>2, <2>3, <2>4
          DEF Decided, Proposing, Deciding, UndoSteps
<1>6. CASE RecordRolledBack \/ UndoRaises
  <2>1. PICK s \in {"ROLLED_BACK", "ROLLBACK_INCOMPLETE"} : Writes(mem, s)
    BY <1>6 DEF RecordRolledBack, UndoRaises, Write
  <2>2. at \in WorkSteps /\ UNCHANGED pointer /\ at' \in {"idle", "next"}
    BY <1>6 DEF RecordRolledBack, UndoRaises, UndoEnds, Release, disk, WorkSteps,
       UndoSteps
  <2>3. \A t \in DOMAIN journals' :
          journals'[t].state = "COMMITTED" \/ t = pointer => journals'[t].proposed
    BY <1>1, <1>2, <2>1, <2>2 DEF States
  <2> QED BY <2>2, <2>3 DEF Decided, Proposing, Deciding, WorkSteps, EarlySteps,
             ApplySteps, UndoSteps
<1> QED BY <1>3, <1>4, <1>5, <1>6

LEMMA RestDecided ==
  ASSUME IInv, Decided, UNCHANGED <<journals, pointer>>,
         \/ UNCHANGED call
         \/ at' \in {"idle", "mkdir", "normalise", "next"}
  PROVE  Decided'
BY DEF Decided, Proposing, Deciding, call, WorkSteps, EarlySteps, ApplySteps, UndoSteps

LEMMA CreationDecided ==
  ASSUME IInv, Decided, MakeDirectory
  PROVE  Decided'
<1>1. /\ mem \in Journals /\ Newest \in Nat /\ DOMAIN journals = 1..Newest
      /\ journals' = Append(journals, mem) /\ at' = "prepare"
      /\ UNCHANGED <<pointer, me, mem>>
  BY DEF IInv, TypeOK, Newest, MakeDirectory, Goto, Continue, disk
<1>2. DOMAIN journals' = 1..(Newest + 1) /\ journals'[Newest + 1] = mem
      /\ \A t \in 1..Newest : journals'[t] = journals[t]
  BY <1>1, AppendProperties DEF IInv, TypeOK, Newest
<1>3. me = Newest + 1 /\ (pointer = None \/ pointer \in 1..Newest)
  BY <1>1 DEF IInv, Ordered, Fresh, PointerJournaled, MakeDirectory
<1>4. mem.state = "EMPTY"
  BY DEF MakeDirectory, IInv, Ordered, Fresh
<1> QED BY <1>1, <1>2, <1>3, <1>4
        DEF Decided, Proposing, Deciding, UndoSteps, Final, None

LEMMA RecoveryDecided ==
  ASSUME IInv, Decided, RecoverStep
  PROVE  Decided'
<1>1. /\ journals \in Seq(Journals) /\ Newest \in Nat /\ DOMAIN journals = 1..Newest
      /\ Proposing /\ Deciding
  BY DEF IInv, TypeOK, Newest, Decided
<1>2. CASE StartRecovery \/ EndRecovery \/ ListUnresolved
  <2>1. UNCHANGED <<journals, pointer>> /\ at' \in {"idle", "normalise", "next"}
    BY <1>2 DEF StartRecovery, EndRecovery, ListUnresolved, Release, disk
  <2> QED BY <2>1, RestDecided
<1>3. CASE DiscardPreparation
  <2>1. /\ journals' = SubSeq(journals, 1, Newest - 1) /\ Newest # 0
        /\ UNCHANGED <<pointer, at, me, mem>> /\ at = "normalise"
    BY <1>3 DEF DiscardPreparation, Front, Newest, disk, call
  <2>2. \A t \in 1..(Newest - 1) : journals[t] \in Journals
    BY <1>1
  <2>3. /\ DOMAIN journals' = 1..(Newest - 1)
        /\ \A t \in 1..(Newest - 1) : journals'[t] = journals[t]
    BY <1>1, <2>1, <2>2, SubSeqProperties
  <2> QED BY <1>1, <2>1, <2>3 DEF Decided, Proposing, Deciding, WorkSteps,
             EarlySteps, ApplySteps, UndoSteps
<1>4. ASSUME NEW u \in DOMAIN journals, AdoptPreparation(u)
      PROVE  Decided'
  <2>1. journals[u] \in Journals
    BY <1>1
  <2>2. /\ journals' = [journals EXCEPT ![u] = [journals[u] EXCEPT !.state = "PREPARED"]]
        /\ UNCHANGED <<pointer, at, me, mem>> /\ at = "normalise"
    BY <1>4 DEF AdoptPreparation, disk, call
  <2>3. /\ DOMAIN journals' = DOMAIN journals
        /\ journals'[u].proposed = journals[u].proposed
        /\ journals'[u].state = "PREPARED"
        /\ \A t \in DOMAIN journals : t # u => journals'[t] = journals[t]
    BY <1>1, <2>1, <2>2 DEF Journals
  <2> QED BY <1>1, <2>2, <2>3 DEF Decided, Proposing, Deciding, WorkSteps,
             EarlySteps, ApplySteps, UndoSteps
<1>5. CASE UndoNext
  <2>1. PICK t \in todo : me' = t /\ mem' = journals[t]
    BY <1>5 DEF UndoNext
  <2>2. t \in DOMAIN journals
    BY <1>5, <2>1 DEF UndoNext, IInv, Ordered, Recovering, Unresolved
  <2>3. UNCHANGED <<journals, pointer>> /\ at' = "restore"
    BY <1>5 DEF UndoNext, disk
  <2> QED BY <1>1, <2>1, <2>2, <2>3 DEF Decided, Proposing, Deciding, ApplySteps
<1> QED BY <1>2, <1>3, <1>4, <1>5 DEF RecoverStep

LEMMA DecidedInit == Init => Decided
<1> SUFFICES ASSUME Init PROVE Decided
  OBVIOUS
<1>1. at = "idle" /\ DOMAIN journals = {}
  BY DEF Init
<1> QED BY <1>1 DEF Decided, Proposing, Deciding, WorkSteps, EarlySteps, ApplySteps,
           UndoSteps

LEMMA DecidedStep == IInv /\ Decided /\ [Next]_vars => Decided'
<1> SUFFICES ASSUME IInv, Decided, [Next]_vars PROVE Decided'
  OBVIOUS
<1>1. CASE ApplyStep
  <2>1. CASE Confirm
    BY <2>1, RestDecided DEF Confirm, Release, disk
  <2> QED BY <1>1, <2>1, MoveDecided, WriteDecided, CreationDecided DEF ApplyStep
<1>2. CASE ApplyRaises \/ UndoStep \/ UndoRaises
  BY <1>2, MoveDecided, WriteDecided DEF UndoStep
<1>3. CASE RecoverStep
  BY <1>3, RecoveryDecided
<1>4. CASE \/ EditSource \/ BuildPlan \/ Stop \/ UNCHANGED vars
           \/ \E plan \in plans : Precheck(plan) \/ Leave(plan) \/ Enter(plan)
  <2>1. /\ UNCHANGED <<journals, pointer>>
        /\ UNCHANGED call \/ at' \in {"idle", "mkdir"}
    BY <1>4 DEF EditSource, BuildPlan, Stop, Release, Precheck, Leave, Enter, vars, disk
  <2> QED BY <2>1, RestDecided
<1> QED BY <1>1, <1>2, <1>3, <1>4 DEF Next

LEMMA DecidedHolds == Spec => [](IInv /\ Decided)
<1>1. Init => IInv /\ Decided
  BY IInvInit, DecidedInit
<1>2. IInv /\ Decided /\ [Next]_vars => (IInv /\ Decided)'
  BY IInvStep, DecidedStep
<1> QED BY <1>1, <1>2, PTL DEF Spec

-----------------------------------------------------------------------------
(* The refinement, step by step.  A step that commits, abandons, withdraws *)
(* or reopens is one that changes which transactions are unresolved, or    *)
(* that takes the pointer from a committed transaction.                    *)
RegisterStep == [Register!Next]_(Register!vars)

LEMMA Stutters ==
  ASSUME UNCHANGED <<Served, Tried, Replaced>>
  PROVE  RegisterStep
BY DEF RegisterStep, Register!vars

LEMMA Bystander ==
  ASSUME UNCHANGED <<journals, pointer>>
  PROVE  RegisterStep
<1>1. UNCHANGED <<Served, Tried, Replaced>>
  BY DEF Served, Tried, Replaced, Unresolved, Newest
<1> QED BY <1>1, Stutters

\* Where the transaction that is worked on stands.
LEMMA Standing ==
  ASSUME IInv, at \in WorkSteps
  PROVE  /\ me = Newest /\ me \in DOMAIN journals /\ me # None /\ me \in Transactions
         /\ mem.before = journals[me].before /\ mem.before # me
         /\ mem.before \notin Unresolved /\ pointer \in {me, mem.before}
         /\ Unresolved \in {{}, {me}}
         /\ me \in Unresolved => Served = mem.before /\ Tried = me
         /\ me \notin Unresolved => Served = pointer /\ Tried = None
<1>1. /\ me = Newest /\ me \in 1..Newest /\ DOMAIN journals = 1..Newest
      /\ Newest \in Nat /\ Newest <= MaxTransactions /\ mem.before = journals[me].before
      /\ pointer \in {me, mem.before} /\ Follows(me) /\ me # None
  BY Working DEF IInv, Ordered, Mine, TypeOK, None
<1>2. Unresolved \in {{}, {me}}
  BY <1>1 DEF IInv, Ordered, OneUnresolved
<1>3. mem.before # me /\ mem.before \notin Unresolved
  BY <1>1, <1>2 DEF Follows
<1>4. me \in Transactions
  BY <1>1, StoreAssumption DEF Transactions
<1> QED BY <1>1, <1>2, <1>3, <1>4 DEF Served, Tried

LEMMA PointerStep ==
  ASSUME IInv, Decided, PublishPointer \/ RemovePointer \/ RestorePointer
  PROVE  RegisterStep
<1>1. /\ at \in WorkSteps /\ UNCHANGED <<journals, Newest, Unresolved, Replaced, me>>
  BY DEF PublishPointer, RemovePointer, RestorePointer, Goto, Continue, Newest,
     Unresolved, Replaced, WorkSteps, ApplySteps, UndoSteps
<1>2. CASE me \in Unresolved
  <2>1. pointer' \in {me, mem.before}
    BY DEF PublishPointer, RemovePointer, RestorePointer
  <2>2. Served' = mem.before
    BY <1>1, <1>2, <2>1, Standing DEF Served
  <2> QED BY <1>1, <1>2, <2>2, Standing, Stutters DEF Tried
<1>3. CASE me \notin Unresolved
  <2>1. ~PublishPointer
    BY <1>1, <1>3, Standing DEF PublishPointer, Decided, Deciding, ApplySteps,
       Unresolved
  <2>2. pointer' = mem.before
    BY <2>1 DEF RemovePointer, RestorePointer
  <2>3. Unresolved = {} /\ Served = pointer /\ Served' = mem.before
        /\ UNCHANGED Tried /\ Tried = None
    BY <1>1, <1>3, <2>2, Standing DEF Served, Tried
  <2>4. CASE pointer = me
    <3>1. Replaced[me] = mem.before
      BY <1>1, Standing DEF Replaced
    <3>2. Register!Withdraw
      BY <1>1, <2>3, <2>4, <3>1, Standing DEF Register!Withdraw, Register!None, None
    <3> QED BY <3>2 DEF RegisterStep, Register!Next
  <2>5. CASE pointer # me
    BY <1>1, <2>3, <2>5, Standing, Stutters
  <2> QED BY <2>4, <2>5
<1> QED BY <1>2, <1>3

LEMMA JournalStep ==
  ASSUME IInv, IInv', Decided, NEW m \in Journals, NEW s \in States,
         m.plan = mem.plan, m.before = mem.before, at \in WorkSteps, UNCHANGED pointer,
         journals' = [journals EXCEPT ![me] = [m EXCEPT !.state = s]]
  PROVE  /\ UNCHANGED <<Newest, Replaced>>
         /\ Unresolved' = IF s \in Final THEN {} ELSE {me}
<1>1. /\ Newest' = Newest /\ DOMAIN journals' = DOMAIN journals
      /\ \A t \in 1..(Newest - 1) : journals'[t] = journals[t]
      /\ journals'[me].state = s /\ journals'[me].before = journals[me].before
  BY WriteElsewhere DEF IInv, Ordered
<1>2. me = Newest /\ DOMAIN journals = 1..Newest /\ Newest \in Nat /\ me \in 1..Newest
  BY Working DEF IInv, Ordered
<1>3. \A t \in DOMAIN journals : journals'[t].before = journals[t].before
  BY <1>1, <1>2
<1>4. Unresolved' \subseteq {me}
  BY <1>1, <1>2 DEF IInv, Ordered, OneUnresolved
<1> QED BY <1>1, <1>2, <1>3, <1>4 DEF Replaced, Unresolved

LEMMA WriteStep ==
  ASSUME IInv, IInv', Decided,
         PrepareJournal \/ PublishTransaction \/ StartCopy \/ RecordStaged
         \/ RecordContext \/ RecordPublished \/ RecordReceipt
         \/ RecordProposal \/ RecordPointed \/ Commit
         \/ RecordRolledBack \/ UndoRaises
  PROVE  RegisterStep
<1>1. mem \in Journals
  BY DEF IInv, TypeOK
<1>2. CASE PrepareJournal \/ PublishTransaction \/ StartCopy \/ RecordStaged
           \/ RecordContext \/ RecordPublished \/ RecordReceipt
           \/ RecordProposal \/ RecordPointed
  <2>1. PICK s \in {"PREPARING", "PREPARED", "APPLYING", "VALIDATING"} :
          journals' = [journals EXCEPT ![me] = [mem EXCEPT !.state = s]]
    BY <1>2 DEF PrepareJournal, PublishTransaction, StartCopy, RecordStaged,
       RecordContext, RecordPublished, RecordReceipt, RecordProposal, RecordPointed,
       Write
  <2>2. /\ at \in {"prepare", "publish"} \cup (ApplySteps \ {"confirm"})
        /\ at \in WorkSteps /\ UNCHANGED pointer
    BY <1>2 DEF PrepareJournal, PublishTransaction, StartCopy, RecordStaged,
       RecordContext, RecordPublished, RecordReceipt, RecordProposal, RecordPointed,
       disk, WorkSteps, EarlySteps, ApplySteps
  <2>3. UNCHANGED <<Newest, Replaced>> /\ Unresolved' = {me}
    BY <1>1, <2>1, <2>2, JournalStep DEF States, Final
  <2>4. me \in Unresolved
    BY <2>2, Standing DEF Decided, Deciding, Unresolved
  <2>5. Unresolved = {me}
    BY <2>2, <2>4, Standing
  <2>6. Served' = mem.before /\ Tried' = me
    BY <2>2, <2>3, Standing DEF Served, Tried, Replaced
  <2> QED BY <2>2, <2>3, <2>4, <2>6, Standing, Stutters
<1>3. CASE Commit
  <2>1. mem' \in Journals /\ mem'.plan = mem.plan /\ mem'.before = mem.before
    BY <1>1, <1>3, MemTyped DEF IInv, Commit, Journals
  <2>2. /\ journals' = [journals EXCEPT ![me] = [mem' EXCEPT !.state = "COMMITTED"]]
        /\ at = "validate" /\ UNCHANGED pointer
    BY <1>3 DEF Commit, disk
  <2>3. at \in WorkSteps /\ pointer = me /\ journals[me].state \notin Final
    BY <2>2 DEF Decided, Deciding, WorkSteps, ApplySteps
  <2>4. UNCHANGED <<Newest, Replaced>> /\ Unresolved' = {}
    BY <2>1, <2>2, <2>3, JournalStep DEF States, Final
  <2>5. me \in Unresolved
    BY <2>3, Standing DEF Unresolved
  <2>6. Served' = me /\ Tried' = None
    BY <2>2, <2>3, <2>4 DEF Served, Tried
  <2>7. Register!Commit
    BY <2>3, <2>4, <2>5, <2>6, Standing DEF Register!Commit, Register!None, None
  <2> QED BY <2>7 DEF RegisterStep, Register!Next
<1>4. CASE RecordRolledBack
  <2>1. /\ journals' = [journals EXCEPT ![me] = [mem EXCEPT !.state = "ROLLED_BACK"]]
        /\ at = "record" /\ UNCHANGED pointer
    BY <1>4 DEF RecordRolledBack, Write, disk
  <2>2. at \in WorkSteps /\ pointer = mem.before
    BY <2>1 DEF Decided, Deciding, WorkSteps, UndoSteps
  <2>3. UNCHANGED <<Newest, Replaced>> /\ Unresolved' = {}
    BY <1>1, <2>1, <2>2, JournalStep DEF States, Final
  <2>4. Served' = mem.before /\ Served = mem.before /\ Tried' = None
    BY <2>1, <2>2, <2>3, Standing DEF Served, Tried
  <2>5. CASE me \in Unresolved
    <3>1. Register!Abandon
      BY <2>2, <2>3, <2>4, <2>5, Standing DEF Register!Abandon, Register!None, None
    <3> QED BY <3>1 DEF RegisterStep, Register!Next
  <2>6. CASE me \notin Unresolved
    BY <2>2, <2>3, <2>4, <2>6, Standing, Stutters
  <2> QED BY <2>5, <2>6
<1>5. CASE UndoRaises
  <2>1. /\ journals' = [journals EXCEPT
                          ![me] = [mem EXCEPT !.state = "ROLLBACK_INCOMPLETE"]]
        /\ at \in UndoSteps /\ UNCHANGED pointer
    BY <1>5 DEF UndoRaises, Write, disk
  <2>2. at \in WorkSteps
    BY <2>1 DEF WorkSteps
  <2>3. UNCHANGED <<Newest, Replaced>> /\ Unresolved' = {me}
    BY <1>1, <2>1, <2>2, JournalStep DEF States, Final
  <2>4. Replaced[me] = mem.before /\ me \in DOMAIN Replaced
    BY <2>2, Standing DEF Replaced
  <2>5. Served' = mem.before /\ Tried' = me
    <3>1. journals'[me].before = mem.before
      BY <2>2, <2>3, <2>4, Standing DEF Replaced
    <3> QED BY <2>1, <2>2, <2>3, <3>1, Standing DEF Served, Tried
  <2>6. CASE me \in Unresolved
    BY <2>2, <2>3, <2>5, <2>6, Standing, Stutters
  <2>7. CASE me \notin Unresolved /\ pointer = me
    <3>1. Register!Withdraw
      BY <2>2, <2>3, <2>4, <2>5, <2>7, Standing
      DEF Register!Withdraw, Register!None, None
    <3> QED BY <3>1 DEF RegisterStep, Register!Next
  <2>8. CASE me \notin Unresolved /\ pointer # me
    <3>1. Register!Reopen(me)
      BY <2>2, <2>3, <2>4, <2>5, <2>8, Standing
      DEF Register!Reopen, Register!None, None
    <3>2. me \in Register!Transactions
      BY <2>2, Standing DEF Register!Transactions, Transactions
    <3> QED BY <3>1, <3>2 DEF RegisterStep, Register!Next
  <2> QED BY <2>6, <2>7, <2>8
<1> QED BY <1>2, <1>3, <1>4, <1>5

LEMMA CreationStep ==
  ASSUME IInv, IInv', MakeDirectory
  PROVE  RegisterStep
<1> DEFINE new == Newest + 1
<1>1. /\ mem \in Journals /\ Newest \in Nat /\ DOMAIN journals = 1..Newest
      /\ journals' = Append(journals, mem) /\ UNCHANGED pointer
  BY DEF IInv, TypeOK, Newest, MakeDirectory, disk
<1>2. /\ Unresolved = {} /\ mem.before = pointer /\ mem.state = "EMPTY"
      /\ Newest < MaxTransactions /\ (pointer = None \/ pointer \in 1..Newest)
  BY <1>1 DEF IInv, Ordered, Fresh, PointerJournaled, MakeDirectory
<1>3. /\ Newest' = new /\ DOMAIN journals' = 1..new /\ journals'[new] = mem
      /\ \A t \in 1..Newest : journals'[t] = journals[t]
  BY <1>1, AppendProperties DEF IInv, TypeOK, Newest
<1>4. Unresolved' = {new}
  BY <1>1, <1>2, <1>3 DEF Unresolved, Final
<1>5. Served = pointer /\ Served' = pointer /\ Tried = None /\ Tried' = new
  BY <1>1, <1>2, <1>3, <1>4 DEF Served, Tried, None
<1>6. /\ new \notin DOMAIN Replaced
      /\ Replaced' = [u \in DOMAIN Replaced \cup {new} |->
                        IF u = new THEN Served ELSE Replaced[u]]
  <2>1. DOMAIN Replaced = 1..Newest /\ 1..new = 1..Newest \cup {new}
    BY <1>1 DEF Replaced
  <2>2. \A u \in 1..new : journals'[u].before =
                            IF u = new THEN Served ELSE Replaced[u]
    BY <1>1, <1>2, <1>3, <1>5 DEF Replaced
  <2>3. Replaced' = [u \in 1..new |-> journals'[u].before]
    BY <1>3 DEF Replaced
  <2> QED BY <1>1, <2>1, <2>2, <2>3
<1>7. new \in Register!Transactions
  BY <1>1, <1>2, StoreAssumption DEF Register!Transactions
<1>8. Register!Begin(new)
  BY <1>5, <1>6 DEF Register!Begin, Register!None, None
<1> QED BY <1>7, <1>8 DEF RegisterStep, Register!Next

LEMMA NormalisingStep ==
  ASSUME IInv, DiscardPreparation \/ \E t \in DOMAIN journals : AdoptPreparation(t)
  PROVE  RegisterStep
<1>1. /\ journals \in Seq(Journals) /\ Newest \in Nat /\ DOMAIN journals = 1..Newest
  BY DEF IInv, TypeOK, Newest
<1>2. CASE DiscardPreparation
  <2>1. /\ journals' = SubSeq(journals, 1, Newest - 1) /\ Newest # 0
        /\ UNCHANGED pointer /\ journals[Newest].state = "EMPTY"
    BY <1>2 DEF DiscardPreparation, Front, Newest, disk
  <2>2. \A t \in 1..(Newest - 1) : journals[t] \in Journals
    BY <1>1
  <2>3. /\ DOMAIN journals' = 1..(Newest - 1) /\ Newest' = Newest - 1
        /\ \A t \in 1..(Newest - 1) : journals'[t] = journals[t]
    BY <1>1, <2>1, <2>2, SubSeqProperties DEF Newest
  <2>4. Unresolved = {Newest} /\ Unresolved' = {}
    <3>1. Newest \in Unresolved /\ \A t \in Unresolved : t = Newest
      BY <1>1, <2>1 DEF IInv, Ordered, OneUnresolved, Unresolved, Final
    <3> QED BY <1>1, <2>3, <3>1 DEF Unresolved
  <2>5. pointer # Newest
    BY <2>1 DEF IInv, Ordered, PointerJournaled, TypeOK, None
  <2>6. Served = pointer /\ Served' = pointer /\ Tried = Newest /\ Tried' = None
    BY <2>1, <2>4, <2>5 DEF Served, Tried
  <2>7. Replaced' = [u \in DOMAIN Replaced \ {Newest} |-> Replaced[u]]
    BY <1>1, <2>3 DEF Replaced
  <2>8. Register!Abandon
    BY <2>1, <2>6, <2>7 DEF Register!Abandon, Register!None, None
  <2> QED BY <2>8 DEF RegisterStep, Register!Next
<1>3. ASSUME NEW u \in DOMAIN journals, AdoptPreparation(u)
      PROVE  RegisterStep
  <2>1. journals[u] \in Journals
    BY <1>1
  <2>2. /\ journals' = [journals EXCEPT ![u] = [journals[u] EXCEPT !.state = "PREPARED"]]
        /\ UNCHANGED pointer /\ journals[u].state = "PREPARING"
    BY <1>3 DEF AdoptPreparation, disk
  <2>3. [journals[u] EXCEPT !.state = "PREPARED"] \in Journals
    BY <2>1 DEF Journals, States
  <2>4. Newest' = Newest /\ DOMAIN journals' = DOMAIN journals
    BY <1>1, <2>2, <2>3, ExceptSeq DEF Newest
  <2>5. \A t \in DOMAIN journals :
          /\ journals'[t].before = journals[t].before
          /\ journals'[t].state \in Final <=> journals[t].state \in Final
    BY <1>1, <2>1, <2>2 DEF Journals, Final
  <2>6. UNCHANGED <<Unresolved, Replaced>>
    BY <2>4, <2>5 DEF Unresolved, Replaced
  <2>7. UNCHANGED Served
    <3>1. Unresolved \subseteq DOMAIN journals
      BY DEF Unresolved
    <3> QED BY <2>2, <2>5, <2>6, <3>1 DEF Served
  <2> QED BY <2>4, <2>6, <2>7, Stutters DEF Tried
<1> QED BY <1>2, <1>3

LEMMA RegisterSimulated ==
  IInv /\ IInv' /\ Decided /\ [Next]_vars => RegisterStep
<1> SUFFICES ASSUME IInv, IInv', Decided, [Next]_vars PROVE RegisterStep
  OBVIOUS
<1>1. CASE ApplyStep
  <2>1. CASE \/ ReuseGeneration \/ BeginCopy \/ FinishCopy \/ MakeContext
             \/ MakeGenerations \/ FillContext \/ PromoteContext \/ Promote
             \/ WriteReceipt \/ WritePending \/ Confirm
    <3>1. UNCHANGED <<journals, pointer>>
      BY <2>1 DEF ReuseGeneration, BeginCopy, FinishCopy, MakeContext,
         MakeGenerations, FillContext, PromoteContext, Promote, WriteReceipt,
         WritePending, Confirm, disk
    <3> QED BY <3>1, Bystander
  <2> QED BY <1>1, <2>1, WriteStep, PointerStep, CreationStep DEF ApplyStep
<1>2. CASE UndoStep
  <2>1. CASE \/ KeepPointer \/ RestorePending \/ RemovePending \/ Reconcile
             \/ DismantlePrepared \/ EmptyPrepared \/ RemovePrepared \/ RemoveStaging
    <3>1. UNCHANGED <<journals, pointer>>
      BY <2>1 DEF KeepPointer, RestorePending, RemovePending, Reconcile,
         DismantlePrepared, EmptyPrepared, RemovePrepared, RemoveStaging, disk
    <3> QED BY <3>1, Bystander
  <2> QED BY <1>2, <2>1, WriteStep, PointerStep DEF UndoStep
<1>3. CASE UndoRaises
  BY <1>3, WriteStep
<1>4. CASE RecoverStep
  <2>1. CASE StartRecovery \/ ListUnresolved \/ UndoNext \/ EndRecovery
    <3>1. UNCHANGED <<journals, pointer>>
      BY <2>1 DEF StartRecovery, ListUnresolved, UndoNext, EndRecovery, disk
    <3> QED BY <3>1, Bystander
  <2> QED BY <1>4, <2>1, NormalisingStep DEF RecoverStep
<1>5. CASE \/ EditSource \/ BuildPlan \/ ApplyRaises \/ Stop \/ UNCHANGED vars
           \/ \E plan \in plans : Precheck(plan) \/ Leave(plan) \/ Enter(plan)
  <2>1. UNCHANGED <<journals, pointer>>
    BY <1>5 DEF EditSource, BuildPlan, ApplyRaises, Stop, Precheck, Leave, Enter,
       vars, disk
  <2> QED BY <2>1, Bystander
<1> QED BY <1>1, <1>2, <1>3, <1>4, <1>5 DEF Next

(* Seen from outside, the store is a register: whatever fails and stops,   *)
(* transactions take place one at a time, wholly or not at all.            *)
THEOREM RegisterImplemented == Spec => Atomic
<1>1. Init => Register!Init
  <2> SUFFICES ASSUME Init PROVE Register!Init
    OBVIOUS
  <2>1. DOMAIN journals = {} /\ pointer = None
    BY DEF Init
  <2>2. Unresolved = {}
    BY <2>1 DEF Unresolved
  <2>3. Served = None /\ Tried = None
    BY <2>1, <2>2 DEF Served, Tried
  <2>4. Replaced = <<>>
    BY <2>1 DEF Replaced
  <2> QED BY <2>3, <2>4 DEF Register!Init, Register!None, None
<1>2. IInv /\ IInv' /\ Decided /\ [Next]_vars => [Register!Next]_(Register!vars)
  BY RegisterSimulated DEF RegisterStep
<1> QED BY <1>1, <1>2, DecidedHolds, PTL DEF Spec, Atomic, Register!Spec

-----------------------------------------------------------------------------
(***************************************************************************)
(* What the journals say of the disk.  Generations, receipts and the       *)
(* context root are never taken away, so what a commit relies on stays;    *)
(* what does come and go (the staging directory, the prepared root and the *)
(* pending pointer) is accounted for by the newest journal, as far as that *)
(* had been written when a call died or failed.                            *)
(***************************************************************************)
\* The steps of an apply once its generation is in its place, and those once
\* its receipt is written.
ReceivedSteps == {"recordReceipt", "recordProposal", "check", "point",
                  "recordPointed", "validate", "confirm"}
PublishedSteps == {"recordPublished", "revalidate"} \cup ReceivedSteps
UnpublishedSteps == EarlySteps \cup (ApplySteps \ PublishedSteps)

\* Whoever published a generation says so once it is resolved, and before that
\* at least that it had been staged.
Generations ==
  /\ published = [g \in DOMAIN published |-> published[g]]
  /\ DOMAIN published # {} => context
  /\ \A g \in DOMAIN published :
       LET t == published[g]
       IN  /\ t \in DOMAIN journals /\ GenOf(t) = g
           /\ journals[t].staged /\ journals[t].state # "EMPTY"
           /\ journals[t].state \in Final =>
                journals[t].published /\ journals[t].index >= 1

\* What is or has been active is there, and was not rolled back.
Active(t) == journals[t].state = "COMMITTED" \/ t = pointer
Activations ==
  \A t \in DOMAIN journals :
    /\ journals[t].initial \/ context
    /\ Active(t) => t \in receipts /\ GenOf(t) \in DOMAIN published
    /\ t = pointer =>
         journals[t].state \in {"VALIDATING", "COMMITTED", "ROLLBACK_INCOMPLETE"}

\* What comes and goes belongs to the newest transaction.
Leftovers ==
  /\ staging # "none" \/ prepared # "none" =>
       /\ Newest # 0
       /\ journals[Newest].state \in {"APPLYING", "ROLLBACK_INCOMPLETE"}
  /\ prepared # "none" => ~context
  /\ pending =>
       /\ context /\ Newest # 0
       /\ \/ journals[Newest].state \in {"VALIDATING", "ROLLBACK_INCOMPLETE"}
          \/ journals[Newest].state = "COMMITTED" /\ Newest \in undone

\* What the holder of the lock remembers is at least what it journaled.
Remembering ==
  /\ at \in WorkSteps =>
       /\ mem.initial = journals[me].initial
       /\ journals[me].staged => mem.staged
  /\ at \in UnpublishedSteps => mem.initial = ~context
  /\ at \in EarlySteps \cup {"choose", "copy", "copying"} => ~mem.staged
  /\ at = "recordStaged" => mem.staged
  /\ at \in {"mkContext", "mkGenerations", "recordContext", "fill",
             "promoteContext", "promote"} => journals[me].staged
  /\ at \in {"mkContext", "mkGenerations", "recordContext", "fill",
             "promoteContext"} => mem.initial
  /\ at = "promote" => ~mem.initial
  /\ at \in PublishedSteps \cup {"record"} =>
       \A g \in DOMAIN published : published[g] = me => mem.published /\ mem.index >= 1

\* How far an apply has come when its journal says so.
Advancing ==
  /\ at \in (UnpublishedSteps \cup PublishedSteps)
              \ {"recordPointed", "validate", "confirm"} => pointer = mem.before
  /\ at = "prepare" => journals[me].state = "EMPTY"
  /\ at = "publish" => journals[me].state = "PREPARING"
  /\ at = "choose" => journals[me].state = "PREPARED"
  /\ at \in UnpublishedSteps \ (EarlySteps \cup {"choose"}) =>
       journals[me].state = "APPLYING"
  /\ at \in {"recordProposal", "check", "point", "recordPointed", "validate"}
       => journals[me].state = "VALIDATING"
  /\ at = "confirm" => journals[me].state = "COMMITTED"
  /\ at \in PublishedSteps => MyGen \in DOMAIN published
  /\ at = "promoteContext" => staging = "none"
  /\ at \in PublishedSteps => staging = "none" /\ prepared = "none"
  /\ at \in ReceivedSteps => me \in receipts
  /\ at \in UnpublishedSteps \cup (PublishedSteps \ {"point"}) => ~pending

\* How far an undoing has come.
Undoing ==
  /\ at \in UndoSteps /\ journals[me].state \in Final =>
       journals[me].state = "COMMITTED" /\ me \in undone
  /\ at \in UndoSteps \ {"restore", "replace", "clean"} => ~pending
  /\ at = "emptying" => prepared = "torn"
  /\ at \in {"unstage", "record"} => prepared = "none"
  /\ at = "record" => staging = "none"

OnDisk == Generations /\ Activations /\ Leftovers
InCall == Remembering /\ Advancing /\ Undoing
Stored == OnDisk /\ InCall

\* Every step of a call but the first and the last is at one of these.
LEMMA StepSets ==
  /\ WorkSteps = (UnpublishedSteps \ {"mkdir"}) \cup PublishedSteps \cup UndoSteps
  /\ PublishedSteps \subseteq ApplySteps
  /\ {"idle", "normalise", "next"} \cap (WorkSteps \cup UnpublishedSteps) = {}
BY DEF WorkSteps, UnpublishedSteps, PublishedSteps, ReceivedSteps, EarlySteps, ApplySteps,
   UndoSteps

\* What the invariants say of the transaction that is worked on.
LEMMA Here ==
  ASSUME IInv, at \in WorkSteps
  PROVE  /\ mem \in Journals /\ journals \in Seq(Journals) /\ Newest \in Nat
         /\ me = Newest /\ me \in DOMAIN journals /\ me # None /\ me \in Transactions
         /\ journals[me] \in Journals /\ Newest # 0
         /\ mem.plan = journals[me].plan /\ GenOf(me) = MyGen
         /\ mem.before = journals[me].before /\ mem.before # me
         /\ pointer \in {me, mem.before}
         /\ mem.before # None =>
              mem.before \in DOMAIN journals /\ journals[mem.before].state = "COMMITTED"
<1>1. /\ me = Newest /\ me \in 1..Newest /\ DOMAIN journals = 1..Newest /\ Newest \in Nat
      /\ Mine /\ TypeOK /\ Follows(me)
  BY Working DEF IInv, Ordered
<1>2. mem \in Journals /\ journals \in Seq(Journals) /\ journals[me] \in Journals
  BY <1>1 DEF TypeOK
<1> QED BY <1>1, <1>2, Standing DEF Mine, Follows, GenOf, MyGen, None

\* A generation that is there stays there, and readers' root with it.
LEMMA GenerationsKept ==
  ASSUME Generations, UNCHANGED <<journals, published>>, context => context'
  PROVE  Generations'
BY DEF Generations, GenOf, Vouches

LEMMA ActivationsKept ==
  ASSUME Activations, UNCHANGED journals, context => context',
         receipts \subseteq receipts', DOMAIN published \subseteq DOMAIN published',
         \/ pointer' \in {pointer, None}
         \/ journals[pointer'].state = "COMMITTED"
         \/ /\ pointer' \in receipts /\ GenOf(pointer') \in DOMAIN published
            /\ journals[pointer'].state = "VALIDATING",
         None \notin DOMAIN journals
  PROVE  Activations'
<1> SUFFICES ASSUME NEW t \in DOMAIN journals
             PROVE  /\ journals[t].initial \/ context'
                    /\ Active(t)' => t \in receipts' /\ GenOf(t) \in DOMAIN published'
                    /\ t = pointer' => journals[t].state
                                   \in {"VALIDATING", "COMMITTED", "ROLLBACK_INCOMPLETE"}
  BY DEF Activations, GenOf
<1> QED BY DEF Activations, Active

\* Nothing on disk is touched, and the call, if any, stands still or is over.
LEMMA RestStored ==
  ASSUME Stored, UNCHANGED <<disk, journals, undone>>,
         \/ UNCHANGED call
         \/ at' \in {"idle", "normalise", "next"}
  PROVE  Stored'
<1>1. OnDisk'
  BY DEF Stored, OnDisk, Generations, Activations, Active, Leftovers, GenOf, Newest, disk
<1>2. InCall'
  <2>1. CASE UNCHANGED call
    BY <2>1
    DEF Stored, InCall, Remembering, Advancing, Undoing, MyGen, GenOf, disk, call
  <2>2. CASE at' \in {"idle", "normalise", "next"}
    BY <2>2 DEF InCall, Remembering, Advancing, Undoing, WorkSteps, UnpublishedSteps,
       PublishedSteps, ReceivedSteps, EarlySteps, ApplySteps, UndoSteps
  <2> QED BY <2>1, <2>2
<1> QED BY <1>1, <1>2 DEF Stored

LEMMA OutsideStored ==
  ASSUME Stored,
         \/ EditSource \/ BuildPlan \/ Confirm \/ Stop \/ UNCHANGED vars
         \/ StartRecovery \/ ListUnresolved \/ EndRecovery
         \/ \E plan \in plans : Precheck(plan) \/ Leave(plan)
  PROVE  Stored'
<1>1. UNCHANGED <<disk, journals, undone>>
  BY DEF EditSource, BuildPlan, Confirm, Stop, vars, StartRecovery, ListUnresolved,
     EndRecovery, Precheck, Leave
<1>2. UNCHANGED call \/ at' \in {"idle", "normalise", "next"}
  BY DEF EditSource, BuildPlan, Confirm, Stop, vars, StartRecovery, ListUnresolved,
     EndRecovery, Precheck, Leave, Release
<1> QED BY <1>1, <1>2, RestStored

\* A call enters on a clean disk, and a recovery goes on where the journal is.
LEMMA EntryStored ==
  ASSUME IInv, Stored, NEW plan \in plans, Enter(plan)
  PROVE  Stored'
<1>1. /\ UNCHANGED <<disk, journals, undone>> /\ at' = "mkdir"
      /\ mem' = NewJournal(plan) /\ Inspectable(None)
  BY DEF Enter, MayApply
<1>2. OnDisk'
  BY <1>1 DEF Stored, OnDisk, Generations, Activations, Active, Leftovers, GenOf, Newest,
     disk
<1>3. ~pending
  BY <1>1 DEF Inspectable, Stored, OnDisk, Leftovers
<1>4. mem'.initial = ~context /\ mem'.before = pointer /\ ~mem'.staged
  BY <1>1 DEF NewJournal
<1>5. InCall'
  BY <1>1, <1>3, <1>4 DEF InCall, Remembering, Advancing, Undoing, WorkSteps,
     UnpublishedSteps, PublishedSteps, ReceivedSteps, EarlySteps, ApplySteps, UndoSteps, disk
<1> QED BY <1>2, <1>5 DEF Stored

LEMMA ResumptionStored ==
  ASSUME IInv, Stored, UndoNext
  PROVE  Stored'
<1>1. PICK t \in todo : me' = t /\ mem' = journals[t]
  BY DEF UndoNext
<1>2. /\ UNCHANGED <<disk, journals, undone>> /\ at = "next" /\ at' = "restore"
  BY DEF UndoNext
<1>3. journals[t].state \notin Final
  BY <1>1, <1>2 DEF IInv, Ordered, Recovering, Unresolved
<1>4. OnDisk'
  BY <1>2 DEF Stored, OnDisk, Generations, Activations, Active, Leftovers, GenOf, Newest,
     disk
<1>5. InCall'
  BY <1>1, <1>2, <1>3 DEF InCall, Remembering, Advancing, Undoing, WorkSteps,
     UnpublishedSteps, PublishedSteps, ReceivedSteps, EarlySteps, ApplySteps, UndoSteps, disk
<1> QED BY <1>4, <1>5 DEF Stored

\* On its way forward a call keeps to the order of its journal.
LEMMA ApplyMoveStored ==
  ASSUME IInv, Decided, Stored,
         ReuseGeneration \/ BeginCopy \/ FinishCopy \/ MakeContext \/
         MakeGenerations \/ FillContext \/ WriteReceipt \/ WritePending \/
         PublishPointer
  PROVE  Stored'
<1>1. /\ OnDisk /\ InCall /\ Generations /\ Activations /\ Leftovers
      /\ Remembering /\ Advancing /\ Undoing /\ None \notin DOMAIN journals
  BY DEF Stored, OnDisk, InCall, IInv, TypeOK, None
<1>2. at \in WorkSteps =>
        /\ mem \in Journals /\ Newest \in Nat /\ me = Newest /\ me \in DOMAIN journals
        /\ me # None /\ Newest # 0 /\ GenOf(me) = MyGen /\ mem.before # me
        /\ pointer \in {me, mem.before}
        /\ mem.before # None => journals[mem.before].state = "COMMITTED"
  BY Here
<1>3. CASE ReuseGeneration
  <2>1. /\ at \in WorkSteps /\ UNCHANGED journals
        /\ staging = "none" /\ prepared = "none"
        /\ \A g \in DOMAIN published : published[g] # me
    BY <1>1, <1>2, <1>3 DEF ReuseGeneration, disk, Leftovers, Generations,
       Advancing, Remembering, EarlySteps, WorkSteps, ApplySteps, UndoSteps
  <2>2. OnDisk'
    BY <1>1, <1>2, <1>3, <2>1, GenerationsKept, ActivationsKept DEF ReuseGeneration,
       disk, OnDisk, Leftovers, Newest
  <2>3. InCall'
    BY <1>1, <1>2, <1>3, <2>1 DEF ReuseGeneration, Goto, Continue, disk, InCall,
       Remembering, Advancing, Undoing, MyGen, Journals, WorkSteps,
       UnpublishedSteps, PublishedSteps, ReceivedSteps, EarlySteps, ApplySteps,
       UndoSteps
  <2> QED BY <2>2, <2>3 DEF Stored
<1>4. CASE BeginCopy
  <2>1. /\ at \in WorkSteps /\ UNCHANGED journals
        /\ journals[me].state = "APPLYING"
    BY <1>1, <1>2, <1>4 DEF BeginCopy, Advancing, UnpublishedSteps, PublishedSteps,
       ReceivedSteps, EarlySteps, WorkSteps, ApplySteps, UndoSteps
  <2>2. OnDisk'
    BY <1>1, <1>2, <1>4, <2>1, GenerationsKept, ActivationsKept DEF BeginCopy, disk,
       OnDisk, Leftovers, Newest
  <2>3. InCall'
    BY <1>1, <1>2, <1>4, <2>1 DEF BeginCopy, Goto, Continue, disk, InCall,
       Remembering, Advancing, Undoing, MyGen, Journals, WorkSteps,
       UnpublishedSteps, PublishedSteps, ReceivedSteps, EarlySteps, ApplySteps,
       UndoSteps
  <2> QED BY <2>2, <2>3 DEF Stored
<1>5. CASE FinishCopy
  <2>1. /\ at \in WorkSteps /\ UNCHANGED journals
        /\ journals[me].state = "APPLYING"
    BY <1>1, <1>2, <1>5 DEF FinishCopy, Advancing, UnpublishedSteps, PublishedSteps,
       ReceivedSteps, EarlySteps, WorkSteps, ApplySteps, UndoSteps
  <2>2. OnDisk'
    BY <1>1, <1>2, <1>5, <2>1, GenerationsKept, ActivationsKept DEF FinishCopy,
       disk, OnDisk, Leftovers, Newest
  <2>3. InCall'
    BY <1>1, <1>2, <1>5, <2>1 DEF FinishCopy, Goto, Continue, disk, InCall,
       Remembering, Advancing, Undoing, MyGen, Journals, WorkSteps,
       UnpublishedSteps, PublishedSteps, ReceivedSteps, EarlySteps, ApplySteps,
       UndoSteps
  <2> QED BY <2>2, <2>3 DEF Stored
<1>6. CASE MakeContext
  <2>1. /\ at \in WorkSteps /\ UNCHANGED journals
        /\ journals[me].state = "APPLYING" /\ ~context
    BY <1>1, <1>2, <1>6 DEF MakeContext, Advancing, Remembering, UnpublishedSteps,
       PublishedSteps, ReceivedSteps, EarlySteps, WorkSteps, ApplySteps, UndoSteps
  <2>2. OnDisk'
    BY <1>1, <1>2, <1>6, <2>1, GenerationsKept, ActivationsKept DEF MakeContext,
       disk, OnDisk, Leftovers, Newest
  <2>3. InCall'
    BY <1>1, <1>2, <1>6, <2>1 DEF MakeContext, Goto, Continue, disk, InCall,
       Remembering, Advancing, Undoing, MyGen, Journals, WorkSteps,
       UnpublishedSteps, PublishedSteps, ReceivedSteps, EarlySteps, ApplySteps,
       UndoSteps
  <2> QED BY <2>2, <2>3 DEF Stored
<1>7. CASE MakeGenerations
  <2>1. /\ at \in WorkSteps /\ UNCHANGED journals
        /\ journals[me].state = "APPLYING" /\ ~context
    BY <1>1, <1>2, <1>7 DEF MakeGenerations, Advancing, Remembering,
       UnpublishedSteps, PublishedSteps, ReceivedSteps, EarlySteps, WorkSteps,
       ApplySteps, UndoSteps
  <2>2. OnDisk'
    BY <1>1, <1>2, <1>7, <2>1, GenerationsKept, ActivationsKept DEF MakeGenerations,
       disk, OnDisk, Leftovers, Newest
  <2>3. InCall'
    BY <1>1, <1>2, <1>7, <2>1 DEF MakeGenerations, Goto, Continue, disk, InCall,
       Remembering, Advancing, Undoing, MyGen, Journals, WorkSteps,
       UnpublishedSteps, PublishedSteps, ReceivedSteps, EarlySteps, ApplySteps,
       UndoSteps
  <2> QED BY <2>2, <2>3 DEF Stored
<1>8. CASE FillContext
  <2>1. /\ at \in WorkSteps /\ UNCHANGED journals
        /\ journals[me].state = "APPLYING" /\ ~context
    BY <1>1, <1>2, <1>8 DEF FillContext, Advancing, Remembering, UnpublishedSteps,
       PublishedSteps, ReceivedSteps, EarlySteps, WorkSteps, ApplySteps, UndoSteps
  <2>2. OnDisk'
    BY <1>1, <1>2, <1>8, <2>1, GenerationsKept, ActivationsKept DEF FillContext,
       disk, OnDisk, Leftovers, Newest
  <2>3. InCall'
    BY <1>1, <1>2, <1>8, <2>1 DEF FillContext, Goto, Continue, disk, InCall,
       Remembering, Advancing, Undoing, MyGen, Journals, WorkSteps,
       UnpublishedSteps, PublishedSteps, ReceivedSteps, EarlySteps, ApplySteps,
       UndoSteps
  <2> QED BY <2>2, <2>3 DEF Stored
<1>9. CASE WriteReceipt
  <2>1. /\ at \in WorkSteps /\ UNCHANGED journals
    BY <1>1, <1>2, <1>9 DEF WriteReceipt, WorkSteps, ApplySteps, UndoSteps
  <2>2. OnDisk'
    BY <1>1, <1>2, <1>9, <2>1, GenerationsKept, ActivationsKept DEF WriteReceipt,
       disk, OnDisk, Leftovers, Newest
  <2>3. InCall'
    BY <1>1, <1>2, <1>9, <2>1 DEF WriteReceipt, Goto, Continue, disk, InCall,
       Remembering, Advancing, Undoing, MyGen, Journals, WorkSteps,
       UnpublishedSteps, PublishedSteps, ReceivedSteps, EarlySteps, ApplySteps,
       UndoSteps
  <2> QED BY <2>2, <2>3 DEF Stored
<1>10. CASE WritePending
  <2>1. /\ at \in WorkSteps /\ UNCHANGED journals
        /\ journals[me].state = "VALIDATING" /\ context
    BY <1>1, <1>2, <1>10 DEF WritePending, Advancing, Generations, PublishedSteps,
       ReceivedSteps, disk, Goto, Continue, WorkSteps, ApplySteps, UndoSteps
  <2>2. OnDisk'
    BY <1>1, <1>2, <1>10, <2>1, GenerationsKept, ActivationsKept DEF WritePending,
       disk, OnDisk, Leftovers, Newest
  <2>3. InCall'
    BY <1>1, <1>2, <1>10, <2>1 DEF WritePending, Goto, Continue, disk, InCall,
       Remembering, Advancing, Undoing, MyGen, Journals, WorkSteps,
       UnpublishedSteps, PublishedSteps, ReceivedSteps, EarlySteps, ApplySteps,
       UndoSteps
  <2> QED BY <2>2, <2>3 DEF Stored
<1>11. CASE PublishPointer
  <2>1. /\ at \in WorkSteps /\ UNCHANGED journals
        /\ journals[me].state = "VALIDATING" /\ me \in receipts
        /\ GenOf(me) \in DOMAIN published
    BY <1>1, <1>2, <1>11 DEF PublishPointer, Advancing, PublishedSteps,
       ReceivedSteps, WorkSteps, ApplySteps, UndoSteps
  <2>2. OnDisk'
    BY <1>1, <1>2, <1>11, <2>1, GenerationsKept, ActivationsKept DEF PublishPointer,
       disk, OnDisk, Leftovers, Newest
  <2>3. InCall'
    BY <1>1, <1>2, <1>11, <2>1 DEF PublishPointer, Goto, Continue, disk, InCall,
       Remembering, Advancing, Undoing, MyGen, Journals, WorkSteps,
       UnpublishedSteps, PublishedSteps, ReceivedSteps, EarlySteps, ApplySteps,
       UndoSteps
  <2> QED BY <2>2, <2>3 DEF Stored
<1> QED BY <1>3, <1>4, <1>5, <1>6, <1>7, <1>8, <1>9, <1>10, <1>11

\* On its way back it leaves alone what it has not journaled.
LEMMA UndoMoveStored ==
  ASSUME IInv, Decided, Stored,
         ApplyRaises \/ KeepPointer \/ RemovePointer \/ RestorePending \/
         RestorePointer \/ RemovePending \/ Reconcile \/ DismantlePrepared \/
         EmptyPrepared \/ RemovePrepared \/ RemoveStaging
  PROVE  Stored'
<1>1. /\ OnDisk /\ InCall /\ Generations /\ Activations /\ Leftovers
      /\ Remembering /\ Advancing /\ Undoing /\ None \notin DOMAIN journals
  BY DEF Stored, OnDisk, InCall, IInv, TypeOK, None
<1>2. at \in WorkSteps =>
        /\ mem \in Journals /\ Newest \in Nat /\ me = Newest /\ me \in DOMAIN journals
        /\ me # None /\ Newest # 0 /\ GenOf(me) = MyGen /\ mem.before # me
        /\ pointer \in {me, mem.before}
        /\ mem.before # None => journals[mem.before].state = "COMMITTED"
  BY Here
<1>3. CASE ApplyRaises
  <2>1. /\ at \in WorkSteps /\ UNCHANGED journals
        /\ pending' => pending
        /\ undone \subseteq undone'
        /\ journals[me].state \in Final =>
             journals[me].state = "COMMITTED" /\ me \in undone'
    <3>1. at \in ApplySteps /\ UNCHANGED journals /\ undone \subseteq undone'
      BY <1>3 DEF ApplyRaises
    <3>2. pending' => pending
      BY <1>3 DEF ApplyRaises
    <3>3. at = "confirm" => me \in undone' /\ journals[me].state = "COMMITTED"
      BY <1>1, <1>3 DEF ApplyRaises, Advancing
    <3>4. at # "confirm" => journals[me].state \notin Final
      BY <3>1 DEF Decided, Deciding
    <3> QED BY <3>1, <3>2, <3>3, <3>4 DEF WorkSteps
  <2>2. OnDisk'
    BY <1>1, <1>2, <1>3, <2>1, GenerationsKept, ActivationsKept DEF ApplyRaises,
       disk, OnDisk, Leftovers, Newest
  <2>3. InCall'
    BY <1>1, <1>2, <1>3, <2>1 DEF ApplyRaises, Goto, Continue, disk, InCall,
       Remembering, Advancing, Undoing, MyGen, Journals, WorkSteps,
       UnpublishedSteps, PublishedSteps, ReceivedSteps, EarlySteps, ApplySteps,
       UndoSteps
  <2> QED BY <2>2, <2>3 DEF Stored
<1>4. CASE KeepPointer
  <2>1. /\ at \in WorkSteps /\ UNCHANGED journals
    BY <1>1, <1>2, <1>4 DEF KeepPointer, WorkSteps, ApplySteps, UndoSteps
  <2>2. OnDisk'
    BY <1>1, <1>2, <1>4, <2>1, GenerationsKept, ActivationsKept DEF KeepPointer,
       disk, OnDisk, Leftovers, Newest
  <2>3. InCall'
    BY <1>1, <1>2, <1>4, <2>1 DEF KeepPointer, Goto, Continue, disk, InCall,
       Remembering, Advancing, Undoing, MyGen, Journals, WorkSteps,
       UnpublishedSteps, PublishedSteps, ReceivedSteps, EarlySteps, ApplySteps,
       UndoSteps
  <2> QED BY <2>2, <2>3 DEF Stored
<1>5. CASE RemovePointer
  <2>1. /\ at \in WorkSteps /\ UNCHANGED journals
    BY <1>1, <1>2, <1>5 DEF RemovePointer, WorkSteps, ApplySteps, UndoSteps
  <2>2. OnDisk'
    BY <1>1, <1>2, <1>5, <2>1, GenerationsKept, ActivationsKept DEF RemovePointer,
       disk, OnDisk, Leftovers, Newest
  <2>3. InCall'
    BY <1>1, <1>2, <1>5, <2>1 DEF RemovePointer, Goto, Continue, disk, InCall,
       Remembering, Advancing, Undoing, MyGen, Journals, WorkSteps,
       UnpublishedSteps, PublishedSteps, ReceivedSteps, EarlySteps, ApplySteps,
       UndoSteps
  <2> QED BY <2>2, <2>3 DEF Stored
<1>6. CASE RestorePending
  <2>1. /\ at \in WorkSteps /\ UNCHANGED journals
        /\ context
        /\ \/ journals[me].state \in {"VALIDATING", "ROLLBACK_INCOMPLETE"}
           \/ journals[me].state = "COMMITTED" /\ me \in undone
    BY <1>1, <1>2, <1>6 DEF RestorePending, PointerRestored, Activations, Active,
       Generations, Undoing, Final, Leftovers, WorkSteps, ApplySteps, UndoSteps
  <2>2. OnDisk'
    BY <1>1, <1>2, <1>6, <2>1, GenerationsKept, ActivationsKept DEF RestorePending,
       disk, OnDisk, Leftovers, Newest
  <2>3. InCall'
    BY <1>1, <1>2, <1>6, <2>1 DEF RestorePending, Goto, Continue, disk, InCall,
       Remembering, Advancing, Undoing, MyGen, Journals, WorkSteps,
       UnpublishedSteps, PublishedSteps, ReceivedSteps, EarlySteps, ApplySteps,
       UndoSteps
  <2> QED BY <2>2, <2>3 DEF Stored
<1>7. CASE RestorePointer
  <2>1. /\ at \in WorkSteps /\ UNCHANGED journals
    BY <1>1, <1>2, <1>7 DEF RestorePointer, WorkSteps, ApplySteps, UndoSteps
  <2>2. OnDisk'
    BY <1>1, <1>2, <1>7, <2>1, GenerationsKept, ActivationsKept DEF RestorePointer,
       disk, OnDisk, Leftovers, Newest
  <2>3. InCall'
    BY <1>1, <1>2, <1>7, <2>1 DEF RestorePointer, Goto, Continue, disk, InCall,
       Remembering, Advancing, Undoing, MyGen, Journals, WorkSteps,
       UnpublishedSteps, PublishedSteps, ReceivedSteps, EarlySteps, ApplySteps,
       UndoSteps
  <2> QED BY <2>2, <2>3 DEF Stored
<1>8. CASE RemovePending
  <2>1. /\ at \in WorkSteps /\ UNCHANGED journals
    BY <1>1, <1>2, <1>8 DEF RemovePending, WorkSteps, ApplySteps, UndoSteps
  <2>2. OnDisk'
    BY <1>1, <1>2, <1>8, <2>1, GenerationsKept, ActivationsKept DEF RemovePending,
       disk, OnDisk, Leftovers, Newest
  <2>3. InCall'
    BY <1>1, <1>2, <1>8, <2>1 DEF RemovePending, Goto, Continue, disk, InCall,
       Remembering, Advancing, Undoing, MyGen, Journals, WorkSteps,
       UnpublishedSteps, PublishedSteps, ReceivedSteps, EarlySteps, ApplySteps,
       UndoSteps
  <2> QED BY <2>2, <2>3 DEF Stored
<1>9. CASE Reconcile
  <2>1. /\ at \in WorkSteps /\ UNCHANGED journals
        /\ prepared = "none"
    BY <1>1, <1>2, <1>9 DEF Reconcile, NothingToDismantle, ContextKnown,
       Remembering, Leftovers, Activations, WorkSteps, ApplySteps, UndoSteps
  <2>2. OnDisk'
    BY <1>1, <1>2, <1>9, <2>1, GenerationsKept, ActivationsKept DEF Reconcile, disk,
       OnDisk, Leftovers, Newest
  <2>3. InCall'
    BY <1>1, <1>2, <1>9, <2>1 DEF Reconcile, Goto, Continue, disk, InCall,
       Remembering, Advancing, Undoing, MyGen, Journals, WorkSteps,
       UnpublishedSteps, PublishedSteps, ReceivedSteps, EarlySteps, ApplySteps,
       UndoSteps
  <2> QED BY <2>2, <2>3 DEF Stored
<1>10. CASE DismantlePrepared
  <2>1. /\ at \in WorkSteps /\ UNCHANGED journals
    BY <1>1, <1>2, <1>10 DEF DismantlePrepared, WorkSteps, ApplySteps, UndoSteps
  <2>2. OnDisk'
    BY <1>1, <1>2, <1>10, <2>1, GenerationsKept, ActivationsKept DEF
       DismantlePrepared, disk, OnDisk, Leftovers, Newest
  <2>3. InCall'
    BY <1>1, <1>2, <1>10, <2>1 DEF DismantlePrepared, Goto, Continue, disk, InCall,
       Remembering, Advancing, Undoing, MyGen, Journals, WorkSteps,
       UnpublishedSteps, PublishedSteps, ReceivedSteps, EarlySteps, ApplySteps,
       UndoSteps
  <2> QED BY <2>2, <2>3 DEF Stored
<1>11. CASE EmptyPrepared
  <2>1. /\ at \in WorkSteps /\ UNCHANGED journals
        /\ prepared # "none"
    BY <1>1, <1>2, <1>11 DEF EmptyPrepared, Undoing, WorkSteps, ApplySteps,
       UndoSteps
  <2>2. OnDisk'
    BY <1>1, <1>2, <1>11, <2>1, GenerationsKept, ActivationsKept DEF EmptyPrepared,
       disk, OnDisk, Leftovers, Newest
  <2>3. InCall'
    BY <1>1, <1>2, <1>11, <2>1 DEF EmptyPrepared, Goto, Continue, disk, InCall,
       Remembering, Advancing, Undoing, MyGen, Journals, WorkSteps,
       UnpublishedSteps, PublishedSteps, ReceivedSteps, EarlySteps, ApplySteps,
       UndoSteps
  <2> QED BY <2>2, <2>3 DEF Stored
<1>12. CASE RemovePrepared
  <2>1. /\ at \in WorkSteps /\ UNCHANGED journals
    BY <1>1, <1>2, <1>12 DEF RemovePrepared, WorkSteps, ApplySteps, UndoSteps
  <2>2. OnDisk'
    BY <1>1, <1>2, <1>12, <2>1, GenerationsKept, ActivationsKept DEF RemovePrepared,
       disk, OnDisk, Leftovers, Newest
  <2>3. InCall'
    BY <1>1, <1>2, <1>12, <2>1 DEF RemovePrepared, Goto, Continue, disk, InCall,
       Remembering, Advancing, Undoing, MyGen, Journals, WorkSteps,
       UnpublishedSteps, PublishedSteps, ReceivedSteps, EarlySteps, ApplySteps,
       UndoSteps
  <2> QED BY <2>2, <2>3 DEF Stored
<1>13. CASE RemoveStaging
  <2>1. /\ at \in WorkSteps /\ UNCHANGED journals
    BY <1>1, <1>2, <1>13 DEF RemoveStaging, WorkSteps, ApplySteps, UndoSteps
  <2>2. OnDisk'
    BY <1>1, <1>2, <1>13, <2>1, GenerationsKept, ActivationsKept DEF RemoveStaging,
       disk, OnDisk, Leftovers, Newest
  <2>3. InCall'
    BY <1>1, <1>2, <1>13, <2>1 DEF RemoveStaging, Goto, Continue, disk, InCall,
       Remembering, Advancing, Undoing, MyGen, Journals, Reconciled, Generations,
       WorkSteps, UnpublishedSteps, PublishedSteps, ReceivedSteps, EarlySteps,
       ApplySteps, UndoSteps
  <2> QED BY <2>2, <2>3 DEF Stored
<1> QED BY <1>3, <1>4, <1>5, <1>6, <1>7, <1>8, <1>9, <1>10, <1>11, <1>12, <1>13

\* What is published is the newest transaction's, and its journal says staged.
LEMMA PromotionStored ==
  ASSUME IInv, Decided, Stored, PromoteContext \/ Promote
  PROVE  Stored'
<1>1. /\ at \in {"promoteContext", "promote"} /\ at' = "recordPublished"
      /\ UNCHANGED <<pointer, pending, receipts, journals, me, undone>>
      /\ published' = Apart(MyGen, me)
      /\ mem' = [mem EXCEPT !.published = TRUE, !.index = 1]
      /\ context' /\ (staging' = "none" \/ UNCHANGED staging)
  <2>1. CASE PromoteContext
    BY <2>1 DEF PromoteContext, Goto
  <2>2. CASE Promote
    <3>1. at = "promote" /\ UNCHANGED context
      BY <2>2 DEF Promote
    <3>2. context
      BY <3>1 DEF Stored, InCall, Remembering, UnpublishedSteps, PublishedSteps,
         ReceivedSteps, ApplySteps
    <3> QED BY <2>2, <3>1, <3>2 DEF Promote, Goto
  <2> QED BY <2>1, <2>2
<1>2. at \in WorkSteps /\ at \in UnpublishedSteps
  BY <1>1 DEF WorkSteps, UnpublishedSteps, PublishedSteps, ReceivedSteps, ApplySteps
<1>3. /\ mem \in Journals /\ Newest \in Nat /\ me = Newest /\ me \in DOMAIN journals
      /\ GenOf(me) = MyGen /\ pointer = mem.before /\ mem.before # me
  BY <1>1, <1>2, Here DEF Stored, InCall, Advancing
<1>4. /\ journals[me].staged /\ journals[me].state = "APPLYING" /\ ~pending
      /\ mem.initial = journals[me].initial /\ mem.staged
  BY <1>1, <1>2 DEF Stored, InCall, Remembering, Advancing, EarlySteps, ApplySteps
<1>5. staging' = "none" /\ prepared' = "none"
  <2>1. CASE PromoteContext
    <3>1. at = "promoteContext" /\ prepared' = "none" /\ UNCHANGED staging
      BY <2>1 DEF PromoteContext
    <3> QED BY <3>1 DEF Stored, InCall, Advancing
  <2>2. CASE Promote
    <3>1. at = "promote" /\ staging' = "none" /\ UNCHANGED <<prepared, context>>
      BY <2>2 DEF Promote
    <3> QED BY <1>1, <3>1 DEF Stored, OnDisk, Leftovers
  <2> QED BY <2>1, <2>2
<1>6. Generations'
  <2>1. /\ DOMAIN published' = DOMAIN published \cup {MyGen}
        /\ published' = [g \in DOMAIN published' |-> published'[g]]
        /\ published'[MyGen] = me
        /\ \A g \in DOMAIN published \ {MyGen} : published'[g] = published[g]
    BY <1>1 DEF Apart
  <2> QED BY <1>1, <1>3, <1>4, <2>1 DEF Stored, OnDisk, Generations, GenOf, Final
<1>7. Activations' /\ Leftovers'
  <2>1. DOMAIN published \subseteq DOMAIN published'
    BY <1>1 DEF Apart
  <2>2. Activations'
    BY <1>1, <2>1 DEF Stored, OnDisk, Activations, Active, GenOf
  <2> QED BY <1>1, <1>4, <1>5, <2>2 DEF Leftovers
<1>8. InCall'
  <2>1. MyGen \in DOMAIN published' /\ MyGen' = MyGen /\ mem'.before = mem.before
        /\ mem'.initial = mem.initial /\ mem'.staged = mem.staged
        /\ mem'.published /\ mem'.index = 1
    BY <1>1, <1>3 DEF Apart, MyGen, Journals
  <2> QED BY <1>1, <1>3, <1>4, <1>5, <2>1
          DEF InCall, Remembering, Advancing, Undoing, WorkSteps, UnpublishedSteps,
              PublishedSteps, ReceivedSteps, EarlySteps, ApplySteps, UndoSteps
<1> QED BY <1>6, <1>7, <1>8 DEF Stored, OnDisk

\* A journal that is written keeps what it said of the disk.
LEMMA WriteOnDisk ==
  ASSUME IInv, Stored, at \in WorkSteps, NEW s \in States \ {"EMPTY"},
         NEW m \in Journals, m.plan = mem.plan, m.before = mem.before,
         m.initial = mem.initial, mem.staged => m.staged,
         journals' = [journals EXCEPT ![me] = [m EXCEPT !.state = s]],
         UNCHANGED <<disk, undone>>,
         s \in Final => \A g \in DOMAIN published :
                          published[g] = me => m.published /\ m.index >= 1,
         s = "COMMITTED" => me \in receipts /\ MyGen \in DOMAIN published,
         pointer = me => s \in {"VALIDATING", "COMMITTED", "ROLLBACK_INCOMPLETE"},
         staging # "none" \/ prepared # "none" => s \in {"APPLYING", "ROLLBACK_INCOMPLETE"},
         pending => s \in {"VALIDATING", "ROLLBACK_INCOMPLETE"}
  PROVE  /\ OnDisk' /\ journals'[me].state = s
         /\ journals'[me].staged = m.staged /\ journals'[me].initial = m.initial
<1>1. /\ me = Newest /\ me \in DOMAIN journals /\ GenOf(me) = MyGen
      /\ journals \in Seq(Journals) /\ Newest # 0
  BY Here
<1>2. /\ DOMAIN journals' = DOMAIN journals /\ Newest' = Newest
      /\ \A t \in DOMAIN journals : t # me => journals'[t] = journals[t]
      /\ journals'[me] = [m EXCEPT !.state = s]
  <2>1. Newest' = Newest
    BY WriteElsewhere DEF IInv, Ordered
  <2> QED BY <1>1, <2>1
<1>3. /\ journals'[me].state = s /\ journals'[me].plan = journals[me].plan
      /\ journals'[me].staged = m.staged /\ journals'[me].initial = m.initial
      /\ journals'[me].published = m.published /\ journals'[me].index = m.index
  BY <1>2, Here DEF Journals
<1>4. \A t \in DOMAIN journals : GenOf(t)' = GenOf(t)
  BY <1>2, <1>3 DEF GenOf
<1>5. UNCHANGED <<pointer, pending, context, published, staging, prepared, receipts, undone>>
  BY DEF disk
<1>6. /\ mem.initial = journals[me].initial
      /\ journals[me].staged => mem.staged
      /\ Generations /\ Activations /\ Leftovers
  BY DEF Stored, OnDisk, InCall, Remembering
<1>7. Generations'
  <2>1. ASSUME NEW g \in DOMAIN published, NEW t \in DOMAIN journals, t = published[g]
        PROVE  /\ GenOf(t)' = g /\ journals'[t].staged /\ journals'[t].state # "EMPTY"
               /\ journals'[t].state \in Final =>
                    journals'[t].published /\ journals'[t].index >= 1
    <3>1. CASE t = me
      BY <1>3, <1>4, <1>6, <2>1, <3>1 DEF Generations
    <3>2. CASE t # me
      BY <1>2, <1>4, <1>6, <2>1, <3>2 DEF Generations
    <3> QED BY <3>1, <3>2
  <2> QED BY <1>2, <1>5, <1>6, <2>1 DEF Generations
<1>8. Activations'
  <2>1. ASSUME NEW t \in DOMAIN journals
        PROVE  /\ journals'[t].initial \/ context
               /\ Active(t)' => t \in receipts /\ GenOf(t)' \in DOMAIN published
               /\ t = pointer => journals'[t].state
                                   \in {"VALIDATING", "COMMITTED", "ROLLBACK_INCOMPLETE"}
    <3>1. CASE t = me
      BY <1>1, <1>3, <1>4, <1>5, <1>6, <3>1 DEF Activations, Active
    <3>2. CASE t # me
      BY <1>2, <1>4, <1>5, <1>6, <3>2 DEF Activations, Active
    <3> QED BY <3>1, <3>2
  <2> QED BY <1>2, <1>5, <2>1 DEF Activations
<1>9. Leftovers'
  BY <1>1, <1>2, <1>3, <1>5, <1>6 DEF Leftovers
<1> QED BY <1>3, <1>7, <1>8, <1>9 DEF OnDisk

\* Each journal of an apply says what has been done and not yet what comes next.
LEMMA ApplyWriteStored ==
  ASSUME IInv, Decided, Stored,
         PrepareJournal \/ PublishTransaction \/ StartCopy \/ RecordStaged
         \/ RecordContext \/ RecordPublished \/ RecordReceipt
         \/ RecordProposal \/ RecordPointed
  PROVE  Stored'
<1> DEFINE Writes(s) == journals' = [journals EXCEPT ![me] = [mem EXCEPT !.state = s]]
<1>1. /\ OnDisk /\ InCall /\ Generations /\ Activations /\ Leftovers
      /\ Remembering /\ Advancing /\ Undoing
  BY DEF Stored, OnDisk, InCall
<1>2. /\ at \in WorkSteps \ {"confirm"} /\ at \notin UndoSteps
      /\ UNCHANGED <<disk, undone, me>>
  BY DEF PrepareJournal, PublishTransaction, StartCopy, RecordStaged, RecordContext,
     RecordPublished, RecordReceipt, RecordProposal, RecordPointed, Continue, Goto,
     WorkSteps, EarlySteps, ApplySteps, UndoSteps
<1>3. /\ mem \in Journals /\ me = Newest /\ me \in DOMAIN journals /\ mem.before # me
      /\ me # None
  BY <1>2, Here
<1>4. ASSUME NEW s \in {"PREPARING", "PREPARED", "APPLYING"}, Writes(s),
             at \notin {"recordProposal", "check", "point", "recordPointed", "validate",
                        "confirm"},
             staging # "none" \/ prepared # "none" => s = "APPLYING"
      PROVE  /\ OnDisk' /\ journals'[me].state = s
             /\ journals'[me].staged = mem.staged /\ journals'[me].initial = mem.initial
  <2>1. pointer = mem.before /\ ~pending
    BY <1>1, <1>2, <1>4 DEF Advancing, WorkSteps, UnpublishedSteps, PublishedSteps,
       ReceivedSteps, EarlySteps, ApplySteps
  <2> QED BY <1>2, <1>3, <1>4, <2>1, WriteOnDisk DEF States, Final
<1>5. ASSUME Writes("VALIDATING"),
             at \in {"recordReceipt", "recordProposal", "recordPointed"}
      PROVE  /\ OnDisk' /\ journals'[me].state = "VALIDATING"
             /\ journals'[me].staged = mem.staged /\ journals'[me].initial = mem.initial
  <2>1. ~pending /\ staging = "none" /\ prepared = "none"
    BY <1>1, <1>5 DEF Advancing, PublishedSteps, ReceivedSteps
  <2> QED BY <1>2, <1>3, <1>5, <2>1, WriteOnDisk DEF States, Final
<1>6. CASE PrepareJournal
  <2>1. Writes("PREPARING") /\ at = "prepare" /\ staging = "none" /\ prepared = "none"
    BY <1>1, <1>3, <1>6 DEF PrepareJournal, Write, Advancing, Leftovers
  <2>2. /\ OnDisk' /\ journals'[me].state = "PREPARING"
        /\ journals'[me].staged = mem.staged /\ journals'[me].initial = mem.initial
    BY <1>4, <2>1
  <2>3. InCall'
    BY <1>1, <1>2, <1>3, <1>6, <2>1, <2>2 DEF PrepareJournal, Goto, Continue, disk,
       InCall, Remembering, Advancing, Undoing, MyGen, Journals, WorkSteps,
       UnpublishedSteps, PublishedSteps, ReceivedSteps, EarlySteps, ApplySteps,
       UndoSteps
  <2> QED BY <2>2, <2>3 DEF Stored
<1>7. CASE PublishTransaction
  <2>1. Writes("PREPARED") /\ at = "publish" /\ staging = "none" /\ prepared = "none"
    BY <1>1, <1>3, <1>7 DEF PublishTransaction, Write, Advancing, Leftovers
  <2>2. /\ OnDisk' /\ journals'[me].state = "PREPARED"
        /\ journals'[me].staged = mem.staged /\ journals'[me].initial = mem.initial
    BY <1>4, <2>1
  <2>3. InCall'
    BY <1>1, <1>2, <1>3, <1>7, <2>1, <2>2 DEF PublishTransaction, Goto, Continue,
       disk, InCall, Remembering, Advancing, Undoing, MyGen, Journals, WorkSteps,
       UnpublishedSteps, PublishedSteps, ReceivedSteps, EarlySteps, ApplySteps,
       UndoSteps
  <2> QED BY <2>2, <2>3 DEF Stored
<1>8. CASE StartCopy
  <2>1. Writes("APPLYING") /\ at = "choose"
    BY <1>8 DEF StartCopy, Write
  <2>2. /\ OnDisk' /\ journals'[me].state = "APPLYING"
        /\ journals'[me].staged = mem.staged /\ journals'[me].initial = mem.initial
    BY <1>4, <2>1
  <2>3. InCall'
    BY <1>1, <1>2, <1>3, <1>8, <2>1, <2>2 DEF StartCopy, Goto, Continue, disk,
       InCall, Remembering, Advancing, Undoing, MyGen, Journals, WorkSteps,
       UnpublishedSteps, PublishedSteps, ReceivedSteps, EarlySteps, ApplySteps,
       UndoSteps
  <2> QED BY <2>2, <2>3 DEF Stored
<1>9. CASE RecordStaged
  <2>1. Writes("APPLYING") /\ at = "recordStaged"
    BY <1>9 DEF RecordStaged, Write
  <2>2. /\ OnDisk' /\ journals'[me].state = "APPLYING"
        /\ journals'[me].staged = mem.staged /\ journals'[me].initial = mem.initial
    BY <1>4, <2>1
  <2>3. InCall'
    BY <1>1, <1>2, <1>3, <1>9, <2>1, <2>2 DEF RecordStaged, Goto, Continue, disk,
       InCall, Remembering, Advancing, Undoing, MyGen, Journals, WorkSteps,
       UnpublishedSteps, PublishedSteps, ReceivedSteps, EarlySteps, ApplySteps,
       UndoSteps
  <2> QED BY <2>2, <2>3 DEF Stored
<1>10. CASE RecordContext
  <2>1. Writes("APPLYING") /\ at = "recordContext"
    BY <1>10 DEF RecordContext, Write
  <2>2. /\ OnDisk' /\ journals'[me].state = "APPLYING"
        /\ journals'[me].staged = mem.staged /\ journals'[me].initial = mem.initial
    BY <1>4, <2>1
  <2>3. InCall'
    BY <1>1, <1>2, <1>3, <1>10, <2>1, <2>2 DEF RecordContext, Goto, Continue, disk,
       InCall, Remembering, Advancing, Undoing, MyGen, Journals, WorkSteps,
       UnpublishedSteps, PublishedSteps, ReceivedSteps, EarlySteps, ApplySteps,
       UndoSteps
  <2> QED BY <2>2, <2>3 DEF Stored
<1>11. CASE RecordPublished
  <2>1. Writes("APPLYING") /\ at = "recordPublished"
    BY <1>11 DEF RecordPublished, Write
  <2>2. /\ OnDisk' /\ journals'[me].state = "APPLYING"
        /\ journals'[me].staged = mem.staged /\ journals'[me].initial = mem.initial
    BY <1>4, <2>1
  <2>3. InCall'
    BY <1>1, <1>2, <1>3, <1>11, <2>1, <2>2 DEF RecordPublished, Goto, Continue,
       disk, InCall, Remembering, Advancing, Undoing, MyGen, Journals, WorkSteps,
       UnpublishedSteps, PublishedSteps, ReceivedSteps, EarlySteps, ApplySteps,
       UndoSteps
  <2> QED BY <2>2, <2>3 DEF Stored
<1>12. CASE RecordReceipt
  <2>1. Writes("VALIDATING") /\ at = "recordReceipt"
    BY <1>12 DEF RecordReceipt, Write
  <2>2. /\ OnDisk' /\ journals'[me].state = "VALIDATING"
        /\ journals'[me].staged = mem.staged /\ journals'[me].initial = mem.initial
    BY <1>5, <2>1
  <2>3. InCall'
    BY <1>1, <1>2, <1>3, <1>12, <2>1, <2>2 DEF RecordReceipt, Goto, Continue, disk,
       InCall, Remembering, Advancing, Undoing, MyGen, Journals, WorkSteps,
       UnpublishedSteps, PublishedSteps, ReceivedSteps, EarlySteps, ApplySteps,
       UndoSteps
  <2> QED BY <2>2, <2>3 DEF Stored
<1>13. CASE RecordProposal
  <2>1. Writes("VALIDATING") /\ at = "recordProposal"
    BY <1>13 DEF RecordProposal, Write
  <2>2. /\ OnDisk' /\ journals'[me].state = "VALIDATING"
        /\ journals'[me].staged = mem.staged /\ journals'[me].initial = mem.initial
    BY <1>5, <2>1
  <2>3. InCall'
    BY <1>1, <1>2, <1>3, <1>13, <2>1, <2>2 DEF RecordProposal, Goto, Continue, disk,
       InCall, Remembering, Advancing, Undoing, MyGen, Journals, WorkSteps,
       UnpublishedSteps, PublishedSteps, ReceivedSteps, EarlySteps, ApplySteps,
       UndoSteps
  <2> QED BY <2>2, <2>3 DEF Stored
<1>14. CASE RecordPointed
  <2>1. Writes("VALIDATING") /\ at = "recordPointed"
    BY <1>14 DEF RecordPointed, Write
  <2>2. /\ OnDisk' /\ journals'[me].state = "VALIDATING"
        /\ journals'[me].staged = mem.staged /\ journals'[me].initial = mem.initial
    BY <1>5, <2>1
  <2>3. InCall'
    BY <1>1, <1>2, <1>3, <1>14, <2>1, <2>2 DEF RecordPointed, Goto, Continue, disk,
       InCall, Remembering, Advancing, Undoing, MyGen, Journals, WorkSteps,
       UnpublishedSteps, PublishedSteps, ReceivedSteps, EarlySteps, ApplySteps,
       UndoSteps
  <2> QED BY <2>2, <2>3 DEF Stored
<1> QED BY <1>6, <1>7, <1>8, <1>9, <1>10, <1>11, <1>12, <1>13, <1>14

\* A commit vouches for what it published; it is written once all is in place.
LEMMA CommitStored ==
  ASSUME IInv, Decided, Stored, Commit
  PROVE  Stored'
<1>1. /\ at = "validate" /\ at' = "confirm" /\ UNCHANGED <<disk, undone, me>>
      /\ mem' = [mem EXCEPT !.index = 4]
      /\ journals' = [journals EXCEPT ![me] = [mem' EXCEPT !.state = "COMMITTED"]]
      /\ at \in WorkSteps /\ at \in PublishedSteps
  BY DEF Commit, Goto, WorkSteps, ApplySteps, PublishedSteps, ReceivedSteps
<1>2. /\ mem \in Journals /\ me = Newest /\ me \in DOMAIN journals
  BY <1>1, Here
<1>3. /\ mem' \in Journals /\ mem'.plan = mem.plan /\ mem'.before = mem.before
      /\ mem'.initial = mem.initial /\ mem'.staged = mem.staged
      /\ mem'.published = mem.published /\ mem'.index = 4
  BY <1>1, <1>2, MemTyped DEF IInv, Journals
<1>4. /\ MyGen \in DOMAIN published /\ me \in receipts /\ ~pending
      /\ staging = "none" /\ prepared = "none"
      /\ \A g \in DOMAIN published : published[g] = me => mem.published
      /\ pointer = me
  BY <1>1 DEF Stored, InCall, Remembering, Advancing, PublishedSteps, ReceivedSteps,
     Decided, Deciding
<1>5. /\ OnDisk' /\ journals'[me].state = "COMMITTED"
      /\ journals'[me].staged = mem'.staged /\ journals'[me].initial = mem'.initial
  <2>1. /\ mem.staged => mem'.staged
        /\ \A g \in DOMAIN published : published[g] = me => mem'.published /\ mem'.index >= 1
    BY <1>3, <1>4
  <2>2. "COMMITTED" \in States \ {"EMPTY"}
    BY DEF States
  <2> QED BY <1>1, <1>3, <1>4, <2>1, <2>2, WriteOnDisk
<1>6. InCall'
  BY <1>1, <1>2, <1>3, <1>4, <1>5
  DEF disk, InCall, Remembering, Advancing, Undoing, MyGen, WorkSteps, UnpublishedSteps,
      PublishedSteps, ReceivedSteps, EarlySteps, ApplySteps, UndoSteps
<1> QED BY <1>5, <1>6 DEF Stored

\* A transaction is resolved only with nothing left, and else stays unresolved.
LEMMA UndoEndStored ==
  ASSUME IInv, Decided, Stored, RecordRolledBack \/ UndoRaises
  PROVE  Stored'
<1>1. PICK s \in {"ROLLED_BACK", "ROLLBACK_INCOMPLETE"} :
        /\ journals' = [journals EXCEPT ![me] = [mem EXCEPT !.state = s]]
        /\ s = "ROLLED_BACK" => at = "record"
  BY DEF RecordRolledBack, UndoRaises, Write
<1>2. /\ at \in UndoSteps /\ at \in WorkSteps /\ at' \in {"idle", "next"}
      /\ UNCHANGED <<disk, undone>>
  BY DEF RecordRolledBack, UndoRaises, UndoEnds, Release, WorkSteps, UndoSteps
<1>3. mem \in Journals /\ mem.before # me
  BY <1>2, Here
<1>4. at = "record" => /\ ~pending /\ staging = "none" /\ prepared = "none"
                       /\ pointer = mem.before
                       /\ \A g \in DOMAIN published :
                            published[g] = me => mem.published /\ mem.index >= 1
  BY DEF Stored, InCall, Remembering, Undoing, UndoSteps, Decided, Deciding
<1>5. OnDisk'
  BY <1>1, <1>2, <1>3, <1>4, WriteOnDisk DEF States, Final
<1>6. InCall'
  BY <1>2 DEF InCall, Remembering, Advancing, Undoing, WorkSteps, UnpublishedSteps,
     PublishedSteps, ReceivedSteps, EarlySteps, ApplySteps, UndoSteps
<1> QED BY <1>5, <1>6 DEF Stored

\* A new transaction has left nothing on disk yet but its journal.
LEMMA CreationStored ==
  ASSUME IInv, Decided, Stored, MakeDirectory
  PROVE  Stored'
<1>1. /\ mem \in Journals /\ Newest \in Nat /\ DOMAIN journals = 1..Newest
      /\ journals' = Append(journals, mem) /\ at = "mkdir" /\ at' = "prepare"
      /\ UNCHANGED <<disk, undone, me, mem>>
  BY DEF IInv, TypeOK, Newest, MakeDirectory, Goto, Continue
<1>2. /\ me = Newest + 1 /\ Unresolved = {} /\ mem.state = "EMPTY"
      /\ pointer = None \/ pointer \in 1..Newest
  BY <1>1 DEF IInv, Ordered, Fresh, PointerJournaled
<1>3. /\ Newest' = Newest + 1 /\ DOMAIN journals' = 1..(Newest + 1)
      /\ journals'[me] = mem
      /\ \A t \in 1..Newest : journals'[t] = journals[t]
  BY <1>1, <1>2, AppendProperties DEF IInv, TypeOK, Newest
<1>4. /\ mem.initial = ~context /\ ~mem.staged /\ mem.before = pointer /\ ~pending
      /\ staging = "none" /\ prepared = "none"
  <2>1. staging = "none" /\ prepared = "none"
    <3>1. Newest # 0 => journals[Newest].state \in Final
      BY <1>1, <1>2 DEF Unresolved
    <3> QED BY <3>1 DEF Stored, OnDisk, Leftovers, Final
  <2> QED BY <1>1, <2>1
          DEF Stored, InCall, Remembering, Advancing, UnpublishedSteps, EarlySteps,
              IInv, Ordered, Fresh
<1>5. UNCHANGED <<pointer, pending, context, published, staging, prepared, receipts>>
  BY <1>1 DEF disk
<1>6. Generations' /\ Activations' /\ Leftovers'
  <2>1. /\ \A t \in 1..Newest : GenOf(t)' = GenOf(t)
        /\ \A t \in DOMAIN journals' : t \in 1..Newest \/ t = me
    BY <1>1, <1>2, <1>3 DEF GenOf
  <2>2. Generations'
    BY <1>1, <1>3, <1>5, <2>1 DEF Stored, OnDisk, Generations
  <2>3. Activations'
    <3>1. ASSUME NEW t \in 1..Newest
          PROVE  /\ journals'[t].initial \/ context
                 /\ Active(t)' => t \in receipts /\ GenOf(t)' \in DOMAIN published
                 /\ t = pointer => journals'[t].state
                                 \in {"VALIDATING", "COMMITTED", "ROLLBACK_INCOMPLETE"}
      BY <1>1, <1>3, <1>5, <2>1 DEF Stored, OnDisk, Activations, Active
    <3>2. ASSUME NEW t \in DOMAIN journals', t = me
          PROVE  /\ t # pointer /\ ~Active(t)'
                 /\ journals'[t].initial \/ context
      <4>1. t # pointer /\ journals'[t] = mem /\ mem.state = "EMPTY"
        BY <1>1, <1>2, <1>3, <3>2 DEF None
      <4>2. mem.initial \/ context
        BY <1>4
      <4> QED BY <1>5, <4>1, <4>2 DEF Active
    <3> QED BY <1>5, <2>1, <3>1, <3>2 DEF Activations
  <2> QED BY <1>4, <1>5, <2>2, <2>3 DEF Leftovers
<1>7. InCall'
  BY <1>1, <1>3, <1>4, <1>2, <1>5
  DEF InCall, Remembering, Advancing, Undoing, WorkSteps, UnpublishedSteps,
      PublishedSteps, ReceivedSteps, EarlySteps, ApplySteps, UndoSteps
<1> QED BY <1>6, <1>7 DEF Stored, OnDisk

\* A preparation that a recovery discards or adopts has left nothing either.
LEMMA NormalisingStored ==
  ASSUME IInv, Stored, DiscardPreparation \/ \E t \in DOMAIN journals : AdoptPreparation(t)
  PROVE  Stored'
<1>1. /\ journals \in Seq(Journals) /\ Newest \in Nat /\ DOMAIN journals = 1..Newest
      /\ at = "normalise" /\ UNCHANGED <<disk, undone, at>>
  BY DEF IInv, TypeOK, Newest, DiscardPreparation, AdoptPreparation, call
<1>2. UNCHANGED <<pointer, pending, context, published, staging, prepared, receipts>>
  BY <1>1 DEF disk
<1>3. InCall'
  BY <1>1 DEF InCall, Remembering, Advancing, Undoing, WorkSteps, UnpublishedSteps,
     PublishedSteps, ReceivedSteps, EarlySteps, ApplySteps, UndoSteps
<1>4. CASE DiscardPreparation
  <2>1. /\ journals' = SubSeq(journals, 1, Newest - 1) /\ Newest # 0
        /\ journals[Newest].state = "EMPTY"
    BY <1>4 DEF DiscardPreparation, Front, Newest
  <2>2. \A t \in 1..(Newest - 1) : journals[t] \in Journals
    BY <1>1
  <2>3. /\ DOMAIN journals' = 1..(Newest - 1) /\ Newest' = Newest - 1
        /\ \A t \in 1..(Newest - 1) : journals'[t] = journals[t]
    BY <1>1, <2>1, <2>2, SubSeqProperties DEF Newest
  <2>4. \A t \in 1..(Newest - 1) : GenOf(t)' = GenOf(t)
    BY <2>3 DEF GenOf
  <2>5. Generations'
    BY <1>1, <1>2, <2>1, <2>3, <2>4 DEF Stored, OnDisk, Generations
  <2>6. Activations'
    BY <1>1, <1>2, <2>3, <2>4 DEF Stored, OnDisk, Activations, Active
  <2>7. Leftovers'
    BY <1>2, <2>1 DEF Stored, OnDisk, Leftovers
  <2> QED BY <1>3, <2>5, <2>6, <2>7 DEF Stored, OnDisk
<1>5. ASSUME NEW u \in DOMAIN journals, AdoptPreparation(u)
      PROVE  Stored'
  <2>1. journals[u] \in Journals
    BY <1>1
  <2>2. /\ journals' = [journals EXCEPT ![u] = [journals[u] EXCEPT !.state = "PREPARED"]]
        /\ journals[u].state = "PREPARING"
    BY <1>5 DEF AdoptPreparation
  <2>3. [journals[u] EXCEPT !.state = "PREPARED"] \in Journals
    BY <2>1 DEF Journals, States
  <2>4. Newest' = Newest /\ DOMAIN journals' = DOMAIN journals
    BY <1>1, <2>2, <2>3, ExceptSeq DEF Newest
  <2>5. /\ journals'[u].state = "PREPARED" /\ journals'[u].plan = journals[u].plan
        /\ journals'[u].initial = journals[u].initial
        /\ journals'[u].staged = journals[u].staged
        /\ \A t \in DOMAIN journals : t # u => journals'[t] = journals[t]
    BY <1>1, <2>1, <2>2 DEF Journals
  <2>6. \A t \in DOMAIN journals : GenOf(t)' = GenOf(t)
    BY <2>5 DEF GenOf
  <2>7. Generations'
    BY <1>2, <2>4, <2>5, <2>6 DEF Stored, OnDisk, Generations, Final
  <2>8. Activations'
    BY <1>2, <2>2, <2>4, <2>5, <2>6 DEF Stored, OnDisk, Activations, Active
  <2>9. Leftovers'
    <3>1. u = Newest
      BY <2>2 DEF IInv, Ordered, OneUnresolved, Unresolved, Final
    <3> QED BY <1>2, <2>2, <2>4, <3>1 DEF Stored, OnDisk, Leftovers
  <2> QED BY <1>3, <2>7, <2>8, <2>9 DEF Stored, OnDisk
<1> QED BY <1>4, <1>5

LEMMA StoredInit == Init => Stored
<1> SUFFICES ASSUME Init PROVE Stored
  OBVIOUS
<1>1. /\ at = "idle" /\ DOMAIN journals = {} /\ DOMAIN published = {}
      /\ staging = "none" /\ prepared = "none" /\ pending = FALSE
  BY DEF Init
<1>2. published = [g \in DOMAIN published |-> published[g]]
  BY DEF Init
<1> QED BY <1>1, <1>2 DEF Stored, OnDisk, InCall, Generations, Activations, Leftovers,
           Remembering, Advancing, Undoing, WorkSteps, UnpublishedSteps, PublishedSteps,
           ReceivedSteps, EarlySteps, ApplySteps, UndoSteps

LEMMA StoredStep == IInv /\ Decided /\ Stored /\ [Next]_vars => Stored'
<1> SUFFICES ASSUME IInv, Decided, Stored, [Next]_vars PROVE Stored'
  OBVIOUS
<1>1. CASE ApplyStep
  BY <1>1, ApplyMoveStored, ApplyWriteStored, PromotionStored, CommitStored,
     CreationStored, OutsideStored DEF ApplyStep
<1>2. CASE ApplyRaises \/ UndoStep \/ UndoRaises
  BY <1>2, UndoMoveStored, UndoEndStored DEF UndoStep
<1>3. CASE RecoverStep
  BY <1>3, OutsideStored, NormalisingStored, ResumptionStored DEF RecoverStep
<1>4. CASE \/ EditSource \/ BuildPlan \/ Stop \/ UNCHANGED vars
           \/ \E plan \in plans : Precheck(plan) \/ Leave(plan) \/ Enter(plan)
  BY <1>4, OutsideStored, EntryStored
<1> QED BY <1>1, <1>2, <1>3, <1>4 DEF Next

LEMMA StoredHolds == Spec => [](IInv /\ Decided /\ Stored)
<1>1. Init => IInv /\ Decided /\ Stored
  BY IInvInit, DecidedInit, StoredInit
<1>2. IInv /\ Decided /\ Stored /\ [Next]_vars => (IInv /\ Decided /\ Stored)'
  BY IInvStep, DecidedStep, StoredStep
<1> QED BY <1>1, <1>2, PTL DEF Spec

-----------------------------------------------------------------------------
(* The pointer always names a complete generation with its receipt, under  *)
(* a journal from which it could still be taken back: what was rolled back *)
(* never stays active, wherever the call or its recovery died.             *)
THEOREM PointerSoundHolds == Spec => []PointerSound
<1>1. IInv /\ Decided /\ Stored => PointerSound
  <2> SUFFICES ASSUME IInv, Decided, Stored, pointer # None PROVE PointerSound
    BY DEF PointerSound
  <2>1. pointer \in DOMAIN journals /\ pointer \in Nat /\ Follows(pointer)
    BY DEF IInv, Ordered, PointerJournaled, TypeOK
  <2>2. journals[pointer].proposed /\ journals[pointer].before # pointer
    BY <2>1 DEF Decided, Proposing, Follows
  <2>3. /\ pointer \in receipts /\ GenOf(pointer) \in DOMAIN published
        /\ journals[pointer].state # "ROLLED_BACK"
    BY <2>1 DEF Stored, OnDisk, Activations, Active
  <2> QED BY <2>2, <2>3 DEF PointerSound, Stored, OnDisk, Generations
<1> QED BY <1>1, StoredHolds, PTL

(* No published generation is ever orphaned: its journal vouches for it as *)
(* soon as it is resolved, so that a later plan may use it again.          *)
THEOREM GenerationsVouchedHolds == Spec => []GenerationsVouched
<1>1. Stored => GenerationsVouched
  BY DEF Stored, OnDisk, Generations, GenerationsVouched, Vouches, Unresolved
<1> QED BY <1>1, StoredHolds, PTL

(* With no call and nothing unresolved, nothing half done is left to make  *)
(* later plans be refused, but for a commit that was being taken back.     *)
THEOREM SettledCleanHolds == Spec => []SettledClean
<1>1. IInv /\ Stored => SettledClean
  <2> SUFFICES ASSUME IInv, Stored, Unresolved = {}
               PROVE  /\ staging = "none" /\ prepared = "none"
                      /\ pending => Newest \in undone
    BY DEF SettledClean
  <2>1. DOMAIN journals = 1..Newest /\ Newest \in Nat
    BY DEF IInv, TypeOK, Newest
  <2>2. Newest # 0 => journals[Newest].state \in Final
    BY <2>1 DEF Unresolved
  <2> QED BY <2>2 DEF Stored, OnDisk, Leftovers, Final
<1> QED BY <1>1, StoredHolds, PTL

(* Only a first activation can be wedged: an activation that readers use   *)
(* is never behind a prepared root that recovery cannot take apart.        *)
THEOREM WedgedServesNothingHolds == Spec => []WedgedServesNothing
<1>1. IInv /\ Stored => WedgedServesNothing
  <2> SUFFICES ASSUME IInv, Stored, prepared # "none"
               PROVE  pointer = None /\ ~context /\ published = <<>>
    BY DEF WedgedServesNothing, Wedged
  <2>1. ~context /\ DOMAIN published = {}
    BY DEF Stored, OnDisk, Leftovers, Generations
  <2>2. published = <<>>
    <3>1. published = [g \in {} |-> published[g]]
      BY <2>1 DEF Stored, OnDisk, Generations
    <3> QED BY <3>1
  <2>3. pointer = None
    BY <2>1 DEF Stored, OnDisk, Activations, Active, IInv, Ordered, PointerJournaled
  <2> QED BY <2>1, <2>2, <2>3
<1> QED BY <1>1, StoredHolds, PTL
-----------------------------------------------------------------------------
(***************************************************************************)
(* Why nothing that a call left makes the next check refuse: what is in    *)
(* place under the name of a generation that was staged is what had been   *)
(* staged, and what is in place of a first activation is all there is.     *)
(***************************************************************************)
\* The steps of an apply between its choice to copy and its publication.
CopySteps == {"copy", "copying", "recordStaged", "mkContext", "mkGenerations",
              "recordContext", "fill", "promoteContext", "promote"}

\* The disk bears out what journal j says of transaction t.
Backed(j, t) ==
  LET g == j.plan.gen
  IN  /\ j.published => j.staged /\ g \in DOMAIN published
      /\ j.staged /\ g \in DOMAIN published => published[g] = t
      /\ j.initial => j.before = None
      /\ j.initial /\ context =>
           j.rooted /\ DOMAIN published = {g} /\ published[g] = t

Traceable ==
  /\ \A t \in Unresolved : Backed(journals[t], t)
  /\ at \in WorkSteps \cup {"mkdir"} => Backed(mem, me)
  /\ at \in CopySteps => MyGen \notin DOMAIN published

\* A prepared root is filled only after its identity was journaled.
Rooted ==
  /\ prepared = "filled" => journals[Newest].rooted
  /\ at \in WorkSteps /\ journals[me].rooted => mem.rooted
  /\ at = "recordContext" => mem.rooted
  /\ at \in {"fill", "promoteContext"} => journals[me].rooted

\* What the checks that an apply repeats rely on.
Rechecked ==
  /\ at \in UnpublishedSteps \cup PublishedSteps => mem.plan.base.preparing = FALSE
  /\ at = "recordPublished" => mem.index = 1
  /\ at = "revalidate" =>
       /\ journals[me].published = mem.published /\ journals[me].index >= 1
       /\ journals[me].state = "APPLYING"

Traced == Traceable /\ Rooted /\ Rechecked

\* Only some fields matter, and only generations and the context root.
LEMMA BackedAlike ==
  ASSUME NEW j, NEW k, NEW t, Backed(j, t),
         k.plan = j.plan, k.before = j.before, k.initial = j.initial,
         k.staged = j.staged, k.rooted = j.rooted, k.published = j.published
  PROVE  Backed(k, t)
BY DEF Backed

\* A step of a call that touches no journal, no generation and no context root.
LEMMA MoveTraced ==
  ASSUME IInv, Traced, at \in WorkSteps, at' \in WorkSteps \ {"revalidate"},
         UNCHANGED <<published, context, journals, me>>,
         Backed(mem', me), mem'.plan = mem.plan, mem.rooted => mem'.rooted,
         at' \in CopySteps => at \in CopySteps,
         at' \in UnpublishedSteps \cup PublishedSteps =>
           at \in UnpublishedSteps \cup PublishedSteps,
         prepared' = "filled" => prepared = "filled" \/ at = "fill",
         at' = "recordContext" => mem'.rooted,
         at' = "recordPublished" => mem'.index = 1,
         at' \in {"fill", "promoteContext"} => at = "fill"
  PROVE  Traced'
<1>1. /\ UNCHANGED <<Unresolved, Newest>> /\ me = Newest
  BY Here DEF Unresolved, Newest
<1>2. ASSUME NEW t \in Unresolved PROVE Backed(journals[t], t)'
  <2>1. Backed(journals[t], t)
    BY DEF Traced, Traceable
  <2> QED BY <2>1 DEF Backed
<1>3. Backed(mem, me)'
  BY DEF Backed
<1>4. Traceable'
  <2>1. MyGen' = MyGen
    BY DEF MyGen
  <2>2. at' \in CopySteps => MyGen' \notin DOMAIN published'
    BY <2>1 DEF Traced, Traceable
  <2> QED BY <1>1, <1>2, <1>3, <2>2 DEF Traceable
<1>5. Rooted'
  BY <1>1 DEF Traced, Rooted
<1>6. Rechecked'
  BY DEF Traced, Rechecked
<1> QED BY <1>4, <1>5, <1>6 DEF Traced

\* A step of a call that neither publishes nor writes a journal.
LEMMA MoveStepTraced ==
  ASSUME IInv, Decided, Stored, Traced,
         ReuseGeneration \/ BeginCopy \/ FinishCopy \/ MakeContext
         \/ MakeGenerations \/ FillContext \/ WriteReceipt \/ WritePending
         \/ PublishPointer \/ ApplyRaises \/ KeepPointer \/ RemovePointer
         \/ RestorePending \/ RestorePointer \/ RemovePending \/ Reconcile
         \/ DismantlePrepared \/ EmptyPrepared \/ RemovePrepared \/ RemoveStaging
  PROVE  Traced'
<1> DEFINE Goes == /\ at \in WorkSteps /\ at' \in WorkSteps \ {"revalidate"}
                   /\ UNCHANGED <<published, context, journals, me>>
                   /\ at' \in CopySteps => at \in CopySteps
                   /\ at' \in UnpublishedSteps \cup PublishedSteps =>
                        at \in UnpublishedSteps \cup PublishedSteps
                   /\ prepared' = "filled" => prepared = "filled" \/ at = "fill"
                   /\ at' = "recordContext" => mem'.rooted
                   /\ at' = "recordPublished" => mem'.index = 1
                   /\ at' \in {"fill", "promoteContext"} => at = "fill"
           Keeps == /\ Backed(mem', me) /\ mem'.plan = mem.plan
                    /\ mem.rooted => mem'.rooted
<1>1. mem \in Journals
  BY DEF IInv, TypeOK
<1>2. at \in WorkSteps => Backed(mem, me) /\ Generations
  BY DEF Traced, Traceable, Stored, OnDisk
<1>3. CASE ReuseGeneration \/ BeginCopy \/ FinishCopy \/ MakeContext
           \/ MakeGenerations \/ FillContext
  <2>1. Goes
    BY <1>1, <1>3 DEF ReuseGeneration, BeginCopy, FinishCopy, MakeContext,
       MakeGenerations, FillContext, Goto, Continue, disk, Journals, CopySteps,
       WorkSteps, UnpublishedSteps, PublishedSteps, ReceivedSteps, EarlySteps,
       ApplySteps, UndoSteps
  <2>2. Keeps
    <3>1. CASE ReuseGeneration \/ BeginCopy \/ MakeContext \/ FillContext
      BY <1>1, <1>2, <2>1, <3>1 DEF ReuseGeneration, BeginCopy, MakeContext,
         FillContext, Continue, Journals, Backed
    <3>2. CASE MakeGenerations
      BY <1>1, <1>2, <2>1, <3>2 DEF MakeGenerations, Journals, Backed
    <3>3. CASE FinishCopy
      <4>1. MyGen \notin DOMAIN published
        BY <3>3 DEF FinishCopy, Traced, Traceable, CopySteps
      <4>2. mem' = [mem EXCEPT !.staged = TRUE, !.index = 0]
        BY <3>3 DEF FinishCopy
      <4>3. /\ mem'.plan = mem.plan /\ mem'.before = mem.before
            /\ mem'.initial = mem.initial /\ mem'.rooted = mem.rooted
            /\ mem'.published = mem.published
        BY <1>1, <4>2 DEF Journals
      <4> QED BY <1>2, <2>1, <4>1, <4>3 DEF Backed, MyGen
    <3> QED BY <1>3, <3>1, <3>2, <3>3
  <2> QED BY <2>1, <2>2, MoveTraced
<1>4. CASE WriteReceipt \/ WritePending \/ PublishPointer \/ ApplyRaises
  <2>1. Goes
    BY <1>1, <1>4 DEF WriteReceipt, WritePending, PublishPointer, ApplyRaises, Goto,
       Continue, disk, Journals, CopySteps, WorkSteps, UnpublishedSteps,
       PublishedSteps, ReceivedSteps, EarlySteps, ApplySteps, UndoSteps
  <2>2. Keeps
    BY <1>1, <1>2, <1>4, <2>1 DEF WriteReceipt, WritePending, PublishPointer,
       ApplyRaises, Continue, Journals, Backed
  <2> QED BY <2>1, <2>2, MoveTraced
<1>5. CASE KeepPointer \/ RemovePointer \/ RestorePending \/ RestorePointer
           \/ RemovePending \/ Reconcile \/ DismantlePrepared \/ EmptyPrepared
           \/ RemovePrepared
  <2>1. Goes /\ mem' = mem
    BY <1>5 DEF KeepPointer, RemovePointer, RestorePending, RestorePointer,
       RemovePending, Reconcile, DismantlePrepared, EmptyPrepared, RemovePrepared,
       Goto, Continue, disk, CopySteps, WorkSteps, UnpublishedSteps, PublishedSteps,
       ReceivedSteps, EarlySteps, ApplySteps, UndoSteps
  <2> QED BY <1>2, <2>1, MoveTraced
<1>6. CASE RemoveStaging
  <2>1. Goes /\ at \in UndoSteps /\ mem' = Reconciled
    BY <1>6 DEF RemoveStaging, Goto, disk, CopySteps, WorkSteps, UnpublishedSteps,
       PublishedSteps, ReceivedSteps, EarlySteps, ApplySteps, UndoSteps
  <2>2. mem.initial /\ context => mem.staged /\ MyGen \in DOMAIN published
    <3>1. mem.initial /\ context => MyGen \in DOMAIN published /\ published[MyGen] = me
      BY <1>2, <2>1 DEF Backed, MyGen
    <3>2. journals[me].staged => mem.staged
      BY <2>1 DEF Stored, InCall, Remembering
    <3> QED BY <1>2, <2>1, <3>1, <3>2 DEF Generations
  <2>3. Keeps
    BY <1>1, <1>2, <2>1, <2>2 DEF Reconciled, Journals, Backed, MyGen
  <2> QED BY <2>1, <2>3, MoveTraced
<1> QED BY <1>3, <1>4, <1>5, <1>6

\* What is published is this transaction's, and was not there before.
LEMMA PromotionTraced ==
  ASSUME IInv, Decided, Stored, Traced, PromoteContext \/ Promote
  PROVE  Traced'
<1>1. /\ at \in {"promoteContext", "promote"} /\ at' = "recordPublished"
      /\ UNCHANGED <<journals, me>> /\ published' = Apart(MyGen, me)
      /\ mem' = [mem EXCEPT !.published = TRUE, !.index = 1]
      /\ prepared' # "filled" \/ UNCHANGED prepared
  BY DEF PromoteContext, Promote, Goto
<1>2. /\ at \in WorkSteps /\ at \in CopySteps /\ at \in UnpublishedSteps
  BY <1>1 DEF WorkSteps, CopySteps, UnpublishedSteps, PublishedSteps, ReceivedSteps,
     ApplySteps
<1>3. /\ mem \in Journals /\ me = Newest /\ me \in DOMAIN journals
      /\ mem.plan = journals[me].plan /\ mem.before = journals[me].before
      /\ MyGen = mem.plan.gen
  BY <1>2, Here DEF MyGen
<1>4. /\ mem'.plan = mem.plan /\ mem'.before = mem.before /\ mem'.initial = mem.initial
      /\ mem'.staged = mem.staged /\ mem'.rooted = mem.rooted
      /\ mem'.published /\ mem'.index = 1
  BY <1>1, <1>3 DEF Journals
<1>5. /\ journals[me].staged /\ mem.staged /\ mem.initial = journals[me].initial
      /\ MyGen \notin DOMAIN published
  BY <1>1, <1>2 DEF Stored, InCall, Remembering, Traced, Traceable
<1>6. /\ DOMAIN published' = DOMAIN published \cup {MyGen}
      /\ published'[MyGen] = me
  BY <1>1 DEF Apart
<1>7. mem.initial =>
        /\ mem.before = None /\ DOMAIN published' = {MyGen}
        /\ journals[me].rooted /\ mem.rooted
  <2> SUFFICES ASSUME mem.initial
               PROVE  /\ mem.before = None /\ DOMAIN published' = {MyGen}
                      /\ journals[me].rooted /\ mem.rooted
    OBVIOUS
  <2>1. ~context /\ at = "promoteContext"
    BY <1>1, <1>2 DEF Stored, InCall, Remembering
  <2>2. DOMAIN published = {}
    BY <2>1 DEF Stored, OnDisk, Generations
  <2>3. journals[me].rooted /\ mem.rooted
    BY <1>2, <2>1 DEF Traced, Rooted
  <2>4. mem.before = None
    BY <1>2 DEF Traced, Traceable, Backed
  <2> QED BY <1>6, <2>2, <2>3, <2>4
<1>8. Unresolved' = Unresolved /\ Newest' = Newest
  BY <1>1 DEF Unresolved, Newest
<1>9. Traceable'
  <2>1. Backed(mem, me)'
    BY <1>1, <1>3, <1>4, <1>5, <1>6, <1>7 DEF Backed
  <2>2. ASSUME NEW t \in Unresolved
        PROVE  Backed(journals[t], t)'
    <3>1. t = me /\ Backed(journals[t], t)
      BY <1>3 DEF IInv, Ordered, OneUnresolved, Traced, Traceable
    <3>2. journals'[t] = journals[me] /\ journals[me].plan.gen = MyGen
      BY <1>1, <1>3, <3>1
    <3> QED BY <1>3, <1>5, <1>6, <1>7, <3>1, <3>2 DEF Backed
  <2>3. at' \notin CopySteps
    BY <1>1 DEF CopySteps
  <2> QED BY <1>8, <2>1, <2>2, <2>3 DEF Traceable
<1>10. Rooted'
  BY <1>1, <1>2, <1>4, <1>8 DEF Traced, Rooted
<1>11. Rechecked'
  BY <1>1, <1>2, <1>4 DEF Traced, Rechecked
<1> QED BY <1>9, <1>10, <1>11 DEF Traced

\* A step that writes the journal it has in memory.
LEMMA WriteTraced ==
  ASSUME IInv, Stored, Traced, at \in WorkSteps, NEW s \in States \ {"EMPTY"},
         NEW m \in Journals, m.plan = mem.plan, m.before = mem.before,
         Backed(m, me), journals[me].rooted => m.rooted,
         journals' = [journals EXCEPT ![me] = [m EXCEPT !.state = s]],
         UNCHANGED disk
  PROVE  /\ \A t \in Unresolved' : Backed(journals[t], t)'
         /\ prepared' = "filled" => journals'[Newest'].rooted
         /\ journals'[me].rooted = m.rooted
         /\ journals'[me].published = m.published
         /\ journals'[me].index = m.index /\ journals'[me].state = s
<1>1. /\ me = Newest /\ me \in DOMAIN journals /\ journals \in Seq(Journals)
  BY Here
<1>2. /\ DOMAIN journals' = DOMAIN journals /\ Newest' = Newest
      /\ \A t \in DOMAIN journals : t # me => journals'[t] = journals[t]
      /\ journals'[me] = [m EXCEPT !.state = s]
  <2>1. Newest' = Newest
    BY WriteElsewhere DEF IInv, Ordered
  <2> QED BY <1>1, <2>1
<1>3. /\ journals'[me].state = s /\ journals'[me].plan = m.plan
      /\ journals'[me].before = m.before /\ journals'[me].initial = m.initial
      /\ journals'[me].staged = m.staged /\ journals'[me].rooted = m.rooted
      /\ journals'[me].published = m.published /\ journals'[me].index = m.index
  BY <1>2 DEF Journals
<1>4. UNCHANGED <<published, context, prepared>>
  BY DEF disk
<1>5. ASSUME NEW t \in Unresolved' PROVE Backed(journals[t], t)'
  <2>1. t = me
    BY <1>1, <1>2 DEF IInv, Ordered, OneUnresolved, Unresolved
  <2> QED BY <1>3, <1>4, <2>1 DEF Backed
<1>6. prepared' = "filled" => journals'[Newest'].rooted
  BY <1>1, <1>2, <1>3, <1>4 DEF Traced, Rooted
<1> QED BY <1>3, <1>5, <1>6

\* An apply journals what it remembers.
LEMMA ApplyWriteTraced ==
  ASSUME IInv, Decided, Stored, Traced,
         PrepareJournal \/ PublishTransaction \/ StartCopy \/ RecordStaged
         \/ RecordContext \/ RecordPublished \/ RecordReceipt
         \/ RecordProposal \/ RecordPointed \/ Commit
  PROVE  Traced'
<1> DEFINE Writes(m, s) == journals' = [journals EXCEPT ![me] = [m EXCEPT !.state = s]]
<1>1. /\ at \in (WorkSteps \ UndoSteps) \ {"revalidate"} /\ at' \in WorkSteps
      /\ at \in UnpublishedSteps \cup PublishedSteps
      /\ UNCHANGED <<disk, me>>
  BY DEF PrepareJournal, PublishTransaction, StartCopy, RecordStaged, RecordContext,
     RecordPublished, RecordReceipt, RecordProposal, RecordPointed, Commit, Goto,
     Continue, WorkSteps, UnpublishedSteps, PublishedSteps, ReceivedSteps, EarlySteps,
     ApplySteps, UndoSteps
<1>2. /\ mem \in Journals /\ Backed(mem, me) /\ (journals[me].rooted => mem.rooted)
      /\ UNCHANGED <<published, context, prepared>>
  BY <1>1 DEF IInv, TypeOK, Traced, Traceable, Rooted, disk
<1>3. PICK m \in {mem, mem'}, s \in {"PREPARING", "PREPARED", "APPLYING", "VALIDATING",
                                     "COMMITTED"} :
        /\ Writes(m, s) /\ m \in Journals
        /\ m.plan = mem.plan /\ m.before = mem.before /\ m.initial = mem.initial
        /\ m.staged = mem.staged /\ m.rooted = mem.rooted /\ m.published = mem.published
        /\ RecordPublished => m = mem /\ s = "APPLYING"
        /\ mem'.plan = mem.plan /\ mem'.before = mem.before
        /\ mem'.initial = mem.initial /\ mem'.staged = mem.staged
        /\ mem'.rooted = mem.rooted /\ mem'.published = mem.published
  <2>1. CASE Commit
    <3>1. mem' = [mem EXCEPT !.index = 4] /\ Writes(mem', "COMMITTED")
          /\ ~RecordPublished
      BY <2>1 DEF Commit, RecordPublished
    <3>2. mem' \in Journals
      BY <3>1, MemTyped DEF IInv
    <3> QED BY <1>2, <3>1, <3>2 DEF Journals
  <2>2. CASE RecordReceipt
    <3>1. mem' = [mem EXCEPT !.proposed = TRUE] /\ Writes(mem, "VALIDATING")
          /\ ~RecordPublished
      BY <2>2 DEF RecordReceipt, RecordPublished, Write
    <3> QED BY <1>2, <3>1 DEF Journals
  <2>3. CASE ~Commit /\ ~RecordReceipt
    <3>1. mem' = mem
      BY <2>3 DEF PrepareJournal, PublishTransaction, StartCopy, RecordStaged,
         RecordContext, RecordPublished, RecordProposal, RecordPointed, Continue
    <3>2. CASE RecordPublished
      BY <1>2, <3>1, <3>2 DEF RecordPublished, Write
    <3>3. CASE ~RecordPublished
      <4>1. \E s \in {"PREPARING", "PREPARED", "APPLYING", "VALIDATING"} :
              Writes(mem, s)
        BY <2>3, <3>3 DEF PrepareJournal, PublishTransaction, StartCopy,
           RecordStaged, RecordContext, RecordProposal, RecordPointed, Write
      <4> QED BY <1>2, <3>1, <3>3, <4>1
    <3> QED BY <3>2, <3>3
  <2> QED BY <2>1, <2>2, <2>3
<1>4. Backed(m, me)
  BY <1>2, <1>3, BackedAlike
<1>5. /\ \A t \in Unresolved' : Backed(journals[t], t)'
      /\ prepared' = "filled" => journals'[Newest'].rooted
      /\ journals'[me].rooted = m.rooted /\ journals'[me].published = m.published
      /\ journals'[me].index = m.index /\ journals'[me].state = s
  BY <1>1, <1>2, <1>3, <1>4, WriteTraced DEF States
<1>6. Traceable'
  <2>1. Backed(mem, me)'
    BY <1>1, <1>2, <1>3 DEF Backed
  <2>2. at' \in CopySteps => MyGen' \notin DOMAIN published'
    <3>1. at' \in CopySteps => at \in CopySteps \/ MyGen \notin DOMAIN published
      BY <1>1 DEF PrepareJournal, PublishTransaction, StartCopy, RecordStaged,
         RecordContext, RecordPublished, RecordReceipt, RecordProposal,
         RecordPointed, Commit, Goto, Continue, CopySteps
    <3> QED BY <1>2, <1>3, <3>1 DEF Traced, Traceable, MyGen
  <2> QED BY <1>5, <2>1, <2>2 DEF Traceable
<1>7. Rooted'
  <2>1. at' # "recordContext" /\ at' # "promoteContext"
        /\ (at' = "fill" => at = "recordContext")
    BY DEF PrepareJournal, PublishTransaction, StartCopy, RecordStaged, RecordContext,
       RecordPublished, RecordReceipt, RecordProposal, RecordPointed, Commit, Goto,
       Continue
  <2> QED BY <1>1, <1>2, <1>3, <1>5, <2>1 DEF Traced, Rooted
<1>8. Rechecked'
  <2>1. at' = "revalidate" => RecordPublished
    BY DEF PrepareJournal, PublishTransaction, StartCopy, RecordStaged, RecordContext,
       RecordReceipt, RecordProposal, RecordPointed, Commit, Goto, Continue
  <2>2. RecordPublished => mem.index = 1
    BY DEF RecordPublished, Traced, Rechecked
  <2>3. at' # "recordPublished"
    BY DEF PrepareJournal, PublishTransaction, StartCopy, RecordStaged, RecordContext,
       RecordPublished, RecordReceipt, RecordProposal, RecordPointed, Commit, Goto,
       Continue
  <2> QED BY <1>1, <1>3, <1>5, <2>1, <2>2, <2>3 DEF Traced, Rechecked
<1> QED BY <1>6, <1>7, <1>8 DEF Traced

\* What an undo could not do stays in the journal for the next one.
LEMMA UndoEndTraced ==
  ASSUME IInv, Decided, Stored, Traced, RecordRolledBack \/ UndoRaises
  PROVE  Traced'
<1>1. PICK s \in {"ROLLED_BACK", "ROLLBACK_INCOMPLETE"} :
        journals' = [journals EXCEPT ![me] = [mem EXCEPT !.state = s]]
  BY DEF RecordRolledBack, UndoRaises, Write
<1>2. at \in WorkSteps /\ at' \in {"idle", "next"} /\ UNCHANGED disk
  BY DEF RecordRolledBack, UndoRaises, UndoEnds, Release, WorkSteps, UndoSteps
<1>3. mem \in Journals /\ Backed(mem, me) /\ (journals[me].rooted => mem.rooted)
  BY <1>2 DEF IInv, TypeOK, Traced, Traceable, Rooted
<1>4. /\ \A t \in Unresolved' : Backed(journals[t], t)'
      /\ prepared' = "filled" => journals'[Newest'].rooted
  BY <1>1, <1>2, <1>3, WriteTraced DEF States
<1> QED BY <1>2, <1>4 DEF Traced, Traceable, Rooted, Rechecked, CopySteps, WorkSteps,
           UnpublishedSteps, PublishedSteps, ReceivedSteps, EarlySteps, ApplySteps,
           UndoSteps

\* Nothing that the journals are about is touched.
LEMMA RestTraced ==
  ASSUME Traced, UNCHANGED <<disk, journals>>,
         \/ UNCHANGED call
         \/ at' \in {"idle", "normalise", "next"}
  PROVE  Traced'
<1>1. /\ UNCHANGED <<published, context, prepared, Unresolved, Newest>>
      /\ \A t \in Unresolved : Backed(journals[t], t) <=> Backed(journals[t], t)'
  BY DEF disk, Unresolved, Newest, Backed
<1>2. CASE UNCHANGED call
  <2>1. UNCHANGED <<at, me, mem, MyGen>> /\ (Backed(mem, me) <=> Backed(mem, me)')
    BY <1>1, <1>2 DEF call, MyGen, Backed
  <2> QED BY <1>1, <2>1 DEF Traced, Traceable, Rooted, Rechecked
<1>3. CASE at' \in {"idle", "normalise", "next"}
  BY <1>1, <1>3 DEF Traced, Traceable, Rooted, Rechecked, CopySteps, WorkSteps,
     UnpublishedSteps, PublishedSteps, ReceivedSteps, EarlySteps, ApplySteps, UndoSteps
<1> QED BY <1>2, <1>3

\* A new transaction starts from a store in which nothing is unresolved.
LEMMA EntryTraced ==
  ASSUME IInv, Stored, Traced, NEW plan \in plans, Enter(plan)
  PROVE  Traced'
<1>1. /\ UNCHANGED <<disk, journals>> /\ at' = "mkdir"
      /\ mem' = NewJournal(plan) /\ MayApply(plan) /\ plan \in Plans
  BY DEF Enter, IInv, TypeOK
<1>2. /\ UNCHANGED <<published, context, prepared, pointer, Unresolved, Newest>>
      /\ \A t \in Unresolved : Backed(journals[t], t) <=> Backed(journals[t], t)'
  BY <1>1 DEF disk, Unresolved, Newest, Backed
<1>3. /\ mem'.plan = plan /\ mem'.before = pointer /\ mem'.initial = ~context
      /\ mem'.staged = FALSE /\ mem'.published = FALSE
  BY <1>1 DEF NewJournal
<1>4. pointer # None => context
  BY DEF IInv, Ordered, PointerJournaled, Stored, OnDisk, Activations, Active, Generations
<1>5. Backed(mem, me)'
  BY <1>2, <1>3, <1>4 DEF Backed
<1>6. plan.base.preparing = FALSE
  <2>1. plan.base \in Bases
    BY <1>1 DEF Plans
  <2>2. RefreshBase = [plan.base EXCEPT !.names =
                         IF plan.base.tx = None THEN 0 ELSE @ + 0]
    BY <1>1 DEF MayApply, Reviewed
  <2>3. RefreshBase.preparing = plan.base.preparing
    BY <2>1, <2>2 DEF Bases
  <2>4. Preparing = {}
    BY <1>1 DEF MayApply, Preparing, Unresolved, Final
  <2>5. RefreshBase.preparing = FALSE
    BY <2>4 DEF RefreshBase, NoBase
  <2> QED BY <2>3, <2>5
<1>7. Traceable'
  BY <1>1, <1>2, <1>5 DEF Traced, Traceable, CopySteps
<1>8. Rooted' /\ Rechecked'
  BY <1>1, <1>2, <1>3, <1>6 DEF Traced, Rooted, Rechecked, WorkSteps, EarlySteps,
     ApplySteps, UndoSteps
<1> QED BY <1>7, <1>8 DEF Traced

\* A recovery begins with what the journal on disk says.
LEMMA ResumptionTraced ==
  ASSUME IInv, Traced, UndoNext
  PROVE  Traced'
<1>1. PICK t \in todo : me' = t /\ mem' = journals[t]
  BY DEF UndoNext
<1>2. /\ UNCHANGED <<disk, journals>> /\ at = "next" /\ at' = "restore"
  BY DEF UndoNext
<1>3. /\ UNCHANGED <<published, context, prepared, Unresolved, Newest>>
      /\ \A u \in Unresolved : Backed(journals[u], u) <=> Backed(journals[u], u)'
  BY <1>2 DEF disk, Unresolved, Newest, Backed
<1>4. t \in Unresolved /\ Backed(journals[t], t)
  BY <1>1, <1>2 DEF IInv, Ordered, Recovering, Traced, Traceable
<1>5. Backed(mem, me)'
  BY <1>1, <1>3, <1>4 DEF Backed
<1>6. Traceable'
  BY <1>2, <1>3, <1>5 DEF Traced, Traceable, CopySteps
<1>7. Rooted' /\ Rechecked'
  BY <1>1, <1>2, <1>3 DEF Traced, Rooted, Rechecked, UnpublishedSteps, PublishedSteps,
     ReceivedSteps, EarlySteps, ApplySteps
<1> QED BY <1>6, <1>7 DEF Traced

\* Its first journal claims nothing.
LEMMA CreationTraced ==
  ASSUME IInv, Decided, Stored, Traced, MakeDirectory
  PROVE  Traced'
<1>1. /\ mem \in Journals /\ Newest \in Nat /\ DOMAIN journals = 1..Newest
      /\ journals' = Append(journals, mem) /\ at = "mkdir" /\ at' = "prepare"
      /\ UNCHANGED <<disk, me, mem>>
  BY DEF IInv, TypeOK, Newest, MakeDirectory, Goto, Continue
<1>2. me = Newest + 1 /\ Unresolved = {} /\ Backed(mem, me)
  BY <1>1 DEF IInv, Ordered, Fresh, Traced, Traceable
<1>3. /\ Newest' = Newest + 1 /\ DOMAIN journals' = 1..(Newest + 1)
      /\ journals'[Newest + 1] = mem
      /\ \A t \in 1..Newest : journals'[t] = journals[t]
  BY <1>1, AppendProperties DEF IInv, TypeOK, Newest
<1>4. Unresolved' \subseteq {me}
  BY <1>1, <1>2, <1>3 DEF Unresolved
<1>5. UNCHANGED <<published, context, prepared>>
  BY <1>1 DEF disk
<1>6. prepared = "none"
  <2>1. Newest # 0 => journals[Newest].state \in Final
    BY <1>1, <1>2 DEF Unresolved
  <2> QED BY <2>1 DEF Stored, OnDisk, Leftovers, Final
<1>7. Traceable'
  <2>1. ASSUME NEW t \in Unresolved' PROVE Backed(journals[t], t)'
    <3>1. t = me /\ journals'[t] = mem
      BY <1>2, <1>3, <1>4, <2>1
    <3> QED BY <1>2, <1>5, <3>1 DEF Backed
  <2>2. Backed(mem, me)'
    BY <1>1, <1>2, <1>5 DEF Backed
  <2> QED BY <1>1, <2>1, <2>2 DEF Traceable, CopySteps
<1>8. Rooted'
  BY <1>1, <1>2, <1>3, <1>5, <1>6 DEF Rooted
<1>9. Rechecked'
  BY <1>1 DEF Traced, Rechecked, UnpublishedSteps, EarlySteps
<1> QED BY <1>7, <1>8, <1>9 DEF Traced

\* Recovery sets aside or adopts a journal that claims nothing yet.
LEMMA NormalisingTraced ==
  ASSUME IInv, Stored, Traced,
         DiscardPreparation \/ \E t \in DOMAIN journals : AdoptPreparation(t)
  PROVE  Traced'
<1>1. /\ journals \in Seq(Journals) /\ Newest \in Nat /\ DOMAIN journals = 1..Newest
      /\ at = "normalise" /\ UNCHANGED <<disk, at>>
  BY DEF IInv, TypeOK, Newest, DiscardPreparation, AdoptPreparation, call
<1>2. UNCHANGED <<published, context, prepared>>
  BY <1>1 DEF disk
<1>3. at' \notin WorkSteps \cup UnpublishedSteps \cup PublishedSteps \cup CopySteps
  BY <1>1 DEF CopySteps, WorkSteps, UnpublishedSteps, PublishedSteps, ReceivedSteps,
     EarlySteps, ApplySteps, UndoSteps
<1>4. CASE DiscardPreparation
  <2>1. /\ journals' = SubSeq(journals, 1, Newest - 1) /\ Newest # 0
        /\ journals[Newest].state = "EMPTY"
    BY <1>4 DEF DiscardPreparation, Front, Newest
  <2>2. \A t \in 1..(Newest - 1) : journals[t] \in Journals
    BY <1>1
  <2>3. /\ DOMAIN journals' = 1..(Newest - 1)
        /\ \A t \in 1..(Newest - 1) : journals'[t] = journals[t]
    BY <1>1, <2>1, <2>2, SubSeqProperties
  <2>4. Unresolved' = {}
    BY <1>1, <2>1, <2>3 DEF IInv, Ordered, OneUnresolved, Unresolved
  <2>5. prepared = "none"
    BY <2>1 DEF Stored, OnDisk, Leftovers
  <2> QED BY <1>1, <1>2, <1>3, <2>4, <2>5
          DEF Traced, Traceable, Rooted, Rechecked, WorkSteps, EarlySteps, ApplySteps,
              UndoSteps
<1>5. ASSUME NEW u \in DOMAIN journals, AdoptPreparation(u)
      PROVE  Traced'
  <2>1. journals[u] \in Journals
    BY <1>1
  <2>2. /\ journals' = [journals EXCEPT ![u] = [journals[u] EXCEPT !.state = "PREPARED"]]
        /\ journals[u].state = "PREPARING"
    BY <1>5 DEF AdoptPreparation
  <2>3. /\ DOMAIN journals' = DOMAIN journals
        /\ journals'[u].plan = journals[u].plan
        /\ journals'[u].before = journals[u].before
        /\ journals'[u].initial = journals[u].initial
        /\ journals'[u].staged = journals[u].staged
        /\ journals'[u].rooted = journals[u].rooted
        /\ journals'[u].published = journals[u].published
        /\ \A t \in DOMAIN journals : t # u => journals'[t] = journals[t]
    BY <1>1, <2>1, <2>2 DEF Journals
  <2>4. u \in Unresolved /\ u = Newest
    BY <2>2 DEF IInv, Ordered, OneUnresolved, Unresolved, Final
  <2>5. ASSUME NEW t \in Unresolved' PROVE Backed(journals[t], t)'
    <3>1. t \in Unresolved
      BY <2>3, <2>4 DEF Unresolved
    <3>2. Backed(journals[t], t) /\ t = u
      BY <2>4, <3>1 DEF Traced, Traceable, IInv, Ordered, OneUnresolved
    <3> QED BY <1>2, <2>3, <3>2 DEF Backed
  <2>6. prepared = "none"
    BY <2>2, <2>4 DEF Stored, OnDisk, Leftovers
  <2> QED BY <1>1, <1>2, <1>3, <2>5, <2>6
          DEF Traced, Traceable, Rooted, Rechecked, WorkSteps, EarlySteps, ApplySteps,
              UndoSteps
<1> QED BY <1>4, <1>5

\* Nothing is claimed at first.
LEMMA TracedInit == Init => Traced
<1> SUFFICES ASSUME Init PROVE Traced
  OBVIOUS
<1>1. at = "idle" /\ DOMAIN journals = {} /\ prepared = "none"
  BY DEF Init
<1> QED BY <1>1 DEF Traced, Traceable, Rooted, Rechecked, Unresolved, CopySteps,
           WorkSteps, UnpublishedSteps, PublishedSteps, ReceivedSteps, EarlySteps,
           ApplySteps, UndoSteps

\* Every step keeps it.
LEMMA TracedStep == IInv /\ Decided /\ Stored /\ Traced /\ [Next]_vars => Traced'
<1> SUFFICES ASSUME IInv, Decided, Stored, Traced, [Next]_vars PROVE Traced'
  OBVIOUS
<1>1. CASE ApplyStep \/ ApplyRaises \/ UndoStep \/ UndoRaises
  <2>1. CASE Confirm
    BY <2>1, RestTraced DEF Confirm, Release
  <2> QED BY <1>1, <2>1, MoveStepTraced, ApplyWriteTraced, PromotionTraced,
         CreationTraced, UndoEndTraced DEF ApplyStep, UndoStep
<1>2. CASE RecoverStep
  <2>1. CASE StartRecovery \/ ListUnresolved \/ EndRecovery
    BY <2>1, RestTraced DEF StartRecovery, ListUnresolved, EndRecovery, Release
  <2> QED BY <1>2, <2>1, NormalisingTraced, ResumptionTraced DEF RecoverStep
<1>3. CASE \E plan \in plans : Enter(plan)
  BY <1>3, EntryTraced
<1>4. CASE \/ EditSource \/ BuildPlan \/ Stop \/ UNCHANGED vars
           \/ \E plan \in plans : Precheck(plan) \/ Leave(plan)
  <2>1. UNCHANGED <<disk, journals>>
    BY <1>4 DEF EditSource, BuildPlan, Stop, Precheck, Leave, vars
  <2>2. UNCHANGED call \/ at' \in {"idle", "normalise", "next"}
    BY <1>4 DEF EditSource, BuildPlan, Stop, Precheck, Leave, vars, Release
  <2> QED BY <2>1, <2>2, RestTraced
<1> QED BY <1>1, <1>2, <1>3, <1>4 DEF Next

\* So it always holds.
LEMMA TracedHolds == Spec => [](IInv /\ Decided /\ Stored /\ Traced)
<1>1. Init => IInv /\ Decided /\ Stored /\ Traced
  BY IInvInit, DecidedInit, StoredInit, TracedInit
<1>2. IInv /\ Decided /\ Stored /\ Traced /\ [Next]_vars => (IInv /\ Decided /\ Stored /\ Traced)'
  BY IInvStep, DecidedStep, StoredStep, TracedStep
<1> QED BY <1>1, <1>2, PTL DEF Spec

\* Generations of other transactions are vouched for, whoever asks.
LEMMA OthersVouched ==
  ASSUME IInv, Stored, at \in WorkSteps, NEW g \in DOMAIN published, published[g] # me
  PROVE  /\ published[g] \in DOMAIN journals \ {me}
         /\ journals[published[g]].state \in Final /\ Vouches(published[g], g)
<1>1. published[g] \in DOMAIN journals /\ GenOf(published[g]) = g
  BY DEF Stored, OnDisk, Generations
<1>2. published[g] \notin Unresolved
  BY Standing
<1>3. journals[published[g]].state \in Final
  BY <1>1, <1>2 DEF Unresolved
<1> QED BY <1>1, <1>3 DEF Stored, OnDisk, Generations, Vouches

\* What an apply finds of its own when it inspects the store again.
LEMMA InspectedAgain ==
  ASSUME IInv, Stored, Traced, at = "revalidate"
  PROVE  Inspectable(me)
<1>1. at \in WorkSteps /\ at \in PublishedSteps \ {"point"}
  BY DEF WorkSteps, ApplySteps, PublishedSteps, ReceivedSteps
<1>2. ~pending /\ MyGen \in DOMAIN published
  BY <1>1 DEF Stored, InCall, Advancing
<1>3. SUFFICES ASSUME pointer = None, NEW g \in DOMAIN published
               PROVE  \E t \in DOMAIN journals :
                        /\ Vouches(t, g) /\ published[g] = t
                        /\ \/ journals[t].state \in Final
                           \/ t = me /\ journals[t].state \in {"APPLYING", "VALIDATING"}
  BY <1>2 DEF Inspectable, InactiveContextOwned
<1>4. CASE published[g] = me
  <2>1. mem.published
    BY <1>1, <1>4 DEF Stored, InCall, Remembering
  <2>2. journals[me].published /\ journals[me].index >= 1 /\ journals[me].state = "APPLYING"
    BY <2>1 DEF Traced, Rechecked
  <2>3. me \in DOMAIN journals /\ GenOf(me) = g
    BY <1>4 DEF Stored, OnDisk, Generations
  <2> QED BY <1>4, <2>2, <2>3 DEF Vouches
<1>5. CASE published[g] # me
  BY <1>1, <1>5, OthersVouched
<1> QED BY <1>4, <1>5

\* Reviewed changes nothing of a base but its names.
LEMMA BaseExcept ==
  ASSUME NEW b \in Bases, NEW n
  PROVE  [b EXCEPT !.names = n] = [tx |-> b.tx, names |-> n, preparing |-> b.preparing]
<1>1. b = [tx |-> b.tx, names |-> b.names, preparing |-> b.preparing]
  BY DEF Bases
<1> DEFINE x == b.tx
           y == b.names
           z == b.preparing
<1> HIDE DEF x, y, z
<1>2. b = [tx |-> x, names |-> y, preparing |-> z]
  BY <1>1 DEF x, y, z
<1>3. [b EXCEPT !.names = n] = [tx |-> x, names |-> n, preparing |-> z]
  BY <1>2
<1> QED BY <1>3 DEF x, z

\* The activation that the plan was reviewed against is still the active one.
LEMMA ReviewedAgain ==
  ASSUME IInv, Stored, Traced, at = "check"
  PROVE  Reviewed(mem.plan.base, 1)
<1>1. /\ at \in WorkSteps /\ at \in PublishedSteps
      /\ at \notin {"recordPointed", "validate", "confirm"}
  BY DEF WorkSteps, ApplySteps, PublishedSteps, ReceivedSteps
<1>2. /\ me = Newest /\ me \in DOMAIN journals /\ Newest \in Nat /\ mem \in Journals
      /\ mem.plan = journals[me].plan /\ mem.before = journals[me].before
  BY <1>1, Here
<1>3. Follows(me)
  BY <1>2 DEF IInv, Ordered
<1> DEFINE b == mem.plan.base
<1>4. b \in Bases /\ b.preparing = FALSE
  BY <1>1, <1>2 DEF Traced, Rechecked, Journals, Plans
<1>5. pointer = b.tx
  BY <1>1, <1>2, <1>3 DEF Stored, InCall, Advancing, Follows
<1>6. pointer # None => b.names = Newest - 1
  BY <1>1, <1>2, <1>3, <1>5 DEF Stored, InCall, Advancing, Follows
<1>7. Preparing = {}
  <2>1. Unresolved \in {{}, {me}}
    BY <1>1, Standing
  <2>2. journals[me].state = "VALIDATING"
    BY DEF Stored, InCall, Advancing
  <2>3. Preparing \subseteq Unresolved \ {me}
    BY <2>2 DEF Preparing, Unresolved, Final
  <2> QED BY <2>1, <2>3
<1> HIDE DEF b
<1>8. CASE pointer = None
  <2>1. [b EXCEPT !.names = 0] = NoBase
    BY <1>4, <1>5, <1>8, BaseExcept DEF NoBase
  <2> QED BY <1>5, <1>8, <2>1 DEF Reviewed, RefreshBase, b
<1>9. CASE pointer # None
  <2>1. b.names + 1 = Newest
    BY <1>2, <1>6, <1>9
  <2>2. [b EXCEPT !.names = @ + 1] = [tx |-> pointer, names |-> Newest, preparing |-> FALSE]
    BY <1>4, <1>5, <2>1, BaseExcept
  <2>3. RefreshBase = [tx |-> pointer, names |-> Newest, preparing |-> FALSE]
    BY <1>7, <1>9 DEF RefreshBase
  <2> QED BY <1>5, <1>9, <2>2, <2>3 DEF Reviewed, b
<1> QED BY <1>8, <1>9

\* An apply stands in its own way only when its source was edited.
LEMMA RefusedOnce ==
  ASSUME IInv, Decided, Stored, Traced, Refused
  PROVE  source # MyGen
<1>1. ~(at = "choose" /\ MyGen \in DOMAIN published /\ ~ReuseAuthorized(MyGen))
  <2> SUFFICES ASSUME at = "choose", MyGen \in DOMAIN published PROVE ReuseAuthorized(MyGen)
    OBVIOUS
  <2>1. at \in WorkSteps /\ ~mem.staged
    BY DEF WorkSteps, ApplySteps, Stored, InCall, Remembering
  <2>2. published[MyGen] # me
    BY <2>1 DEF Stored, OnDisk, Generations, InCall, Remembering
  <2> QED BY <2>1, <2>2, OthersVouched DEF ReuseAuthorized
<1>2. ~(at = "promoteContext" /\ context)
  BY DEF Stored, InCall, Remembering, UnpublishedSteps, ApplySteps, PublishedSteps,
         ReceivedSteps
<1>3. ~(at = "promote" /\ (pending \/ MyGen \in DOMAIN published))
  BY DEF Stored, InCall, Advancing, UnpublishedSteps, ApplySteps, PublishedSteps,
         ReceivedSteps, Traced, Traceable, CopySteps
<1> QED BY <1>1, <1>2, <1>3, InspectedAgain, ReviewedAgain DEF Refused

\* What is recorded of a transaction tells how to take back what it published.
LEMMA NothingUnknown ==
  ASSUME IInv, Decided, Stored, Traced, at = "reconcile", ~NothingToDismantle
  PROVE  mem.initial /\ ~context /\ prepared # "none"
<1>1. /\ at \in WorkSteps /\ at \in UndoSteps \ {"restore", "replace", "clean"}
  BY DEF WorkSteps, UndoSteps
<1>2. Backed(mem, me) /\ pointer = mem.before /\ ~pending
  BY <1>1 DEF Traced, Traceable, Decided, Deciding, Stored, InCall, Undoing
<1>3. CASE ~mem.initial
  BY <1>2, <1>3 DEF NothingToDismantle, GenerationKnown, Backed, MyGen
<1>4. CASE mem.initial /\ context
  <2>1. /\ prepared = "none" /\ mem.rooted /\ pointer = None
        /\ DOMAIN published = {MyGen} /\ published[MyGen] = me
    BY <1>2, <1>4 DEF Stored, OnDisk, Leftovers, Backed, MyGen
  <2>2. published = Apart(MyGen, me)
    <3>1. published = [g \in {MyGen} |-> published[g]]
      BY <2>1 DEF Stored, OnDisk, Generations
    <3> QED BY <2>1, <3>1 DEF Apart
  <2>3. Cardinality(DOMAIN published) = 1
    BY <2>1, FS_Singleton
  <2> QED BY <1>2, <1>4, <2>1, <2>2, <2>3 DEF NothingToDismantle, ContextKnown
<1>5. CASE mem.initial /\ ~context
  <2>1. ~mem.published
    BY <1>2, <1>5 DEF Backed, Stored, OnDisk, Generations
  <2> QED BY <1>5, <2>1 DEF NothingToDismantle, ContextKnown
<1> QED BY <1>3, <1>4, <1>5

\* An undo stands in its own way only when the prepared root is wedged.
LEMMA ConflictOnlyWedged ==
  ASSUME IInv, Decided, Stored, Traced, Conflict
  PROVE  Wedged
<1>1. CASE at = "restore" /\ ~PointerRestored
           /\ ~(mem.proposed /\ pointer \in {me, None})
  <2>1. at \in WorkSteps
    BY <1>1 DEF WorkSteps, UndoSteps
  <2>2. pointer \in {me, mem.before}
    BY <2>1, Here
  <2> QED BY <1>1, <2>1, <2>2 DEF PointerRestored, Decided, Proposing
<1>2. CASE at = "reconcile" /\ ~NothingToDismantle
           /\ ~(MayDismantle /\ prepared \in {"filled", "ready"})
  <2>1. at \in WorkSteps
    BY <1>2 DEF WorkSteps, UndoSteps
  <2>2. me = Newest /\ Newest # 0
    BY <2>1, Here
  <2>3. mem.initial /\ ~context /\ prepared # "none"
    BY <1>2, NothingUnknown
  <2>4. prepared \in {"bare", "ready", "filled", "torn"}
    BY <2>3 DEF IInv, TypeOK
  <2>5. prepared \in {"filled", "ready"} => ~mem.rooted
    BY <1>2, <2>3 DEF MayDismantle
  <2>6. journals[me].rooted => mem.rooted
    BY <2>1 DEF Traced, Rooted
  <2> QED BY <2>2, <2>4, <2>5, <2>6 DEF Wedged, Traced, Rooted
<1> QED BY <1>1, <1>2 DEF Conflict

-----------------------------------------------------------------------------
(* No call stands in its own way: an apply refuses nothing but a source    *)
(* that was edited meanwhile, an undo or a recovery nothing that a stopped *)
(* one left but a wedged prepared root, which serves nothing.              *)
THEOREM RefusalsExplainedHolds == Spec => []RefusalsExplained
<1>1. IInv /\ Decided /\ Stored /\ Traced => (Refused => source # MyGen)
  BY RefusedOnce
<1>2. IInv /\ Decided /\ Stored /\ Traced => (Conflict => Wedged)
  BY ConflictOnlyWedged
<1>3. IInv /\ Decided /\ Stored /\ Traced /\ WedgedServesNothing => RefusalsExplained
  BY <1>1, <1>2 DEF RefusalsExplained
<1> QED BY <1>3, TracedHolds, WedgedServesNothingHolds, PTL
===============================================================================
