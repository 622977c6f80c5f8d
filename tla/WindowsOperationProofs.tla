----------------------- MODULE WindowsOperationProofs -----------------------
(***************************************************************************)
(* Theorems about WindowsOperation for every list of publications, either  *)
(* record version and every environment: the journal is never more than    *)
(* one move behind the slots, the terminal markers agree with it, and the  *)
(* operation implements the ordered publication of its steps.              *)
(***************************************************************************)
EXTENDS WindowsOperation, TLAPS

-----------------------------------------------------------------------------
(***************************************************************************)
(* The inductive invariant.  The public targets are the owner's to change; *)
(* everything the operation relies on is said of the two private slots, of *)
(* the journal, and of the control point that relates them.                *)
(***************************************************************************)
PrivateOK == \A i \in Publications : Kind[i] = "create" => backup[i] = "absent"

Prefix(D) == \A s \in D, t \in Steps : Precedes(t, s) => t \in D

JournalOK ==
  /\ Prefix(forward)
  /\ authorized => start = forward
  /\ ~authorized => start = {} /\ reversed = {}
  /\ reversed \subseteq start
  /\ \A s \in reversed, t \in start : Precedes(s, t) => t \in reversed
  /\ HeadCommits /\ authorized => start # Steps
  /\ ~directory => pc = "idle" /\ forward = {} /\ ~authorized /\ DoneSteps = {}

TerminalOK ==
  /\ committed => forward = Steps /\ ~authorized /\ ~rolledBack /\ DoneSteps = Steps
  /\ rolledBack => authorized /\ reversed = start /\ DoneSteps = {}
  /\ pc # "idle" => ~committed /\ ~rolledBack

Forwards == {"plan", "intent", "reconcile", "forward", "restore", "mark",
             "commit", "authorize"}
Backwards == {"reconcileBack", "backward", "restoreBack", "markBack", "rollBack"}

NextDone == \E s \in Steps : IsNext(s, forward) /\ DoneSteps = forward \cup {s}
LastUndone ==
  \E s \in Remaining : IsLast(s, Remaining) /\ DoneSteps = Remaining \ {s}

ControlOK ==
  /\ pc \in Forwards => ~authorized
  /\ pc \in Backwards => authorized
  /\ pc \in {"plan", "intent"} => forward = {} /\ DoneSteps = {}
  /\ pc \in {"forward", "commit", "authorize"} => DoneSteps = forward
  /\ pc \in {"restore", "mark"} => NextDone
  /\ pc \in {"backward", "rollBack"} => DoneSteps = Remaining
  /\ pc \in {"restoreBack", "markBack"} => LastUndone
  /\ pc = "commit" => forward = Steps
  /\ pc = "rollBack" => Remaining = {}
  /\ pc = "authorize" /\ HeadCommits => forward # Steps

Ahead ==
  /\ ~authorized => DoneSteps = forward \/ NextDone
  /\ authorized => DoneSteps = Remaining \/ LastUndone

IInv == TypeOK /\ PrivateOK /\ JournalOK /\ TerminalOK /\ ControlOK /\ Ahead

-----------------------------------------------------------------------------
(***************************************************************************)
(* Steps and their order.                                                  *)
(***************************************************************************)
\* A step is a publication with a rank, and the manifest has a last step.
LEMMA StepParts ==
  /\ \A s \in Steps : /\ s[1] \in Publications /\ s[2] \in 1..2
                      /\ s = <<s[1], s[2]>> /\ s[2] <= LastRank(s[1])
  /\ \A i \in Publications : <<i, LastRank(i)>> \in Steps /\ <<i, 1>> \in Steps
  /\ Steps # {} /\ NoStep \notin Steps
<1>1. \A i \in Publications : LastRank(i) \in 1..2
  BY DEF LastRank
<1>2. \A i \in Publications : <<i, LastRank(i)>> \in Steps /\ <<i, 1>> \in Steps
  BY <1>1 DEF Steps
<1>3. P \in Publications
  BY OperationAssumption DEF Publications
<1>4. NoStep \notin Steps
  BY OperationAssumption DEF NoStep, Steps, Publications
<1>5. \A s \in Steps : /\ s[1] \in Publications /\ s[2] \in 1..2
                       /\ s = <<s[1], s[2]>> /\ s[2] <= LastRank(s[1])
  BY DEF Steps
<1> QED BY <1>2, <1>3, <1>4, <1>5

\* The steps are totally ordered.
LEMMA StepOrder ==
  /\ \A s, t \in Steps : s # t => Precedes(s, t) \/ Precedes(t, s)
  /\ \A s, t \in Steps : Precedes(s, t) => ~Precedes(t, s)
  /\ \A s, t, u \in Steps : Precedes(s, t) /\ Precedes(t, u) => Precedes(s, u)
<1>1. \A s \in Steps : s[1] \in Nat /\ s[2] \in Nat
  BY StepParts, OperationAssumption DEF Publications
<1>2. ASSUME NEW s \in Steps, NEW t \in Steps, s # t
      PROVE  Precedes(s, t) \/ Precedes(t, s)
  <2>1. s[1] # t[1] \/ s[2] # t[2]
    BY <1>2, StepParts
  <2> QED BY <2>1, <1>1 DEF Precedes
<1>3. \A s, t \in Steps : Precedes(s, t) => ~Precedes(t, s)
  BY <1>1 DEF Precedes
<1>4. \A s, t, u \in Steps : Precedes(s, t) /\ Precedes(t, u) => Precedes(s, u)
  BY <1>1 DEF Precedes
<1> QED BY <1>2, <1>3, <1>4

\* There is at most one next step and at most one last step.
LEMMA OneNext ==
  ASSUME NEW D, NEW s, NEW t, IsNext(s, D), IsNext(t, D)
  PROVE  s = t
BY StepOrder DEF IsNext

LEMMA OneLast ==
  ASSUME NEW D \in SUBSET Steps, NEW s, NEW t, IsLast(s, D), IsLast(t, D)
  PROVE  s = t
BY StepOrder DEF IsLast

\* Adding the next step to a prefix gives a prefix.
LEMMA PrefixGrows ==
  ASSUME NEW D \in SUBSET Steps, Prefix(D), NEW s \in Steps, IsNext(s, D)
  PROVE  Prefix(D \cup {s})
BY StepOrder DEF Prefix, IsNext

\* A topology recognised as that of the steps D says that D is in effect.
LEMMA ExactDone ==
  ASSUME NEW D \in SUBSET Steps, \A i \in Publications : ItemExact(i, D)
  PROVE  DoneSteps = D
<1>1. ASSUME NEW s \in Steps PROVE s \in DoneSteps <=> s \in D
  <2>1. s[1] \in Publications /\ s = <<s[1], s[2]>> /\ s[2] \in 1..2
          /\ s[2] <= LastRank(s[1])
    BY StepParts
  <2>2. ItemExact(s[1], D)
    BY <2>1
  <2>3. CASE Installs(s)
    <3>1. s = <<s[1], LastRank(s[1])>>
      BY <2>1, <2>3 DEF Installs
    <3> QED BY <3>1, <2>2, <2>3 DEF ItemExact, StagedAfter, DoneSteps
  <2>4. CASE ~Installs(s)
    <3>1. s = <<s[1], 1>> /\ Kind[s[1]] = "replace"
      BY <2>1, <2>4, OperationAssumption DEF Installs, LastRank
    <3> QED BY <3>1, <2>2, <2>4 DEF ItemExact, BackupAfter, DoneSteps
  <2> QED BY <2>3, <2>4
<1> QED BY <1>1 DEF DoneSteps

\* What is in effect depends on the private slots alone.
LEMMA DoneStable ==
  ASSUME UNCHANGED <<staged, backup>> PROVE DoneSteps' = DoneSteps
BY DEF DoneSteps, Installs, LastRank

\* A move puts into effect exactly the steps it is made for.
LEMMA MoveDone ==
  ASSUME TypeOK, PrivateOK, NEW s \in Steps, NEW E \in SUBSET Steps,
         E = DoneSteps \cup {s} \/ E = DoneSteps \ {s}, Move(s, E)
  PROVE  DoneSteps' = E /\ PrivateOK'
<1> DEFINE i == s[1]
<1>1. i \in Publications
  BY StepParts
<1>2. /\ staged' = [staged EXCEPT ![i] = StagedAfter(i, E)]
      /\ backup' = [backup EXCEPT ![i] = BackupAfter(i, E)]
      /\ staged' \in [Publications -> {"absent", "after"}]
      /\ backup' \in [Publications -> {"absent", "before"}]
  BY <1>1 DEF Move, TypeOK, StagedAfter, BackupAfter
<1>3. ASSUME NEW t \in Steps PROVE t \in DoneSteps' <=> t \in E
  <2>1. /\ t[1] \in Publications /\ t = <<t[1], t[2]>> /\ t[2] \in 1..2
        /\ t[2] <= LastRank(t[1])
    BY StepParts
  <2>2. CASE t[1] # i
    <3>1. staged'[t[1]] = staged[t[1]] /\ backup'[t[1]] = backup[t[1]]
      BY <1>2, <2>1, <2>2 DEF TypeOK
    <3>2. t # s
      BY <2>2
    <3> QED BY <3>1, <3>2 DEF DoneSteps, Installs, LastRank
  <2>3. CASE t[1] = i /\ Installs(t)
    <3>1. t = <<i, LastRank(i)>>
      BY <2>1, <2>3 DEF Installs
    <3>2. staged'[i] = StagedAfter(i, E)
      BY <1>1, <1>2 DEF TypeOK
    <3> QED BY <3>1, <3>2, <2>3 DEF StagedAfter, DoneSteps, Installs, LastRank
  <2>4. CASE t[1] = i /\ ~Installs(t)
    <3>1. t = <<i, 1>> /\ Kind[i] = "replace"
      BY <2>1, <2>4, OperationAssumption DEF Installs, LastRank
    <3>2. backup'[i] = BackupAfter(i, E)
      BY <1>1, <1>2 DEF TypeOK
    <3> QED BY <3>1, <3>2, <2>4 DEF BackupAfter, DoneSteps, Installs, LastRank
  <2> QED BY <2>2, <2>3, <2>4
<1>4. DoneSteps' = E
  BY <1>3 DEF DoneSteps
<1>5. PrivateOK'
  BY <1>1, <1>2 DEF PrivateOK, TypeOK, BackupAfter
<1> QED BY <1>4, <1>5

-----------------------------------------------------------------------------
(***************************************************************************)
(* Each action preserves the invariant.                                    *)
(***************************************************************************)
\* The initial state satisfies the invariant.
LEMMA InitInv == Init => IInv
<1> SUFFICES ASSUME Init PROVE IInv
  OBVIOUS
<1>1. TypeOK
  BY OperationAssumption DEF Init, TypeOK, Original, Publications
<1>2. DoneSteps = {}
  BY StepParts DEF Init, DoneSteps
<1> QED BY <1>1, <1>2 DEF Init, IInv, PrivateOK, JournalOK, Prefix, TerminalOK,
       ControlOK, Ahead, Forwards, Backwards

\* Steps that only move the control point, or only touch public targets and
\* metadata, keep what is said of slots and journal.
LEMMA Frame ==
  ASSUME IInv, UNCHANGED <<staged, backup, journal>>, pc' = pc \/ directory
  PROVE  /\ PrivateOK' /\ JournalOK' /\ Ahead'
         /\ DoneSteps' = DoneSteps /\ Remaining' = Remaining
         /\ NextDone' = NextDone /\ LastUndone' = LastUndone
<1>1. DoneSteps' = DoneSteps
  BY DoneStable
<1>2. Remaining' = Remaining /\ HeadCommits' = HeadCommits
  BY DEF Remaining, journal, HeadCommits
<1>3. \A s \in Steps : \A D : IsNext(s, D)' = IsNext(s, D) /\ IsLast(s, D)' = IsLast(s, D)
  BY DEF IsNext, IsLast
<1>4. NextDone' = NextDone /\ LastUndone' = LastUndone
  BY <1>1, <1>2 DEF NextDone, LastUndone, journal, IsNext, IsLast
<1>5. PrivateOK'
  BY DEF IInv, PrivateOK
<1>6. JournalOK'
  BY <1>1, <1>2 DEF IInv, JournalOK, journal, Prefix
<1>7. Ahead'
  BY <1>1, <1>2, <1>4 DEF IInv, Ahead, journal
<1> QED BY <1>1, <1>2, <1>4, <1>5, <1>6, <1>7

LEMMA CreateOperationInv == ASSUME IInv, CreateOperation PROVE IInv'
<1>1. pc = "idle" /\ ~directory /\ forward = {} /\ ~authorized /\ DoneSteps = {}
  BY DEF CreateOperation, IInv, JournalOK
<1>2. DoneSteps' = DoneSteps
  BY DoneStable DEF CreateOperation, slots
<1>3. Steps # {}
  BY StepParts
<1>4. TypeOK'
  BY DEF CreateOperation, IInv, TypeOK, slots
<1>5. ~committed /\ ~rolledBack
  BY <1>1, <1>3 DEF IInv, TerminalOK
<1>6. PrivateOK' /\ JournalOK' /\ TerminalOK'
  BY <1>1, <1>2, <1>5 DEF CreateOperation, IInv, PrivateOK, JournalOK, TerminalOK,
     slots, Prefix, HeadCommits
<1>7. ControlOK' /\ Ahead'
  BY <1>1, <1>2 DEF CreateOperation, ControlOK, Ahead, Forwards, Backwards, slots
<1> QED BY <1>4, <1>6, <1>7 DEF IInv

LEMMA WritePlanInv == ASSUME IInv, WritePlan PROVE IInv'
<1>1. UNCHANGED <<staged, backup>> /\ DoneSteps' = DoneSteps
  BY DoneStable DEF WritePlan, slots
<1>2. TypeOK'
  BY DEF WritePlan, IInv, TypeOK, slots, Goto
<1>3. PrivateOK' /\ JournalOK' /\ TerminalOK' /\ ControlOK' /\ Ahead'
  BY <1>1 DEF WritePlan, IInv, PrivateOK, JournalOK, TerminalOK, ControlOK, Ahead,
     Forwards, Backwards, slots, Goto, Prefix, HeadCommits
<1> QED BY <1>2, <1>3 DEF IInv

LEMMA WriteIntentInv == ASSUME IInv, WriteIntent PROVE IInv'
<1>1. UNCHANGED <<staged, backup>> /\ DoneSteps' = DoneSteps
  BY DoneStable DEF WriteIntent, slots
<1>2. TypeOK'
  BY DEF WriteIntent, IInv, TypeOK, slots, Goto
<1>3. pc' \in {"authorize", "reconcile"} /\ pc = "intent" /\ directory
  BY DEF WriteIntent, Goto, IInv, JournalOK
<1>4. forward = {} /\ DoneSteps = {} /\ ~authorized /\ Steps # {}
  BY <1>3, StepParts DEF IInv, ControlOK, Forwards
<1>5. PrivateOK' /\ JournalOK' /\ TerminalOK'
  BY <1>1, <1>3 DEF WriteIntent, IInv, PrivateOK, JournalOK, TerminalOK,
     slots, Prefix, HeadCommits
<1>6. ControlOK' /\ Ahead'
  BY <1>1, <1>3, <1>4 DEF WriteIntent, ControlOK, Ahead, Forwards, Backwards, slots
<1> QED BY <1>2, <1>5, <1>6 DEF IInv

LEMMA StartApplyInv == ASSUME IInv, StartApply PROVE IInv'
<1>1. UNCHANGED <<staged, backup, journal, slots>> /\ directory /\ pc = "idle"
  BY DEF StartApply, Answer, slots, Readable
<1>2. /\ PrivateOK' /\ JournalOK' /\ Ahead' /\ DoneSteps' = DoneSteps
  BY <1>1, Frame
<1>3. TypeOK'
  BY DEF StartApply, Answer, IInv, TypeOK, slots, journal
<1>4. pc' = "idle" \/ (pc' = "reconcile" /\ ~committed /\ ~rolledBack /\ ~authorized)
  BY DEF StartApply, Answer
<1>5. TerminalOK' /\ ControlOK'
  BY <1>1, <1>2, <1>4 DEF IInv, TerminalOK, ControlOK, journal, Forwards, Backwards
<1> QED BY <1>2, <1>3, <1>5 DEF IInv

LEMMA StartRecoverInv == ASSUME IInv, StartRecover PROVE IInv'
<1>1. UNCHANGED <<staged, backup, journal, slots>> /\ directory /\ pc = "idle"
  BY DEF StartRecover, Answer, slots, Readable
<1>2. /\ PrivateOK' /\ JournalOK' /\ Ahead' /\ DoneSteps' = DoneSteps
  BY <1>1, Frame
<1>3. TypeOK'
  BY DEF StartRecover, Answer, IInv, TypeOK, slots, journal
<1>4. \/ pc' = "idle"
      \/ pc' = "reconcile" /\ ~committed /\ ~rolledBack /\ ~authorized
      \/ pc' = "reconcileBack" /\ ~committed /\ ~rolledBack /\ authorized
  BY DEF StartRecover, Answer
<1>5. TerminalOK' /\ ControlOK'
  BY <1>1, <1>2, <1>4 DEF IInv, TerminalOK, ControlOK, journal, Forwards, Backwards
<1> QED BY <1>2, <1>3, <1>5 DEF IInv

\* Metadata repairs touch nothing the invariant speaks of.
LEMMA RepairInv == ASSUME IInv, RepairForward \/ RepairBackward PROVE IInv'
<1>1. UNCHANGED <<target, staged, backup, journal, control>> /\ raw' = NoStep
  BY DEF RepairForward, RepairBackward
<1>2. /\ PrivateOK' /\ JournalOK' /\ Ahead' /\ DoneSteps' = DoneSteps
      /\ Remaining' = Remaining /\ NextDone' = NextDone /\ LastUndone' = LastUndone
  BY <1>1, Frame DEF control
<1>3. TypeOK'
  BY <1>1 DEF IInv, TypeOK, journal, control
<1>4. TerminalOK' /\ ControlOK'
  BY <1>1, <1>2 DEF IInv, TerminalOK, ControlOK, journal, control, HeadCommits
<1> QED BY <1>2, <1>3, <1>4 DEF IInv

\* The owner touches public targets only.
LEMMA OwnerInv == ASSUME IInv, Owner PROVE IInv'
<1>1. PICK i \in Publications, c \in {"absent", "stranger"} : OwnerPuts(i, c)
  BY DEF Owner, OwnerWrites, OwnerDeletes
<1>2. UNCHANGED <<staged, backup, journal, control>>
  BY <1>1 DEF OwnerPuts
<1>3. /\ PrivateOK' /\ JournalOK' /\ Ahead' /\ DoneSteps' = DoneSteps
      /\ Remaining' = Remaining /\ NextDone' = NextDone /\ LastUndone' = LastUndone
  BY <1>2, Frame DEF control
<1>4. TypeOK'
  BY <1>1, <1>2 DEF IInv, TypeOK, journal, control, OwnerPuts
<1>5. TerminalOK' /\ ControlOK'
  BY <1>2, <1>3 DEF IInv, TerminalOK, ControlOK, journal, control, HeadCommits
<1> QED BY <1>3, <1>4, <1>5 DEF IInv

\* A call that stops leaves a journal any later call can start from.
LEMMA StopInv == ASSUME IInv, Conflict \/ ProcessStops \/ RecordTorn PROVE IInv'
<1>1. /\ pc' = "idle" /\ UNCHANGED <<slots, mode, quiet>>
      /\ UNCHANGED <<directory, plan, intent, forward, authorized, start, reversed,
                     committed, rolledBack>>
      /\ outcome' \in {"none", "conflict"} /\ torn' \in BOOLEAN
  BY DEF Conflict, ProcessStops, RecordTorn, Stop, journal, IInv, TypeOK
<1>2. DoneSteps' = DoneSteps
  BY <1>1, DoneStable DEF slots
<1>3. Remaining' = Remaining
  BY <1>1 DEF Remaining
<1>4. NextDone' = NextDone /\ LastUndone' = LastUndone
  BY <1>1, <1>2, <1>3 DEF NextDone, LastUndone, IsNext, IsLast
<1>5. TypeOK'
  BY <1>1 DEF IInv, TypeOK, slots
<1>6. PrivateOK' /\ JournalOK' /\ TerminalOK' /\ Ahead'
  BY <1>1, <1>2, <1>3, <1>4 DEF IInv, PrivateOK, JournalOK, TerminalOK, Ahead,
     slots, Prefix, HeadCommits
<1>7. ControlOK'
  BY <1>1 DEF ControlOK, Forwards, Backwards
<1> QED BY <1>5, <1>6, <1>7 DEF IInv

LEMMA QuiesceInv == ASSUME IInv, Quiesce PROVE IInv'
<1>1. UNCHANGED <<slots, staged, backup, journal, pc, mode, outcome>> /\ quiet' = TRUE
  BY DEF Quiesce, slots
<1>2. /\ PrivateOK' /\ JournalOK' /\ Ahead' /\ DoneSteps' = DoneSteps
      /\ Remaining' = Remaining /\ NextDone' = NextDone /\ LastUndone' = LastUndone
  BY <1>1, Frame
<1>3. TypeOK'
  BY <1>1 DEF IInv, TypeOK, slots, journal
<1>4. TerminalOK' /\ ControlOK'
  BY <1>1, <1>2 DEF IInv, TerminalOK, ControlOK, journal, HeadCommits
<1> QED BY <1>2, <1>3, <1>4 DEF IInv

\* A recovery that finds every step of version 3 in effect commits; any other
\* continuation of an unauthorized operation is an apply or an authorization.
LEMMA ForwardFromCases ==
  ASSUME NEW D
  PROVE  /\ ForwardFrom(D) \in {"forward", "commit", "authorize"}
         /\ ForwardFrom(D) = "commit" => D = Steps
         /\ ForwardFrom(D) = "authorize" /\ HeadCommits => D # Steps
BY DEF ForwardFrom

LEMMA ReconcileForwardInv == ASSUME IInv, ReconcileForward PROVE IInv'
<1>1. /\ UNCHANGED <<slots, staged, backup, journal, mode, outcome, quiet>>
      /\ pc = "reconcile" /\ ~authorized /\ directory /\ ~committed /\ ~rolledBack
  BY DEF ReconcileForward, slots, Goto, IInv, ControlOK, JournalOK, TerminalOK, Forwards
<1>2. /\ PrivateOK' /\ JournalOK' /\ Ahead' /\ DoneSteps' = DoneSteps
      /\ Remaining' = Remaining /\ NextDone' = NextDone /\ LastUndone' = LastUndone
  BY <1>1, Frame
<1>3. \/ DoneSteps = forward /\ pc' = ForwardFrom(forward)
      \/ NextDone /\ pc' = "mark"
  <2>1. CASE Exact(forward) /\ Goto(ForwardFrom(forward))
    BY <2>1, ExactDone DEF Exact, Goto, IInv, TypeOK
  <2>2. CASE (\E s \in Steps : IsNext(s, forward) /\ Exact(forward \cup {s}))
               /\ Goto("mark")
    <3>1. PICK s \in Steps : IsNext(s, forward) /\ Exact(forward \cup {s})
      BY <2>2
    <3>2. DoneSteps = forward \cup {s}
      BY <3>1, ExactDone DEF Exact, IInv, TypeOK
    <3> QED BY <2>2, <3>1, <3>2 DEF NextDone, Goto
  <2> QED BY <2>1, <2>2 DEF ReconcileForward
<1>4. pc' \in {"forward", "commit", "authorize", "mark"}
  BY <1>3, ForwardFromCases
<1>5. TypeOK'
  BY <1>1, <1>4 DEF IInv, TypeOK, slots, journal
<1>6. TerminalOK'
  BY <1>1, <1>2 DEF IInv, TerminalOK, journal
<1>7. ControlOK'
  BY <1>1, <1>2, <1>3, <1>4, ForwardFromCases
     DEF IInv, ControlOK, journal, Forwards, Backwards, HeadCommits
<1> QED BY <1>2, <1>5, <1>6, <1>7 DEF IInv

LEMMA ReconcileBackwardInv == ASSUME IInv, ReconcileBackward PROVE IInv'
<1>1. /\ UNCHANGED <<slots, staged, backup, journal, mode, outcome, quiet>>
      /\ pc = "reconcileBack" /\ authorized /\ directory /\ ~committed /\ ~rolledBack
  BY DEF ReconcileBackward, slots, Goto, IInv, ControlOK, JournalOK, TerminalOK, Backwards
<1>2. /\ PrivateOK' /\ JournalOK' /\ Ahead' /\ DoneSteps' = DoneSteps
      /\ Remaining' = Remaining /\ NextDone' = NextDone /\ LastUndone' = LastUndone
  BY <1>1, Frame
<1>3. \/ DoneSteps = Remaining /\ pc' = "backward"
      \/ LastUndone /\ pc' = "markBack"
  <2>0. Remaining \in SUBSET Steps
    BY DEF IInv, TypeOK, Remaining
  <2>1. CASE Exact(Remaining) /\ Goto("backward")
    BY <2>0, <2>1, ExactDone DEF Exact, Goto
  <2>2. CASE (\E s \in Remaining : IsLast(s, Remaining) /\ Exact(Remaining \ {s}))
               /\ Goto("markBack")
    <3>1. PICK s \in Remaining : IsLast(s, Remaining) /\ Exact(Remaining \ {s})
      BY <2>2
    <3>2. DoneSteps = Remaining \ {s}
      BY <2>0, <3>1, ExactDone DEF Exact
    <3> QED BY <2>2, <3>1, <3>2 DEF LastUndone, Goto
  <2> QED BY <2>1, <2>2 DEF ReconcileBackward
<1>4. TypeOK'
  BY <1>1, <1>3 DEF IInv, TypeOK, slots, journal
<1>5. TerminalOK'
  BY <1>1, <1>2 DEF IInv, TerminalOK, journal
<1>6. ControlOK'
  BY <1>1, <1>2, <1>3 DEF IInv, ControlOK, journal, Forwards, Backwards
<1> QED BY <1>2, <1>4, <1>5, <1>6 DEF IInv

\* Whatever a move installs is what the type invariant allows.
LEMMA MoveTyped ==
  ASSUME TypeOK, NEW s \in Steps, NEW E, Move(s, E)
  PROVE  /\ target' \in [Publications -> {"absent", "before", "after", "stranger"}]
         /\ staged' \in [Publications -> {"absent", "after"}]
         /\ backup' \in [Publications -> {"absent", "before"}]
         /\ raw' \in Steps \cup {NoStep}
BY StepParts DEF Move, TypeOK, TargetAfter, StagedAfter, BackupAfter, Original

LEMMA MoveForwardInv == ASSUME IInv, MoveForward PROVE IInv'
<1>1. PICK s \in Steps : IsNext(s, forward) /\ Move(s, forward \cup {s})
  BY DEF MoveForward
<1>2. /\ pc = "forward" /\ pc' = "restore" /\ UNCHANGED <<journal, mode, outcome, quiet>>
      /\ ~authorized /\ ~committed /\ ~rolledBack /\ DoneSteps = forward /\ directory
  BY DEF MoveForward, Goto, IInv, ControlOK, TerminalOK, JournalOK, Forwards
<1>3. DoneSteps' = forward \cup {s} /\ PrivateOK'
  BY <1>1, <1>2, MoveDone DEF IInv, TypeOK
<1>4. TypeOK'
  BY <1>1, <1>2, MoveTyped DEF IInv, TypeOK, journal
<1>5. NextDone'
  BY <1>1, <1>2, <1>3 DEF NextDone, journal, IsNext
<1>6. JournalOK' /\ TerminalOK' /\ ControlOK' /\ Ahead'
  BY <1>2, <1>5 DEF IInv, JournalOK, TerminalOK, ControlOK, Ahead, journal, Forwards,
     Backwards, Prefix, HeadCommits
<1> QED BY <1>3, <1>4, <1>6 DEF IInv

LEMMA MoveBackwardInv == ASSUME IInv, MoveBackward PROVE IInv'
<1>1. PICK s \in Remaining : IsLast(s, Remaining) /\ Move(s, Remaining \ {s})
  BY DEF MoveBackward
<1>2. /\ pc = "backward" /\ pc' = "restoreBack" /\ UNCHANGED <<journal, mode, outcome, quiet>>
      /\ authorized /\ ~committed /\ ~rolledBack /\ DoneSteps = Remaining /\ directory
      /\ Remaining \in SUBSET Steps
  BY DEF MoveBackward, Goto, IInv, ControlOK, TerminalOK, JournalOK, Backwards, Remaining,
     TypeOK
<1>3. DoneSteps' = Remaining \ {s} /\ PrivateOK'
  BY <1>1, <1>2, MoveDone DEF IInv
<1>4. TypeOK'
  BY <1>1, <1>2, MoveTyped DEF IInv, TypeOK, journal
<1>5. Remaining' = Remaining
  BY <1>2 DEF Remaining, journal
<1>6. LastUndone'
  BY <1>1, <1>3, <1>5 DEF LastUndone, IsLast
<1>7. JournalOK' /\ TerminalOK' /\ ControlOK' /\ Ahead'
  BY <1>2, <1>6 DEF IInv, JournalOK, TerminalOK, ControlOK, Ahead, journal, Forwards,
     Backwards, Prefix, HeadCommits
<1> QED BY <1>3, <1>4, <1>7 DEF IInv

LEMMA RestoreInv == ASSUME IInv, RestoreForward \/ RestoreBackward PROVE IInv'
<1>1. /\ UNCHANGED <<target, staged, backup, journal, mode, outcome, quiet>>
      /\ raw' = NoStep
      /\ \/ pc = "restore" /\ pc' = "mark"
         \/ pc = "restoreBack" /\ pc' = "markBack"
  BY DEF RestoreForward, RestoreBackward, Goto
<1>2. directory /\ ~committed /\ ~rolledBack
  BY <1>1 DEF IInv, JournalOK, TerminalOK
<1>3. /\ PrivateOK' /\ JournalOK' /\ Ahead' /\ DoneSteps' = DoneSteps
      /\ Remaining' = Remaining /\ NextDone' = NextDone /\ LastUndone' = LastUndone
  BY <1>1, <1>2, Frame
<1>4. TypeOK'
  BY <1>1 DEF IInv, TypeOK, journal
<1>5. TerminalOK' /\ ControlOK'
  BY <1>1, <1>2, <1>3 DEF IInv, TerminalOK, ControlOK, journal, Forwards, Backwards
<1> QED BY <1>3, <1>4, <1>5 DEF IInv

LEMMA MarkForwardInv == ASSUME IInv, MarkForward PROVE IInv'
<1>1. PICK s \in Steps : /\ IsNext(s, forward) /\ forward' = forward \cup {s}
                         /\ Goto(ForwardFrom(forward \cup {s}))
  BY DEF MarkForward
<1>2. /\ pc = "mark" /\ ~authorized /\ ~committed /\ ~rolledBack /\ directory /\ NextDone
      /\ UNCHANGED <<slots, staged, backup, directory, plan, intent, authorized, start,
                     reversed, committed, rolledBack, torn>>
  BY DEF MarkForward, slots, IInv, ControlOK, TerminalOK, JournalOK, Forwards
<1>3. DoneSteps = forward'
  BY <1>1, <1>2, OneNext DEF NextDone
<1>4. DoneSteps' = forward'
  BY <1>2, <1>3, DoneStable
<1>5. Prefix(forward')
  BY <1>1, PrefixGrows DEF IInv, JournalOK, TypeOK
<1>6. /\ pc' \in {"forward", "commit", "authorize"} /\ (pc' = "commit" => forward' = Steps)
      /\ (pc' = "authorize" /\ HeadCommits => forward' # Steps)
  BY <1>1, ForwardFromCases DEF Goto
<1>7. TypeOK'
  BY <1>1, <1>2, <1>6 DEF IInv, TypeOK, slots, Goto
<1>8. PrivateOK' /\ JournalOK' /\ TerminalOK'
  BY <1>2, <1>5 DEF IInv, PrivateOK, JournalOK, TerminalOK, Prefix, HeadCommits
<1>9. ControlOK' /\ Ahead'
  BY <1>2, <1>4, <1>6 DEF ControlOK, Ahead, Forwards, Backwards, HeadCommits
<1> QED BY <1>7, <1>8, <1>9 DEF IInv

LEMMA MarkBackwardInv == ASSUME IInv, MarkBackward PROVE IInv'
<1>1. PICK s \in Remaining : IsLast(s, Remaining) /\ reversed' = reversed \cup {s}
  BY DEF MarkBackward
<1>2. /\ pc = "markBack" /\ pc' = "backward" /\ authorized /\ ~committed /\ ~rolledBack
      /\ directory /\ LastUndone /\ Remaining \in SUBSET Steps
      /\ UNCHANGED <<slots, staged, backup, directory, plan, intent, forward, authorized,
                     start, committed, rolledBack, torn, mode, outcome, quiet>>
  BY DEF MarkBackward, Goto, slots, IInv, ControlOK, TerminalOK, JournalOK, Backwards,
     Remaining, TypeOK
<1>3. Remaining' = Remaining \ {s}
  BY <1>1, <1>2 DEF Remaining
<1>4. DoneSteps' = Remaining'
  BY <1>1, <1>2, <1>3, OneLast, DoneStable DEF LastUndone
<1>5. \A u \in reversed', t \in start' : Precedes(u, t) => t \in reversed'
  BY <1>1, <1>2 DEF IInv, JournalOK, Remaining, IsLast
<1>6. reversed' \subseteq start'
  BY <1>1, <1>2 DEF IInv, JournalOK, Remaining
<1>7. TypeOK'
  BY <1>2, <1>6 DEF IInv, TypeOK, slots
<1>8. PrivateOK' /\ JournalOK' /\ TerminalOK'
  BY <1>2, <1>5, <1>6 DEF IInv, PrivateOK, JournalOK, TerminalOK, Prefix, HeadCommits
<1>9. ControlOK' /\ Ahead'
  BY <1>2, <1>4 DEF ControlOK, Ahead, Forwards, Backwards
<1> QED BY <1>7, <1>8, <1>9 DEF IInv

LEMMA AllMovedInv == ASSUME IInv, AllMoved PROVE IInv'
<1>1. /\ UNCHANGED <<slots, staged, backup, journal, mode, outcome, quiet>>
      /\ pc = "forward" /\ pc' = "commit" /\ forward = Steps
      /\ ~authorized /\ directory /\ ~committed /\ ~rolledBack /\ DoneSteps = forward
  BY DEF AllMoved, slots, Goto, IInv, ControlOK, JournalOK, TerminalOK, Forwards
<1>2. /\ PrivateOK' /\ JournalOK' /\ Ahead' /\ DoneSteps' = DoneSteps
  BY <1>1, Frame
<1>3. TypeOK'
  BY <1>1 DEF IInv, TypeOK, slots, journal
<1>4. TerminalOK' /\ ControlOK'
  BY <1>1, <1>2 DEF TerminalOK, ControlOK, journal, Forwards, Backwards
<1> QED BY <1>2, <1>3, <1>4 DEF IInv

LEMMA WriteCommittedInv == ASSUME IInv, WriteCommitted PROVE IInv'
<1>1. /\ UNCHANGED <<slots, staged, backup, directory, plan, intent, forward, authorized,
                     start, reversed, rolledBack, torn, mode, quiet>>
      /\ pc = "commit" /\ pc' = "idle" /\ committed' = TRUE /\ outcome' = "committed"
      /\ ~authorized /\ directory /\ ~rolledBack /\ forward = Steps /\ DoneSteps = Steps
  BY DEF WriteCommitted, slots, Stop, IInv, ControlOK, JournalOK, TerminalOK, Forwards
<1>2. DoneSteps' = DoneSteps
  BY <1>1, DoneStable
<1>3. TypeOK'
  BY <1>1 DEF IInv, TypeOK, slots
<1>4. PrivateOK' /\ JournalOK' /\ TerminalOK' /\ ControlOK' /\ Ahead'
  BY <1>1, <1>2 DEF IInv, PrivateOK, JournalOK, TerminalOK, ControlOK, Ahead, Forwards,
     Backwards, Prefix, HeadCommits
<1> QED BY <1>3, <1>4 DEF IInv

LEMMA AuthorizeRollbackInv == ASSUME IInv, AuthorizeRollback PROVE IInv'
<1>1. /\ UNCHANGED <<slots, staged, backup, directory, plan, intent, forward, reversed,
                     committed, rolledBack, torn, mode, outcome, quiet>>
      /\ pc = "authorize" /\ pc' = "reconcileBack" /\ authorized' = TRUE /\ start' = forward
      /\ ~committed /\ directory /\ ~rolledBack /\ DoneSteps = forward /\ reversed = {}
      /\ (HeadCommits => forward # Steps)
  BY DEF AuthorizeRollback, slots, Goto, IInv, ControlOK, JournalOK, TerminalOK, Forwards
<1>2. DoneSteps' = forward /\ Remaining' = forward
  BY <1>1, DoneStable DEF Remaining
<1>3. TypeOK'
  BY <1>1 DEF IInv, TypeOK, slots
<1>4. PrivateOK' /\ JournalOK' /\ TerminalOK' /\ ControlOK' /\ Ahead'
  BY <1>1, <1>2 DEF IInv, PrivateOK, JournalOK, TerminalOK, ControlOK, Ahead, Forwards,
     Backwards, Prefix, HeadCommits
<1> QED BY <1>3, <1>4 DEF IInv

LEMMA AllReversedInv == ASSUME IInv, AllReversed PROVE IInv'
<1>1. /\ UNCHANGED <<slots, staged, backup, journal, mode, outcome, quiet>>
      /\ pc = "backward" /\ pc' = "rollBack" /\ Remaining = {}
      /\ authorized /\ directory /\ ~committed /\ ~rolledBack /\ DoneSteps = Remaining
  BY DEF AllReversed, slots, Goto, IInv, ControlOK, JournalOK, TerminalOK, Backwards
<1>2. /\ PrivateOK' /\ JournalOK' /\ Ahead' /\ DoneSteps' = DoneSteps
      /\ Remaining' = Remaining
  BY <1>1, Frame
<1>3. TypeOK'
  BY <1>1 DEF IInv, TypeOK, slots, journal
<1>4. TerminalOK' /\ ControlOK'
  BY <1>1, <1>2 DEF TerminalOK, ControlOK, journal, Forwards, Backwards
<1> QED BY <1>2, <1>3, <1>4 DEF IInv

LEMMA WriteRolledBackInv == ASSUME IInv, WriteRolledBack PROVE IInv'
<1>1. /\ UNCHANGED <<slots, staged, backup, directory, plan, intent, forward, authorized,
                     start, reversed, committed, torn, mode, quiet>>
      /\ pc = "rollBack" /\ pc' = "idle" /\ rolledBack' = TRUE /\ outcome' = "rolled_back"
      /\ authorized /\ directory /\ ~committed /\ Remaining = {} /\ DoneSteps = {}
  BY DEF WriteRolledBack, slots, Stop, IInv, ControlOK, JournalOK, TerminalOK, Backwards
<1>2. DoneSteps' = {} /\ Remaining' = {} /\ reversed = start
  BY <1>1, DoneStable DEF Remaining, IInv, JournalOK
<1>3. TypeOK'
  BY <1>1 DEF IInv, TypeOK, slots
<1>4. PrivateOK' /\ JournalOK' /\ TerminalOK' /\ ControlOK' /\ Ahead'
  BY <1>1, <1>2 DEF IInv, PrivateOK, JournalOK, TerminalOK, ControlOK, Ahead, Forwards,
     Backwards, Prefix, HeadCommits
<1> QED BY <1>3, <1>4 DEF IInv

-----------------------------------------------------------------------------
(***************************************************************************)
(* The theorems.                                                           *)
(***************************************************************************)
\* Every step preserves the invariant.
LEMMA NextInv == IInv /\ [Next]_vars => IInv'
<1> SUFFICES ASSUME IInv, [Next]_vars PROVE IInv'
  OBVIOUS
<1>1. CASE UNCHANGED vars
  <2>1. UNCHANGED <<target, raw, staged, backup, journal, control>>
    BY <1>1 DEF vars, slots
  <2>2. /\ PrivateOK' /\ JournalOK' /\ Ahead' /\ DoneSteps' = DoneSteps
        /\ Remaining' = Remaining /\ NextDone' = NextDone /\ LastUndone' = LastUndone
    BY <2>1, Frame DEF control
  <2>3. TypeOK' /\ TerminalOK' /\ ControlOK'
    BY <2>1, <2>2 DEF IInv, TypeOK, TerminalOK, ControlOK, journal, control, HeadCommits
  <2> QED BY <2>2, <2>3 DEF IInv
<1>2. CASE CreateOperation BY <1>2, CreateOperationInv
<1>3. CASE StartApply BY <1>3, StartApplyInv
<1>4. CASE StartRecover BY <1>4, StartRecoverInv
<1>5. CASE Running
  BY <1>5, WritePlanInv, WriteIntentInv, RepairInv, ReconcileForwardInv,
     MoveForwardInv, RestoreInv, MarkForwardInv, AllMovedInv, WriteCommittedInv,
     AuthorizeRollbackInv, ReconcileBackwardInv, MoveBackwardInv, MarkBackwardInv,
     AllReversedInv, WriteRolledBackInv, StopInv DEF Running
<1>6. CASE ProcessStops \/ RecordTorn BY <1>6, StopInv
<1>7. CASE Owner BY <1>7, OwnerInv
<1>8. CASE Quiesce BY <1>8, QuiesceInv
<1> QED BY <1>1, <1>2, <1>3, <1>4, <1>5, <1>6, <1>7, <1>8 DEF Next

\* The invariant holds in every reachable state.
THEOREM Invariance == Spec => []IInv
<1>1. Init => IInv BY InitInv
<1>2. IInv /\ [Next]_vars => IInv' BY NextInv
<1> QED BY <1>1, <1>2, PTL DEF Spec

\* Slots and records always hold what the code can put there.
THEOREM TypeCorrect == Spec => []TypeOK
<1>1. IInv => TypeOK BY DEF IInv
<1> QED BY <1>1, Invariance, PTL

\* The topology is at most one move away from the journal, in either
\* direction, whatever stops, conflicts, torn records and edits happened.
THEOREM OneStepAhead == Spec => []AtMostOneAhead
<1>1. IInv => AtMostOneAhead
  <2> SUFFICES ASSUME IInv PROVE AtMostOneAhead
    OBVIOUS
  <2>1. CASE authorized
    <3>1. Recorded = Remaining /\ Remaining \subseteq Steps
      BY <2>1 DEF Recorded, Remaining, IInv, TypeOK
    <3> QED BY <2>1, <3>1 DEF IInv, Ahead, LastUndone, AtMostOneAhead
  <2>2. CASE ~authorized
    BY <2>2 DEF IInv, Ahead, NextDone, AtMostOneAhead, Recorded
  <2> QED BY <2>1, <2>2
<1> QED BY <1>1, Invariance, PTL

\* No journal ever holds contradicting terminal markers, and each terminal
\* marker is backed by a complete sequence of checkpoints.
THEOREM TerminalsAgree == Spec => []TerminalAgree
<1>1. IInv => TerminalAgree
  BY DEF IInv, JournalOK, TerminalOK, TerminalAgree
<1> QED BY <1>1, Invariance, PTL

\* A move takes exactly what its publication expects, so it never covers an
\* object the owner put on a target.
LEMMA MoveSparesStrangers ==
  ASSUME NEW s \in Steps, NEW D, NEW E, Movable(s, D), Move(s, E), TypeOK,
         NEW i \in Publications, target[i] = "stranger"
  PROVE  target'[i] = "stranger"
BY StepParts DEF Movable, ItemExact, Move, TypeOK, TargetAfter, Original

\* No step of the operation removes or covers an object the owner put on a
\* public target.
THEOREM StrangersSafe == Spec => StrangersKept
<1>1. IInv /\ [Next]_vars =>
        [\A i \in Publications :
           target[i] = "stranger" => target'[i] = "stranger" \/ Owner]_vars
  <2> SUFFICES ASSUME IInv, Next, ~Owner,
                      NEW i \in Publications, target[i] = "stranger"
               PROVE  target'[i] = "stranger"
    OBVIOUS
  <2>1. CASE MoveForward
    BY <2>1, MoveSparesStrangers DEF MoveForward, IInv
  <2>2. CASE MoveBackward
    <3>1. PICK s \in Remaining : Movable(s, Remaining) /\ Move(s, Remaining \ {s})
      BY <2>2 DEF MoveBackward
    <3>2. s \in Steps
      BY DEF IInv, TypeOK, Remaining
    <3> QED BY <3>1, <3>2, MoveSparesStrangers DEF IInv
  <2>3. CASE ~MoveForward /\ ~MoveBackward
    <3>1. UNCHANGED target
      BY <2>3 DEF Next, Running, CreateOperation, StartApply, StartRecover, Answer,
         WritePlan, WriteIntent, RepairForward, ReconcileForward, RestoreForward,
         MarkForward, AllMoved, WriteCommitted, AuthorizeRollback, RepairBackward,
         ReconcileBackward, RestoreBackward, MarkBackward, AllReversed,
         WriteRolledBack, Conflict, ProcessStops, RecordTorn, Quiesce, slots
    <3> QED BY <3>1
  <2> QED BY <2>1, <2>2, <2>3
<1> QED BY <1>1, Invariance, PTL DEF Spec, StrangersKept

-----------------------------------------------------------------------------
(***************************************************************************)
(* The operation implements the ordered publication.                       *)
(***************************************************************************)
\* Moves are the only steps that change what is in effect.
LEMMA OnlyMovesChange ==
  ASSUME [Next]_vars, ~MoveForward, ~MoveBackward
  PROVE  UNCHANGED <<staged, backup>>
BY DEF Next, Running, CreateOperation, StartApply, StartRecover, Answer, WritePlan,
   WriteIntent, RepairForward, ReconcileForward, RestoreForward, MarkForward, AllMoved,
   WriteCommitted, AuthorizeRollback, RepairBackward, ReconcileBackward,
   RestoreBackward, MarkBackward, AllReversed, WriteRolledBack, Conflict,
   ProcessStops, RecordTorn, Owner, OwnerWrites, OwnerDeletes, OwnerPuts, Quiesce,
   slots, vars

\* Only the two terminal markers change the status.
LEMMA OnlyMarkersClose ==
  ASSUME [Next]_vars, ~WriteCommitted, ~WriteRolledBack
  PROVE  UNCHANGED <<committed, rolledBack>>
BY DEF Next, Running, CreateOperation, StartApply, StartRecover, Answer, WritePlan,
   WriteIntent, RepairForward, ReconcileForward, MoveForward, RestoreForward,
   MarkForward, AllMoved, AuthorizeRollback, RepairBackward, ReconcileBackward,
   MoveBackward, RestoreBackward, MarkBackward, AllReversed, Conflict, ProcessStops,
   RecordTorn, Owner, OwnerWrites, OwnerDeletes, OwnerPuts, Quiesce, Goto, Stop,
   journal, vars

LEMMA StepRefines == IInv /\ [Next]_vars => [Ordered!Next]_Ordered!vars
<1> SUFFICES ASSUME IInv, [Next]_vars PROVE [Ordered!Next]_Ordered!vars
  OBVIOUS
<1>1. CASE MoveForward
  <2>1. PICK s \in Steps : IsNext(s, forward) /\ Move(s, forward \cup {s})
    BY <1>1 DEF MoveForward
  <2>2. /\ DoneSteps = forward /\ ~committed /\ ~rolledBack
        /\ UNCHANGED <<committed, rolledBack>>
    BY <1>1 DEF MoveForward, IInv, ControlOK, TerminalOK, Goto, journal
  <2>3. DoneSteps' = forward \cup {s}
    BY <2>1, <2>2, MoveDone DEF IInv, TypeOK
  <2>4. publicationStatus = "open" /\ publicationStatus' = "open"
    BY <2>2 DEF publicationStatus
  <2>5. Ordered!Advance
    BY <2>1, <2>2, <2>3, <2>4 DEF Ordered!Advance, IsNext
  <2> QED BY <2>5 DEF Ordered!Next
<1>2. CASE MoveBackward
  <2>1. PICK s \in Remaining : IsLast(s, Remaining) /\ Move(s, Remaining \ {s})
    BY <1>2 DEF MoveBackward
  <2>2. /\ DoneSteps = Remaining /\ ~committed /\ ~rolledBack /\ authorized
        /\ UNCHANGED <<committed, rolledBack>> /\ Remaining \subseteq start
        /\ start \subseteq Steps /\ (HeadCommits => start # Steps)
    BY <1>2 DEF MoveBackward, IInv, ControlOK, TerminalOK, JournalOK, Goto, journal,
       Remaining, Backwards, TypeOK
  <2>3. DoneSteps' = Remaining \ {s}
    BY <2>1, <2>2, MoveDone DEF IInv
  <2>4. publicationStatus = "open" /\ publicationStatus' = "open"
    BY <2>2 DEF publicationStatus
  <2>5. Ordered!Retreat
    BY <2>1, <2>2, <2>3, <2>4 DEF Ordered!Retreat, IsLast
  <2> QED BY <2>5 DEF Ordered!Next
<1>3. CASE WriteCommitted
  <2>1. UNCHANGED <<staged, backup, rolledBack>> /\ committed' = TRUE
    BY <1>3 DEF WriteCommitted, slots
  <2>2. DoneSteps' = DoneSteps /\ DoneSteps = Steps /\ ~committed /\ ~rolledBack
    BY <1>3, <2>1, DoneStable DEF WriteCommitted, IInv, ControlOK, TerminalOK
  <2>3. Ordered!Commit
    BY <2>1, <2>2 DEF Ordered!Commit, publicationStatus
  <2> QED BY <2>3 DEF Ordered!Next
<1>4. CASE WriteRolledBack
  <2>1. UNCHANGED <<staged, backup, committed>> /\ rolledBack' = TRUE
    BY <1>4 DEF WriteRolledBack, slots
  <2>2. DoneSteps' = DoneSteps /\ DoneSteps = {} /\ ~committed /\ ~rolledBack
    BY <1>4, <2>1, DoneStable DEF WriteRolledBack, IInv, ControlOK, TerminalOK
  <2>3. Ordered!RollBack
    BY <2>1, <2>2 DEF Ordered!RollBack, publicationStatus
  <2> QED BY <2>3 DEF Ordered!Next
<1>5. CASE ~MoveForward /\ ~MoveBackward /\ ~WriteCommitted /\ ~WriteRolledBack
  BY <1>5, OnlyMovesChange, OnlyMarkersClose, DoneStable
     DEF publicationStatus, Ordered!vars
<1> QED BY <1>1, <1>2, <1>3, <1>4, <1>5

\* Every behaviour of the operation is an ordered publication: content before
\* evidence before manifest on the way in, the reverse on the way out, closed
\* for good by either terminal marker, and for version 3 never reversed once
\* the manifest object is installed.
THEOREM Refinement == Spec => OrderedSpec
<1>1. Init => Ordered!Init
  <2> SUFFICES ASSUME Init PROVE Ordered!Init
    OBVIOUS
  <2>1. DoneSteps = {}
    BY StepParts DEF Init, DoneSteps
  <2> QED BY <2>1 DEF Init, Ordered!Init, publicationStatus
<1>2. IInv /\ [Next]_vars => [Ordered!Next]_Ordered!vars
  BY StepRefines
<1> QED BY <1>1, <1>2, Invariance, PTL DEF Spec, OrderedSpec, Ordered!Spec

\* Version 3 never takes an installed manifest back, whether or not its last
\* marker was written.
THEOREM ManifestStays == Spec => ManifestFinal
<1>1. IInv /\ [Next]_vars =>
        [Version = 3 /\ staged[P] = "absent" => staged'[P] = "absent"]_vars
  <2> SUFFICES ASSUME IInv, [Next]_vars, Version = 3, staged[P] = "absent"
               PROVE  staged'[P] = "absent"
    OBVIOUS
  <2>1. HeadStep \in Steps /\ Installs(HeadStep) /\ HeadStep[1] = P
    <3>1. P \in Publications /\ LastRank(P) \in 1..2
      BY OperationAssumption DEF Publications, LastRank
    <3> QED BY <3>1 DEF HeadStep, Installs, Steps
  <2>2. HeadStep \in DoneSteps
    BY <2>1 DEF DoneSteps
  <2>3. CASE MoveForward
    <3>1. PICK s \in Steps : IsNext(s, forward) /\ Move(s, forward \cup {s})
      BY <2>3 DEF MoveForward
    <3>2. DoneSteps = forward
      BY <2>3 DEF MoveForward, IInv, ControlOK
    <3>3. DoneSteps' = forward \cup {s}
      BY <3>1, <3>2, MoveDone DEF IInv, TypeOK
    <3>4. HeadStep \in DoneSteps'
      BY <2>2, <3>2, <3>3
    <3> QED BY <2>1, <3>4 DEF DoneSteps, Installs, LastRank
  <2>4. ~MoveBackward
    <3> SUFFICES ASSUME MoveBackward PROVE FALSE
      OBVIOUS
    <3>1. /\ DoneSteps = start \ reversed /\ start = forward /\ start # Steps
          /\ start \subseteq Steps
      BY DEF MoveBackward, IInv, ControlOK, JournalOK, Backwards, HeadCommits, Remaining,
         TypeOK
    <3>2. HeadStep \in forward
      BY <2>2, <3>1
    <3>3. \A t \in Steps : t # HeadStep => Precedes(t, HeadStep)
      BY StepParts, OperationAssumption DEF HeadStep, Precedes, Publications, LastRank
    <3>4. Steps \subseteq forward
      BY <3>2, <3>3 DEF IInv, JournalOK, Prefix
    <3> QED BY <3>1, <3>4
  <2>5. CASE ~MoveForward /\ ~MoveBackward
    BY <2>5, OnlyMovesChange
  <2> QED BY <2>3, <2>4, <2>5
<1> QED BY <1>1, Invariance, PTL DEF Spec, ManifestFinal
=============================================================================
