-------------------------- MODULE WindowsOperation --------------------------
(***************************************************************************)
(* The Windows operation of upgrade_contract/windows_operation.py: an      *)
(* ordered list of file publications, carried out by no-replace moves of   *)
(* exactly identified objects between a public target and two private      *)
(* slots, with one write-once marker file per move.  Record version 2      *)
(* commits with the global marker; version 3 commits when the manifest     *)
(* object reaches its target.                                              *)
(*                                                                         *)
(* One process runs an operation at a time: the scope lock is held         *)
(* throughout.  A rename leaves the metadata of the moved object changed   *)
(* until a second step restores it, and no object in that state passes for *)
(* the recorded one.                                                       *)
(***************************************************************************)
EXTENDS Naturals

CONSTANTS
  P,            \* number of publications; the last one is the manifest
  Kind,         \* Kind[i]: "create" or "replace"
  Version,      \* record version: 2 or 3
  Environment   \* which disturbances happen

Publications == 1..P
Disturbances == {"stop", "tear", "write", "delete"}

ASSUME OperationAssumption ==
  /\ P \in Nat \ {0}
  /\ Kind \in [Publications -> {"create", "replace"}]
  /\ Version \in {2, 3}
  /\ Environment \subseteq Disturbances

VARIABLES
  target, staged, backup,  \* what each slot of each publication holds
  raw,          \* the move whose metadata are not restored, or NoStep
  directory,    \* the operation directory exists
  plan, intent, \* plan.json and intent.json exist
  forward,      \* steps with a forward marker
  authorized,   \* rollback.json exists
  start,        \* the steps it starts from
  reversed,     \* steps with a rollback marker
  committed, rolledBack,  \* the terminal markers
  torn,         \* some record file is incomplete
  pc,           \* control point of the process
  mode,         \* the call: "apply", "recover" or "cancel"
  outcome,      \* what the last call returned
  quiet         \* TRUE once stops and edits have ended

slots   == <<target, staged, backup, raw>>
journal == <<directory, plan, intent, forward, authorized, start, reversed,
             committed, rolledBack, torn>>
control == <<pc, mode, outcome, quiet>>
vars    == <<slots, journal, control>>

-----------------------------------------------------------------------------
(***************************************************************************)
(* Steps: a creation moves the staged object to the target, a replacement  *)
(* first moves the old object to the backup slot.                          *)
(***************************************************************************)
LastRank(i) == IF Kind[i] = "create" THEN 1 ELSE 2
Steps == {s \in Publications \X (1..2) : s[2] <= LastRank(s[1])}
Precedes(s, t) == s[1] < t[1] \/ (s[1] = t[1] /\ s[2] < t[2])

NoStep == <<0, 0>>

Installs(s) == s[2] = LastRank(s[1])
HeadStep == <<P, LastRank(P)>>

\* Variant: publications are not ordered among themselves.
IsNextAnywhere(s, D) ==
  s \in Steps \ D /\ \A t \in Steps : t[1] = s[1] /\ Precedes(t, s) => t \in D

\* The next step after the steps D, and the last one of them.
IsNext(s, D) == s \in Steps \ D /\ \A t \in Steps : Precedes(t, s) => t \in D
IsLast(s, D) == s \in D /\ \A t \in D : ~Precedes(s, t)

Original(i) == IF Kind[i] = "replace" THEN "before" ELSE "absent"

\* What the slots of publication i hold once exactly the steps D are done.
TargetAfter(i, D) ==
  CASE <<i, LastRank(i)>> \in D -> "after"
    [] <<i, LastRank(i)>> \notin D /\ <<i, 1>> \in D -> "absent"
    [] OTHER -> Original(i)
StagedAfter(i, D) == IF <<i, LastRank(i)>> \in D THEN "absent" ELSE "after"
BackupAfter(i, D) ==
  IF Kind[i] = "replace" /\ <<i, 1>> \in D THEN "before" ELSE "absent"

ItemExact(i, D) ==
  /\ target[i] = TargetAfter(i, D)
  /\ staged[i] = StagedAfter(i, D)
  /\ backup[i] = BackupAfter(i, D)

\* The topology scan recognises the steps D: every object is the recorded one.
Exact(D) == raw = NoStep /\ \A i \in Publications : ItemExact(i, D)

\* Variant: only a completely restored move is recognised.
FullyExact(s, D) == Exact(D)

\* All but the metadata of the object moved by step s.
ExactButRaw(s, D) == raw = s /\ \A i \in Publications : ItemExact(i, D)

TypeOK ==
  /\ target \in [Publications -> {"absent", "before", "after", "stranger"}]
  /\ staged \in [Publications -> {"absent", "after"}]
  /\ backup \in [Publications -> {"absent", "before"}]
  /\ raw \in Steps \cup {NoStep}
  /\ directory \in BOOLEAN /\ plan \in BOOLEAN /\ intent \in BOOLEAN
  /\ forward \subseteq Steps
  /\ authorized \in BOOLEAN /\ start \subseteq Steps
  /\ reversed \subseteq Steps
  /\ committed \in BOOLEAN /\ rolledBack \in BOOLEAN /\ torn \in BOOLEAN
  /\ pc \in {"idle", "plan", "intent", "reconcile", "forward", "restore", "mark",
             "commit", "authorize", "reconcileBack", "backward", "restoreBack",
             "markBack", "rollBack"}
  /\ mode \in {"apply", "recover", "cancel"}
  /\ outcome \in {"none", "committed", "rolled_back", "conflict"}
  /\ quiet \in BOOLEAN

Init ==
  /\ target = [i \in Publications |-> Original(i)]
  /\ staged = [i \in Publications |-> "after"]
  /\ backup = [i \in Publications |-> "absent"]
  /\ raw = NoStep
  /\ directory = FALSE /\ plan = FALSE /\ intent = FALSE
  /\ forward = {} /\ authorized = FALSE /\ start = {} /\ reversed = {}
  /\ committed = FALSE /\ rolledBack = FALSE /\ torn = FALSE
  /\ pc = "idle" /\ mode = "apply" /\ outcome = "none" /\ quiet = FALSE

-----------------------------------------------------------------------------
Goto(p) == pc' = p /\ UNCHANGED <<mode, outcome, quiet>>
Stop(o) == pc' = "idle" /\ outcome' = o /\ UNCHANGED <<mode, quiet>>

\* Variant: the manifest of version 3 commits nothing by itself.
MarkerCommits == FALSE

HeadCommits == Version = 3

\* The journal of an operation can be read as a whole.
Readable == directory /\ plan /\ intent /\ ~torn

\* The steps the journal says are in effect, in either direction.
Recorded == IF authorized THEN start \ reversed ELSE forward

-----------------------------------------------------------------------------
(***************************************************************************)
(* Calls.  A call that is refused before its first write changes nothing   *)
(* and is left out, except where only the outcome tells it apart.          *)
(***************************************************************************)
\* The constructor makes the directory first and then wants a prepared
\* topology; a directory without an intent is never adopted again.
CreateOperation ==
  /\ pc = "idle" /\ ~directory
  /\ directory' = TRUE /\ mode' \in {"apply", "cancel"}
  /\ IF Exact({}) THEN pc' = "plan" /\ outcome' = "none"
                  ELSE pc' = "idle" /\ outcome' = "conflict"
  /\ UNCHANGED <<slots, plan, intent, forward, authorized, start, reversed,
                 committed, rolledBack, torn, quiet>>

WritePlan ==
  /\ pc = "plan" /\ plan' = TRUE /\ Goto("intent")
  /\ UNCHANGED <<slots, directory, intent, forward, authorized, start, reversed,
                 committed, rolledBack, torn>>

WriteIntent ==
  /\ pc = "intent" /\ (mode = "apply" => Exact({}))
  /\ intent' = TRUE
  /\ Goto(IF mode = "cancel" THEN "authorize" ELSE "reconcile")
  /\ UNCHANGED <<slots, directory, plan, forward, authorized, start, reversed,
                 committed, rolledBack, torn>>

Answer(o, holds) ==
  /\ pc' = "idle" /\ outcome' = IF holds THEN o ELSE "conflict"
  /\ UNCHANGED <<slots, journal, quiet>>

\* Variant: an operation that has entered rollback is applied again.
ReapplyStarts ==
  /\ pc = "idle" /\ Readable /\ ~rolledBack
  /\ mode' = "apply"
  /\ IF committed
     THEN Answer("committed", forward = Steps /\ Exact(Steps))
     ELSE pc' = "reconcile" /\ outcome' = "none" /\ UNCHANGED <<slots, journal, quiet>>

StartApply ==
  /\ pc = "idle" /\ Readable /\ ~authorized /\ ~rolledBack
  /\ mode' = "apply"
  /\ IF committed
     THEN Answer("committed", forward = Steps /\ Exact(Steps))
     ELSE pc' = "reconcile" /\ outcome' = "none" /\ UNCHANGED <<slots, journal, quiet>>

\* An authorized rollback goes on; anything else unfinished is reconciled first.
StartRecover ==
  /\ pc = "idle" /\ Readable
  /\ ~(HeadCommits /\ authorized /\ start = Steps)
  /\ ~(committed /\ (authorized \/ rolledBack))
  /\ mode' = "recover"
  /\ CASE committed -> Answer("committed", forward = Steps /\ Exact(Steps))
       [] rolledBack ->
            Answer("rolled_back", /\ authorized /\ forward = start
                                  /\ reversed = start /\ Exact({}))
       [] OTHER ->
            /\ pc' = IF ~authorized THEN "reconcile"
                     ELSE IF start = forward THEN "reconcileBack" ELSE "idle"
            /\ outcome' = IF authorized /\ start # forward THEN "conflict" ELSE "none"
            /\ UNCHANGED <<slots, journal, quiet>>

-----------------------------------------------------------------------------
(***************************************************************************)
(* Forward: reconcile the one move the journal may lack, then move, restore*)
(* the metadata and mark, step by step.                                    *)
(***************************************************************************)
ForwardFrom(D) ==
  CASE mode = "apply" -> "forward"
    [] mode # "apply" /\ HeadCommits /\ D = Steps -> "commit"
    [] OTHER -> "authorize"

RepairForward ==
  /\ pc = "reconcile"
  /\ \E s \in Steps : IsNext(s, forward) /\ ExactButRaw(s, forward \cup {s})
  /\ raw' = NoStep
  /\ UNCHANGED <<target, staged, backup, journal, control>>

\* Variant: a move found completed is not marked before the call goes on.
ArrivalUnmarked ==
  /\ pc = "reconcile"
  /\ \/ Exact(forward)
     \/ \E s \in Steps : IsNext(s, forward) /\ Exact(forward \cup {s})
  /\ Goto(ForwardFrom(forward))
  /\ UNCHANGED <<slots, journal>>

ReconcileForward ==
  /\ pc = "reconcile"
  /\ \/ Exact(forward) /\ Goto(ForwardFrom(forward))
     \/ /\ \E s \in Steps : IsNext(s, forward) /\ Exact(forward \cup {s})
        /\ Goto("mark")
  /\ UNCHANGED <<slots, journal>>

\* Variant: the public target is not looked at before the rename.
MovableBlindly(s, D) ==
  staged[s[1]] = StagedAfter(s[1], D) /\ backup[s[1]] = BackupAfter(s[1], D)

\* Source and destination are checked and the source is held while it moves;
\* the rename never replaces what it finds at the destination.
Movable(s, D) == ItemExact(s[1], D)

Move(s, D) ==
  LET i == s[1] IN
  /\ target' = [target EXCEPT ![i] = TargetAfter(i, D)]
  /\ staged' = [staged EXCEPT ![i] = StagedAfter(i, D)]
  /\ backup' = [backup EXCEPT ![i] = BackupAfter(i, D)]
  /\ raw' \in {s, NoStep}

MoveForward ==
  /\ pc = "forward"
  /\ \E s \in Steps :
       IsNext(s, forward) /\ Movable(s, forward) /\ Move(s, forward \cup {s})
  /\ Goto("restore")
  /\ UNCHANGED journal

\* The metadata are restored and every slot of the publication read again.
RestoreForward ==
  /\ pc = "restore"
  /\ \E s \in Steps : IsNext(s, forward) /\ ItemExact(s[1], forward \cup {s})
  /\ raw' = NoStep /\ Goto("mark")
  /\ UNCHANGED <<target, staged, backup, journal>>

\* Variant: marker numbers start from zero.
MarkFromZero ==
  /\ pc = "mark"
  /\ \E s \in Steps :
       /\ IsNext(s, forward)
       /\ forward' = forward \cup {<<s[1], s[2] - 1>>}
       /\ Goto(ForwardFrom(forward \cup {s}))
  /\ UNCHANGED <<slots, directory, plan, intent, authorized, start, reversed,
                 committed, rolledBack, torn>>

MarkForward ==
  /\ pc = "mark"
  /\ \E s \in Steps :
       /\ IsNext(s, forward)
       /\ forward' = forward \cup {s}
       /\ Goto(ForwardFrom(forward \cup {s}))
  /\ UNCHANGED <<slots, directory, plan, intent, authorized, start, reversed,
                 committed, rolledBack, torn>>

AllMoved ==
  /\ pc = "forward" /\ forward = Steps /\ Exact(Steps)
  /\ Goto("commit")
  /\ UNCHANGED <<slots, journal>>

WriteCommitted ==
  /\ pc = "commit" /\ committed' = TRUE /\ Stop("committed")
  /\ UNCHANGED <<slots, directory, plan, intent, forward, authorized, start,
                 reversed, rolledBack, torn>>

-----------------------------------------------------------------------------
(***************************************************************************)
(* Backward: rollback.json fixes where the reversal starts.                *)
(***************************************************************************)
AuthorizeRollback ==
  /\ pc = "authorize"
  /\ authorized' = TRUE /\ start' = forward /\ Goto("reconcileBack")
  /\ UNCHANGED <<slots, directory, plan, intent, forward, reversed, committed,
                 rolledBack, torn>>

Remaining == start \ reversed

RepairBackward ==
  /\ pc = "reconcileBack"
  /\ \E s \in Remaining : IsLast(s, Remaining) /\ ExactButRaw(s, Remaining \ {s})
  /\ raw' = NoStep
  /\ UNCHANGED <<target, staged, backup, journal, control>>

ReconcileBackward ==
  /\ pc = "reconcileBack"
  /\ \/ Exact(Remaining) /\ Goto("backward")
     \/ /\ \E s \in Remaining : IsLast(s, Remaining) /\ Exact(Remaining \ {s})
        /\ Goto("markBack")
  /\ UNCHANGED <<slots, journal>>

MoveBackward ==
  /\ pc = "backward"
  /\ \E s \in Remaining :
       /\ IsLast(s, Remaining) /\ Movable(s, Remaining)
       /\ Move(s, Remaining \ {s})
  /\ Goto("restoreBack")
  /\ UNCHANGED journal

RestoreBackward ==
  /\ pc = "restoreBack"
  /\ \E s \in Remaining :
       IsLast(s, Remaining) /\ ItemExact(s[1], Remaining \ {s})
  /\ raw' = NoStep /\ Goto("markBack")
  /\ UNCHANGED <<target, staged, backup, journal>>

MarkBackward ==
  /\ pc = "markBack"
  /\ \E s \in Remaining : IsLast(s, Remaining) /\ reversed' = reversed \cup {s}
  /\ Goto("backward")
  /\ UNCHANGED <<slots, directory, plan, intent, forward, authorized, start,
                 committed, rolledBack, torn>>

AllReversed ==
  /\ pc = "backward" /\ Remaining = {} /\ Exact({})
  /\ Goto("rollBack")
  /\ UNCHANGED <<slots, journal>>

WriteRolledBack ==
  /\ pc = "rollBack" /\ rolledBack' = TRUE /\ Stop("rolled_back")
  /\ UNCHANGED <<slots, directory, plan, intent, forward, authorized, start,
                 reversed, committed, torn>>

-----------------------------------------------------------------------------
(***************************************************************************)
(* Conflicts: an unexpected topology stops the call with every object and  *)
(* every record where it is.                                               *)
(***************************************************************************)
Unexpected ==
  \/ pc = "intent" /\ mode = "apply" /\ ~Exact({})
  \/ /\ pc = "reconcile" /\ ~Exact(forward)
     /\ \A s \in Steps : IsNext(s, forward) =>
          ~Exact(forward \cup {s}) /\ ~ExactButRaw(s, forward \cup {s})
  \/ /\ pc = "forward"
     /\ IF forward = Steps THEN ~Exact(Steps)
        ELSE \A s \in Steps : IsNext(s, forward) => ~Movable(s, forward)
  \/ /\ pc = "restore"
     /\ \A s \in Steps : IsNext(s, forward) => ~ItemExact(s[1], forward \cup {s})
  \/ /\ pc = "reconcileBack" /\ ~Exact(Remaining)
     /\ \A s \in Remaining : IsLast(s, Remaining) =>
          ~Exact(Remaining \ {s}) /\ ~ExactButRaw(s, Remaining \ {s})
  \/ /\ pc = "backward"
     /\ IF Remaining = {} THEN ~Exact({})
        ELSE \A s \in Remaining : IsLast(s, Remaining) => ~Movable(s, Remaining)
  \/ /\ pc = "restoreBack"
     /\ \A s \in Remaining :
          IsLast(s, Remaining) => ~ItemExact(s[1], Remaining \ {s})

Conflict ==
  /\ Unexpected /\ Stop("conflict")
  /\ UNCHANGED <<slots, journal>>

-----------------------------------------------------------------------------
(***************************************************************************)
(* The environment: the process stops (or an API call fails) anywhere, a   *)
(* record may be left incomplete, and the owner edits public targets.      *)
(***************************************************************************)
Happens(d) == d \in Environment /\ ~quiet

ProcessStops ==
  /\ pc # "idle" /\ Happens("stop")
  /\ Stop("none")
  /\ UNCHANGED <<slots, journal>>

Writing == {"plan", "intent", "mark", "commit", "authorize", "markBack", "rollBack"}

\* A record that was created but not completely written stays as it is, and
\* every later call refuses to go on.
RecordTorn ==
  /\ pc \in Writing /\ Happens("tear")
  /\ torn' = TRUE /\ Stop("none")
  /\ UNCHANGED <<slots, directory, plan, intent, forward, authorized, start,
                 reversed, committed, rolledBack>>

\* The object whose metadata are not restored is the one on this target.
RawOn(i) == raw[1] = i /\ target[i] \in {"before", "after"}

OwnerPuts(i, content) ==
  /\ target' = [target EXCEPT ![i] = content]
  /\ raw' = IF RawOn(i) THEN NoStep ELSE raw
  /\ UNCHANGED <<staged, backup, journal, control>>

OwnerWrites(i) == Happens("write") /\ OwnerPuts(i, "stranger")
OwnerDeletes(i) ==
  Happens("delete") /\ target[i] # "absent" /\ OwnerPuts(i, "absent")

Quiesce == ~quiet /\ quiet' = TRUE /\ UNCHANGED <<slots, journal, pc, mode, outcome>>

Owner == \E i \in Publications : OwnerWrites(i) \/ OwnerDeletes(i)

-----------------------------------------------------------------------------
Running ==
  \/ WritePlan \/ WriteIntent
  \/ RepairForward \/ ReconcileForward \/ MoveForward \/ RestoreForward
  \/ MarkForward \/ AllMoved \/ WriteCommitted
  \/ AuthorizeRollback \/ RepairBackward \/ ReconcileBackward \/ MoveBackward
  \/ RestoreBackward \/ MarkBackward \/ AllReversed \/ WriteRolledBack
  \/ Conflict

Next ==
  \/ CreateOperation \/ StartApply \/ StartRecover \/ Running
  \/ ProcessStops \/ RecordTorn \/ Owner \/ Quiesce

Spec == Init /\ [][Next]_vars

\* A started call runs on and an operation with an intent is recovered again.
FairSpec == Spec /\ WF_vars(Running) /\ WF_vars(StartRecover)

-----------------------------------------------------------------------------
(***************************************************************************)
(* Properties.                                                             *)
(***************************************************************************)
\* The private slots, which nobody but the operation touches, tell which
\* steps are in effect.
DoneSteps ==
  {s \in Steps : IF Installs(s) THEN staged[s[1]] = "absent"
                                ELSE backup[s[1]] = "before"}

\* "Exact live topology can therefore be one step ahead of the journal, never
\* several steps ahead or behind it" (windows_coordinator.py:391-393), however
\* calls, stops, conflicts and edits alternate.
AtMostOneAhead ==
  \/ DoneSteps = Recorded
  \/ \E s \in Steps :
       \/ ~authorized /\ IsNext(s, Recorded) /\ DoneSteps = Recorded \cup {s}
       \/ authorized /\ IsLast(s, Recorded) /\ DoneSteps = Recorded \ {s}

\* The terminal markers never contradict the rest of the journal or each other.
TerminalAgree ==
  /\ committed => forward = Steps /\ ~authorized /\ ~rolledBack
  /\ rolledBack => authorized /\ start = forward /\ reversed = start
  /\ authorized => start = forward /\ reversed \subseteq start

\* An object the owner put on a target stays there until the owner moves it.
StrangersKept ==
  [][\A i \in Publications :
       target[i] = "stranger" => target'[i] = "stranger" \/ Owner]_vars

\* Version 3 "never reverses an installed new manifest"
\* (windows_operation.py:806), marked or not.
ManifestFinal ==
  [][Version = 3 /\ staged[P] = "absent" => staged'[P] = "absent"]_vars

\* With no edits and no torn record, once the process stops failing, repeated
\* recovery ends every operation that has an intent.
Settles == (quiet /\ intent) ~> (committed \/ rolledBack)

\* The operation implements the ordered publication of its steps.
publicationStatus ==
  CASE committed -> "committed" [] rolledBack -> "rolledBack" [] OTHER -> "open"

Ordered == INSTANCE OrderedPublication WITH
  done <- DoneSteps, status <- publicationStatus

OrderedSpec == Ordered!Spec
=============================================================================
