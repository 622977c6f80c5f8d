--------------------------- MODULE TaskCompletion ---------------------------
(***************************************************************************)
(* Completing a task (complete_task in scripts/naos_task_lifecycle.py).    *)
(* A completion adds a record to the completed history, marks the entry of *)
(* the registry and moves the task's card from active/ to completed/.  It  *)
(* computes everything first, looks again whether its inputs changed, and  *)
(* then replaces the files one after the other; a failure puts back what   *)
(* it read.  There is no lock, no journal, and the names of the temporary  *)
(* files are the same for every caller.                                    *)
(*                                                                         *)
(* A registry or a history is abstracted to the set of tasks that are      *)
(* completed in it; all copies of a card have the same bytes.              *)
(***************************************************************************)
EXTENDS Naturals, FiniteSets

CONSTANTS
  Callers,  \* processes that complete tasks
  Tasks,
  MaxStops  \* bound of the number of failures and deaths

ASSUME CompletionAssumption == MaxStops \in Nat

VARIABLES
  active,       \* tasks with a card in active/
  completed,    \* tasks with a card in completed/
  registry,     \* tasks whose entry in TASK_REGISTRY.yaml is completed
  history,      \* tasks with a record in completed_history.yaml
  cardTemps,    \* tasks with a .<card>.naos-tmp in completed/
  registryTemp, \* .TASK_REGISTRY.yaml.naos-tmp, or Absent
  historyTemp,  \* .completed_history.yaml.naos-tmp, or Absent
  pc,           \* control point of each caller
  task,         \* the task each caller completes
  loaded,       \* the registry and the history each caller parsed
  original,     \* their bytes as each caller read them, to put them back
  stops,        \* failures and deaths so far
  reported,     \* history: tasks whose completion was reported as done
  left,         \* history: tasks on which a call stopped half way
  overlapped    \* history: a call wrote while another one relied on it not to

files == <<active, completed, registry, history>>
temps == <<cardTemps, registryTemp, historyTemp>>
memory == <<task, loaded, original>>
ghosts == <<reported, left>>
vars == <<files, temps, pc, memory, stops, ghosts, overlapped>>

Absent == {"absent"}
Contents == SUBSET Tasks

\* Between the check that nothing changed and the end of the call.
Publishing == {"tempCard", "tempRegistry", "tempHistory", "card", "registry",
               "history", "unlink"}
Undoing == {"undo", "undoRegistry", "undoHistory", "undoCard", "undoCompleted"}
Writing == Publishing \cup Undoing

\* Between parsing the history and reading its bytes.
Parsing == {"readRegistry", "readHistory"}

TypeOK ==
  /\ active \subseteq Tasks /\ completed \subseteq Tasks
  /\ registry \subseteq Tasks /\ history \subseteq Tasks
  /\ cardTemps \subseteq Tasks
  /\ registryTemp \in Contents \cup {Absent}
  /\ historyTemp \in Contents \cup {Absent}
  /\ pc \in [Callers -> {"idle", "loadHistory", "recheck"} \cup Parsing \cup Writing]
  /\ task \in [Callers -> Tasks]
  /\ loaded \in [Callers -> [registry : Contents, history : Contents]]
  /\ original \in [Callers -> [registry : Contents, history : Contents]]
  /\ stops \in 0..MaxStops
  /\ reported \subseteq Tasks /\ left \subseteq Tasks
  /\ overlapped \in BOOLEAN

Nothing == [registry |-> {}, history |-> {}]

Init ==
  /\ active = Tasks /\ completed = {} /\ registry = {} /\ history = {}
  /\ cardTemps = {} /\ registryTemp = Absent /\ historyTemp = Absent
  /\ pc = [c \in Callers |-> "idle"]
  /\ task \in [Callers -> Tasks]
  /\ loaded = [c \in Callers |-> Nothing]
  /\ original = [c \in Callers |-> Nothing]
  /\ stops = 0 /\ reported = {} /\ left = {} /\ overlapped = FALSE

At(c, step) == pc[c] = step
Goto(c, step) == pc' = [pc EXCEPT ![c] = step]

\* The call is over, and what it read is gone with it.
Return(c) ==
  /\ Goto(c, "idle")
  /\ loaded' = [loaded EXCEPT ![c] = Nothing]
  /\ original' = [original EXCEPT ![c] = Nothing]
  /\ UNCHANGED task

\* A write while another caller is at one of the steps where it must not be.
Touch(c, steps) ==
  overlapped' = (overlapped \/ \E d \in Callers \ {c} : pc[d] \in steps)

-----------------------------------------------------------------------------
(* Reading.  A check that fails ends the call with nothing changed: that   *)
(* is the same as the call never having begun, and Refuse stands for it.   *)

\* Both an active card and a completed one, or a record: every command that
\* completes or synchronises any task refuses.
Inconsistent(t) == t \in active /\ t \in completed \cup history

Resolve(c, t) ==
  /\ At(c, "idle")
  /\ ~Inconsistent(t) /\ t \in active /\ t \notin registry
  /\ task' = [task EXCEPT ![c] = t]
  /\ loaded' = [loaded EXCEPT ![c].registry = registry]
  /\ Goto(c, "loadHistory")
  /\ UNCHANGED <<files, temps, original, stops, ghosts, overlapped>>

LoadHistory(c) ==
  /\ At(c, "loadHistory")
  /\ task[c] \notin history /\ task[c] \notin completed
  /\ loaded' = [loaded EXCEPT ![c].history = history]
  /\ Goto(c, "readRegistry")
  /\ UNCHANGED <<files, temps, task, original, stops, ghosts, overlapped>>

ReadRegistry(c) ==
  /\ At(c, "readRegistry") /\ task[c] \in active
  /\ original' = [original EXCEPT ![c].registry = registry]
  /\ Goto(c, "readHistory")
  /\ UNCHANGED <<files, temps, task, loaded, stops, ghosts, overlapped>>

\* The bytes of the registry must parse to what was loaded: there is no such
\* comparison for the history.
ReadHistory(c) ==
  /\ At(c, "readHistory")
  /\ original[c].registry = loaded[c].registry
  /\ original' = [original EXCEPT ![c].history = history]
  /\ Goto(c, "recheck")
  /\ UNCHANGED <<files, temps, task, loaded, stops, ghosts, overlapped>>

\* Variant: the recheck looks at the tasks but not at the files' bytes.
InputsUnchangedByIdentity(c) ==
  /\ \A t \in Tasks : ~Inconsistent(t)
  /\ task[c] \in active

InputsUnchanged(c) ==
  /\ \A t \in Tasks : ~Inconsistent(t)
  /\ task[c] \in active
  /\ registry = original[c].registry /\ history = original[c].history

Recheck(c) ==
  /\ At(c, "recheck") /\ InputsUnchanged(c)
  /\ Goto(c, "tempCard")
  /\ UNCHANGED <<files, temps, memory, stops, ghosts, overlapped>>

Refuse(c) ==
  /\ pc[c] \in {"loadHistory", "recheck"} \cup Parsing
  /\ Return(c)
  /\ UNCHANGED <<files, temps, stops, ghosts, overlapped>>

-----------------------------------------------------------------------------
(* Publishing.                                                             *)

WriteCardTemp(c) ==
  /\ At(c, "tempCard")
  /\ cardTemps' = cardTemps \cup {task[c]}
  /\ Touch(c, Writing) /\ Goto(c, "tempRegistry")
  /\ UNCHANGED <<files, registryTemp, historyTemp, memory, stops, ghosts>>

WriteRegistryTemp(c) ==
  /\ At(c, "tempRegistry")
  /\ registryTemp' = loaded[c].registry \cup {task[c]}
  /\ Touch(c, Writing) /\ Goto(c, "tempHistory")
  /\ UNCHANGED <<files, cardTemps, historyTemp, memory, stops, ghosts>>

WriteHistoryTemp(c) ==
  /\ At(c, "tempHistory")
  /\ historyTemp' = loaded[c].history \cup {task[c]}
  /\ Touch(c, Writing) /\ Goto(c, "card")
  /\ UNCHANGED <<files, cardTemps, registryTemp, memory, stops, ghosts>>

\* Variant: the active card itself is moved, before the other files.
MoveCard(c) ==
  /\ At(c, "card") /\ task[c] \in cardTemps
  /\ completed' = completed \cup {task[c]}
  /\ active' = active \ {task[c]}
  /\ cardTemps' = cardTemps \ {task[c]}
  /\ Touch(c, Writing) /\ Goto(c, "registry")
  /\ UNCHANGED <<registry, history, registryTemp, historyTemp, memory, stops, ghosts>>

PublishCard(c) ==
  /\ At(c, "card") /\ task[c] \in cardTemps
  /\ completed' = completed \cup {task[c]}
  /\ cardTemps' = cardTemps \ {task[c]}
  /\ Touch(c, Writing) /\ Goto(c, "registry")
  /\ UNCHANGED <<active, registry, history, registryTemp, historyTemp, memory,
                 stops, ghosts>>

PublishRegistry(c) ==
  /\ At(c, "registry") /\ registryTemp # Absent
  /\ registry' = registryTemp /\ registryTemp' = Absent
  /\ Touch(c, Writing) /\ Goto(c, "history")
  /\ UNCHANGED <<active, completed, history, cardTemps, historyTemp, memory,
                 stops, ghosts>>

PublishHistory(c) ==
  /\ At(c, "history") /\ historyTemp # Absent
  /\ history' = historyTemp /\ historyTemp' = Absent
  /\ Touch(c, Writing \cup Parsing) /\ Goto(c, "unlink")
  /\ UNCHANGED <<active, completed, registry, cardTemps, registryTemp, memory,
                 stops, ghosts>>

\* The last step, after which the completion is reported.
RemoveActive(c) ==
  /\ At(c, "unlink") /\ task[c] \in active
  /\ active' = active \ {task[c]}
  /\ reported' = reported \cup {task[c]}
  /\ Touch(c, Writing) /\ Return(c)
  /\ UNCHANGED <<completed, registry, history, temps, stops, left>>

\* A file of this step is gone: another caller used it, or removed it.
Missing(c) ==
  \/ At(c, "card") /\ task[c] \notin cardTemps
  \/ At(c, "registry") /\ registryTemp = Absent
  \/ At(c, "history") /\ historyTemp = Absent
  \/ At(c, "unlink") /\ task[c] \notin active

-----------------------------------------------------------------------------
(* Undoing.  Each restoration is one step here; in the code it is a file   *)
(* .naos-rollback, written and renamed.                                    *)

PublicationFails(c) ==
  /\ pc[c] \in {"card", "registry", "history", "unlink"}
  /\ \/ Missing(c) /\ UNCHANGED stops
     \/ stops < MaxStops /\ stops' = stops + 1
  /\ Goto(c, "undo")
  /\ UNCHANGED <<files, temps, memory, ghosts, overlapped>>

RemoveTemps(c) ==
  /\ At(c, "undo")
  /\ cardTemps' = cardTemps \ {task[c]}
  /\ registryTemp' = Absent /\ historyTemp' = Absent
  /\ Touch(c, Writing) /\ Goto(c, "undoRegistry")
  /\ UNCHANGED <<files, memory, stops, ghosts>>

RestoreRegistry(c) ==
  /\ At(c, "undoRegistry")
  /\ registry' = original[c].registry
  /\ Touch(c, Writing) /\ Goto(c, "undoHistory")
  /\ UNCHANGED <<active, completed, history, temps, memory, stops, ghosts>>

\* Variant: the history is not put back.
KeepHistory(c) ==
  /\ At(c, "undoHistory")
  /\ Touch(c, Writing) /\ Goto(c, "undoCard")
  /\ UNCHANGED <<files, temps, memory, stops, ghosts>>

\* Variant: it is put back from the temporary file.
RestoreHistoryFromTemp(c) ==
  /\ At(c, "undoHistory")
  /\ history' = historyTemp
  /\ Touch(c, Writing \cup Parsing) /\ Goto(c, "undoCard")
  /\ UNCHANGED <<active, completed, registry, temps, memory, stops, ghosts>>

RestoreHistory(c) ==
  /\ At(c, "undoHistory")
  /\ history' = original[c].history
  /\ Touch(c, Writing \cup Parsing) /\ Goto(c, "undoCard")
  /\ UNCHANGED <<active, completed, registry, temps, memory, stops, ghosts>>

RestoreCard(c) ==
  /\ At(c, "undoCard")
  /\ active' = active \cup {task[c]}
  /\ Touch(c, Writing) /\ Goto(c, "undoCompleted")
  /\ UNCHANGED <<completed, registry, history, temps, memory, stops, ghosts>>

RemoveCompleted(c) ==
  /\ At(c, "undoCompleted")
  /\ completed' = completed \ {task[c]}
  /\ Touch(c, Writing) /\ Return(c)
  /\ UNCHANGED <<active, registry, history, temps, stops, ghosts>>

-----------------------------------------------------------------------------
\* The process dies, an exception leaves the temporary files behind, or an
\* undoing step fails and the ones after it are not taken.
Stop(c) ==
  /\ pc[c] \in Writing /\ stops < MaxStops
  /\ stops' = stops + 1
  /\ left' = IF pc[c] \in {"tempCard", "tempRegistry", "tempHistory"} THEN left
             ELSE left \cup {task[c]}
  /\ Return(c)
  /\ UNCHANGED <<files, temps, reported, overlapped>>

Complete(c) ==
  \/ \E t \in Tasks : Resolve(c, t)
  \/ LoadHistory(c) \/ ReadRegistry(c) \/ ReadHistory(c) \/ Recheck(c) \/ Refuse(c)
  \/ WriteCardTemp(c) \/ WriteRegistryTemp(c) \/ WriteHistoryTemp(c)
  \/ PublishCard(c) \/ PublishRegistry(c) \/ PublishHistory(c) \/ RemoveActive(c)

Undo(c) ==
  \/ PublicationFails(c) \/ RemoveTemps(c) \/ RestoreRegistry(c)
  \/ RestoreHistory(c) \/ RestoreCard(c) \/ RemoveCompleted(c)

Next == \E c \in Callers : Complete(c) \/ Undo(c) \/ Stop(c)

Spec == Init /\ [][Next]_vars

-----------------------------------------------------------------------------
(* The card, the registry and the history agree about every task at rest,  *)
(* unless a call stopped on it or calls overlapped: a call that fails has  *)
(* put everything back, and what one call computed from is not what        *)
(* another one has replaced since.                                         *)
AtRest(t) == \A c \in Callers : task[c] = t => pc[c] \notin Writing

Agree(t) ==
  /\ t \in completed <=> t \in registry
  /\ t \in completed <=> t \in history
  /\ t \in completed <=> t \notin active

RestAgrees == overlapped \/ \A t \in Tasks : AtRest(t) => t \in left \/ Agree(t)

(* Wherever a call stops, a task without an active card is wholly          *)
(* completed: nothing looks finished before its record is in place.        *)
ActiveGoesLast ==
  overlapped \/ \A t \in Tasks :
    t \notin active => t \in completed /\ t \in registry /\ t \in history

(* A completion that was reported stays, whatever fails and stops later.   *)
ReportedKept ==
  overlapped \/ reported \subseteq (completed \cap registry \cap history) \ active

(* "Native completion atomically preserves the card content": a task       *)
(* always has its card, in active/ or in completed/.                       *)
CardKept == \A t \in Tasks : t \in active \cup completed
=============================================================================
