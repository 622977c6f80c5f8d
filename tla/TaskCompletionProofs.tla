------------------------- MODULE TaskCompletionProofs -------------------------
(***************************************************************************)
(* Proofs about TaskCompletion, for any callers, tasks and bounds: as long *)
(* as no two calls overlap, each call finds the files as its own steps     *)
(* left them, and what it would put back is what the others rely on.       *)
(***************************************************************************)
EXTENDS TaskCompletion, TLAPS

UndoneRegistry == {"undoHistory", "undoCard", "undoCompleted"}
UndoneHistory == {"undoCard", "undoCompleted"}

\* The registry and the history that caller c publishes.
NewRegistry(c) == original[c].registry \cup {task[c]}
NewHistory(c) == original[c].history \cup {task[c]}

\* How far the files are on the way of caller c.
Placed(c) ==
  /\ registry \in {original[c].registry, NewRegistry(c)}
  /\ history \in {original[c].history, NewHistory(c)}
  /\ pc[c] \in {"tempCard", "tempRegistry", "tempHistory", "card"} =>
       /\ registry = original[c].registry /\ history = original[c].history
       /\ task[c] \notin completed
  /\ pc[c] \in {"registry", "history", "unlink"} => task[c] \in completed
  /\ pc[c] \in {"history", "unlink"} => registry = NewRegistry(c)
  /\ pc[c] = "unlink" => history = NewHistory(c)
  /\ pc[c] \in UndoneRegistry => registry = original[c].registry
  /\ pc[c] \in UndoneHistory => history = original[c].history
  /\ pc[c] \in {"tempHistory", "card", "registry"} => registryTemp = NewRegistry(c)
  /\ pc[c] \in {"card", "registry", "history"} => historyTemp = NewHistory(c)

\* What caller c may rely on while it writes.
Owned(c) ==
  /\ task[c] \in active
  /\ task[c] \notin original[c].registry /\ task[c] \notin original[c].history
  /\ Tasks \ active \subseteq original[c].registry \cap original[c].history
  /\ Placed(c)

Caller(c) ==
  /\ pc[c] # "idle" => task[c] \notin loaded[c].registry
  /\ pc[c] \in Parsing => loaded[c].history = history
  /\ pc[c] \in {"recheck"} \cup Writing => original[c] = loaded[c]
  /\ pc[c] \in Writing => Owned(c)

Finished == \A t \in Tasks :
  t \notin active => t \in completed /\ t \in registry /\ t \in history
Agreed == \A t \in Tasks : AtRest(t) => t \in left \/ Agree(t)
Kept == reported \cap active = {}

Undisturbed == Finished /\ Agreed /\ Kept /\ \A c \in Callers : Caller(c)

\* The inductive invariant.
IInv == TypeOK /\ (overlapped \/ Undisturbed)

-----------------------------------------------------------------------------
LEMMA TouchTyped ==
  ASSUME TypeOK, NEW c \in Callers, NEW S, Touch(c, S)
  PROVE  overlapped' \in BOOLEAN
<1>1. overlapped \in BOOLEAN
  BY DEF TypeOK
<1> QED BY <1>1 DEF Touch

LEMMA ReturnTyped ==
  ASSUME TypeOK, NEW c \in Callers, Return(c)
  PROVE  /\ pc' \in [Callers -> {"idle", "loadHistory", "recheck"} \cup Parsing \cup Writing]
         /\ task' \in [Callers -> Tasks]
         /\ loaded' \in [Callers -> [registry : Contents, history : Contents]]
         /\ original' \in [Callers -> [registry : Contents, history : Contents]]
<1>1. Nothing \in [registry : Contents, history : Contents]
  BY DEF Nothing, Contents
<1> QED BY <1>1 DEF TypeOK, Return, Goto

LEMMA TypeStep == TypeOK /\ [Next]_vars => TypeOK'
<1> SUFFICES ASSUME TypeOK, [Next]_vars PROVE TypeOK'
  OBVIOUS
<1>1. CASE UNCHANGED vars
  BY <1>1 DEF TypeOK, vars, files, temps, memory, ghosts
<1>2. ASSUME NEW c \in Callers, NEW t \in Tasks, Resolve(c, t)
      PROVE  TypeOK'
  BY <1>2 DEF Resolve, TypeOK, files, temps, memory, ghosts, Goto, At,
     Parsing, Writing, Publishing, Undoing, Contents, Absent
<1>3. ASSUME NEW c \in Callers, LoadHistory(c)
      PROVE  TypeOK'
  BY <1>3 DEF LoadHistory, TypeOK, files, temps, memory, ghosts, Goto, At,
     Parsing, Writing, Publishing, Undoing, Contents, Absent
<1>4. ASSUME NEW c \in Callers, ReadRegistry(c)
      PROVE  TypeOK'
  BY <1>4 DEF ReadRegistry, TypeOK, files, temps, memory, ghosts, Goto,
     At, Parsing, Writing, Publishing, Undoing, Contents, Absent
<1>5. ASSUME NEW c \in Callers, ReadHistory(c)
      PROVE  TypeOK'
  BY <1>5 DEF ReadHistory, TypeOK, files, temps, memory, ghosts, Goto, At,
     Parsing, Writing, Publishing, Undoing, Contents, Absent
<1>6. ASSUME NEW c \in Callers, Recheck(c)
      PROVE  TypeOK'
  BY <1>6 DEF Recheck, TypeOK, files, temps, memory, ghosts, Goto, At,
     Parsing, Writing, Publishing, Undoing, Contents, Absent
<1>7. ASSUME NEW c \in Callers, Refuse(c)
      PROVE  TypeOK'
  BY <1>7, ReturnTyped DEF Refuse, TypeOK, files, temps, memory, ghosts,
     At, Parsing, Writing, Publishing, Undoing, Contents, Absent
<1>8. ASSUME NEW c \in Callers, WriteCardTemp(c)
      PROVE  TypeOK'
  BY <1>8, TouchTyped DEF WriteCardTemp, TypeOK, files, temps, memory,
     ghosts, Goto, At, Parsing, Writing, Publishing, Undoing, Contents,
     Absent
<1>9. ASSUME NEW c \in Callers, WriteRegistryTemp(c)
      PROVE  TypeOK'
  BY <1>9, TouchTyped DEF WriteRegistryTemp, TypeOK, files, temps, memory,
     ghosts, Goto, At, Parsing, Writing, Publishing, Undoing, Contents,
     Absent
<1>10. ASSUME NEW c \in Callers, WriteHistoryTemp(c)
      PROVE  TypeOK'
  BY <1>10, TouchTyped DEF WriteHistoryTemp, TypeOK, files, temps, memory,
     ghosts, Goto, At, Parsing, Writing, Publishing, Undoing, Contents,
     Absent
<1>11. ASSUME NEW c \in Callers, PublishCard(c)
      PROVE  TypeOK'
  BY <1>11, TouchTyped DEF PublishCard, TypeOK, files, temps, memory,
     ghosts, Goto, At, Parsing, Writing, Publishing, Undoing, Contents,
     Absent
<1>12. ASSUME NEW c \in Callers, PublishRegistry(c)
      PROVE  TypeOK'
  BY <1>12, TouchTyped DEF PublishRegistry, TypeOK, files, temps, memory,
     ghosts, Goto, At, Parsing, Writing, Publishing, Undoing, Contents,
     Absent
<1>13. ASSUME NEW c \in Callers, PublishHistory(c)
      PROVE  TypeOK'
  BY <1>13, TouchTyped DEF PublishHistory, TypeOK, files, temps, memory,
     ghosts, Goto, At, Parsing, Writing, Publishing, Undoing, Contents,
     Absent
<1>14. ASSUME NEW c \in Callers, RemoveActive(c)
      PROVE  TypeOK'
  BY <1>14, TouchTyped, ReturnTyped DEF RemoveActive, TypeOK, files,
     temps, memory, ghosts, At, Parsing, Writing, Publishing, Undoing,
     Contents, Absent
<1>15. ASSUME NEW c \in Callers, PublicationFails(c)
      PROVE  TypeOK'
  <2>1. stops' \in 0..MaxStops
    BY <1>15, CompletionAssumption DEF PublicationFails, TypeOK
  <2> QED
    BY <1>15, <2>1 DEF PublicationFails, TypeOK, files, temps, memory,
       ghosts, Goto, At, Parsing, Writing, Publishing, Undoing,
       Contents, Absent
<1>16. ASSUME NEW c \in Callers, RemoveTemps(c)
      PROVE  TypeOK'
  BY <1>16, TouchTyped DEF RemoveTemps, TypeOK, files, temps, memory,
     ghosts, Goto, At, Parsing, Writing, Publishing, Undoing, Contents,
     Absent
<1>17. ASSUME NEW c \in Callers, RestoreRegistry(c)
      PROVE  TypeOK'
  BY <1>17, TouchTyped DEF RestoreRegistry, TypeOK, files, temps, memory,
     ghosts, Goto, At, Parsing, Writing, Publishing, Undoing, Contents,
     Absent
<1>18. ASSUME NEW c \in Callers, RestoreHistory(c)
      PROVE  TypeOK'
  BY <1>18, TouchTyped DEF RestoreHistory, TypeOK, files, temps, memory,
     ghosts, Goto, At, Parsing, Writing, Publishing, Undoing, Contents,
     Absent
<1>19. ASSUME NEW c \in Callers, RestoreCard(c)
      PROVE  TypeOK'
  BY <1>19, TouchTyped DEF RestoreCard, TypeOK, files, temps, memory,
     ghosts, Goto, At, Parsing, Writing, Publishing, Undoing, Contents,
     Absent
<1>20. ASSUME NEW c \in Callers, RemoveCompleted(c)
      PROVE  TypeOK'
  BY <1>20, TouchTyped, ReturnTyped DEF RemoveCompleted, TypeOK, files,
     temps, memory, ghosts, At, Parsing, Writing, Publishing, Undoing,
     Contents, Absent
<1>21. ASSUME NEW c \in Callers, Stop(c)
      PROVE  TypeOK'
  <2>1. stops' \in 0..MaxStops
    BY <1>21, CompletionAssumption DEF Stop, TypeOK
  <2>2. left' \subseteq Tasks
    BY <1>21 DEF Stop, TypeOK
  <2> QED
    BY <1>21, <2>1, <2>2, ReturnTyped DEF Stop, TypeOK, files, temps,
       memory, ghosts, At, Parsing, Writing, Publishing, Undoing,
       Contents, Absent
<1> QED
  BY <1>1, <1>2, <1>3, <1>4, <1>5, <1>6, <1>7, <1>8, <1>9, <1>10, <1>11,
     <1>12, <1>13, <1>14, <1>15, <1>16, <1>17, <1>18, <1>19, <1>20, <1>21
     DEF Next, Complete, Undo

-----------------------------------------------------------------------------
\* The other callers are where they were.
Alone(c) ==
  \A d \in Callers \ {c} :
    /\ pc'[d] = pc[d] /\ task'[d] = task[d]
    /\ loaded'[d] = loaded[d] /\ original'[d] = original[d]

LEMMA GotoAlone ==
  ASSUME TypeOK, NEW c \in Callers, NEW step, Goto(c, step),
         UNCHANGED memory \/ Return(c)
  PROVE  Alone(c) /\ pc'[c] = step /\ task' = task
BY DEF TypeOK, Goto, Return, memory, Alone

LEMMA TouchAlone ==
  ASSUME NEW c \in Callers, NEW S, Touch(c, S), ~overlapped'
  PROVE  ~overlapped /\ \A d \in Callers \ {c} : pc[d] \notin S
BY DEF Touch

\* Caller c changed no file.
LEMMA ReadKeeps ==
  ASSUME TypeOK, Undisturbed, NEW c \in Callers, UNCHANGED <<files, temps, ghosts>>,
         Alone(c), Caller(c)',
         pc[c] \in Writing => pc'[c] \in Writing /\ task'[c] = task[c]
  PROVE  Undisturbed'
<1>1. \A d \in Callers : Caller(d)'
  <2>1. ASSUME NEW d \in Callers \ {c}
        PROVE  Caller(d)'
    <3>1. Caller(d)
      BY DEF Undisturbed
    <3> QED BY <3>1 DEF Alone, Caller, Owned, Placed, NewRegistry, NewHistory,
               files, temps
  <2> QED BY <2>1
<1>2. ASSUME NEW t \in Tasks, AtRest(t)'
      PROVE  AtRest(t)
  BY <1>2 DEF AtRest, Alone
<1>3. Agreed'
  BY <1>2 DEF Undisturbed, Agreed, Agree, files, ghosts
<1> QED BY <1>1, <1>3 DEF Undisturbed, Finished, Kept, files, ghosts

\* Caller c stopped, or ended, with the files as they are.
LEMMA StopKeeps ==
  ASSUME TypeOK, Undisturbed, NEW c \in Callers, UNCHANGED <<files, temps, reported>>,
         Alone(c), task' = task, pc'[c] = "idle", left \subseteq left',
         task[c] \in left' \/ Agree(task[c])
  PROVE  Undisturbed'
<1>1. \A d \in Callers : Caller(d)'
  <2>1. ASSUME NEW d \in Callers \ {c}
        PROVE  Caller(d)'
    <3>1. Caller(d)
      BY DEF Undisturbed
    <3> QED BY <3>1 DEF Alone, Caller, Owned, Placed, NewRegistry, NewHistory,
               files, temps
  <2>2. Caller(c)'
    BY DEF Caller, Parsing, Writing, Publishing, Undoing
  <2> QED BY <2>1, <2>2
<1>2. ASSUME NEW t \in Tasks \ {task[c]}, AtRest(t)'
      PROVE  AtRest(t)
  BY <1>2 DEF AtRest, Alone
<1>3. Agreed'
  BY <1>2 DEF Undisturbed, Agreed, Agree, files
<1> QED BY <1>1, <1>3 DEF Undisturbed, Finished, Kept, files

\* Caller c changed files, for its own task only and undisturbed.
LEMMA WriteKeeps ==
  ASSUME TypeOK, Undisturbed, NEW c \in Callers, Alone(c), task' = task,
         UNCHANGED left,
         \A d \in Callers \ {c} :
           pc[d] \notin Writing /\ (history' = history \/ pc[d] \notin Parsing),
         \A t \in Tasks \ {task[c]} :
           /\ t \in active' <=> t \in active
           /\ t \in completed' <=> t \in completed
           /\ t \in registry' <=> t \in registry
           /\ t \in history' <=> t \in history,
         Caller(c)', pc'[c] \in Writing \/ Agree(task[c])',
         \/ task[c] \in active'
         \/ task[c] \in completed' /\ task[c] \in registry' /\ task[c] \in history',
         Kept'
  PROVE  Undisturbed'
<1>1. \A d \in Callers : Caller(d)'
  <2>1. ASSUME NEW d \in Callers \ {c}
        PROVE  Caller(d)'
    <3>1. Caller(d)
      BY DEF Undisturbed
    <3> QED BY <3>1 DEF Alone, Caller
  <2> QED BY <2>1
<1>2. Finished'
  BY DEF Undisturbed, Finished
<1>3. Agreed'
  <2>1. ASSUME NEW t \in Tasks, AtRest(t)'
        PROVE  t \in left' \/ Agree(t)'
    <3>1. CASE t = task[c]
      BY <2>1, <3>1 DEF AtRest
    <3>2. CASE t # task[c]
      <4>1. AtRest(t)
        BY <2>1, <3>2 DEF AtRest, Alone
      <4> QED BY <3>2, <4>1 DEF Undisturbed, Agreed, Agree
    <3> QED BY <3>1, <3>2
  <2> QED BY <2>1 DEF Agreed
<1> QED BY <1>1, <1>2, <1>3 DEF Undisturbed

-----------------------------------------------------------------------------
LEMMA LookingKept ==
  ASSUME TypeOK, Undisturbed, NEW c \in Callers,
         \/ \E t \in Tasks : Resolve(c, t)
         \/ LoadHistory(c) \/ ReadRegistry(c) \/ ReadHistory(c) \/ Refuse(c)
  PROVE  Undisturbed'
<1>1. Caller(c)
  BY DEF Undisturbed
<1>2. ASSUME NEW t \in Tasks, Resolve(c, t)
      PROVE  Alone(c) /\ Caller(c)' /\ pc[c] \notin Writing
  BY <1>2 DEF TypeOK, Resolve, At, Goto, Alone, Caller, Parsing, Writing, Publishing,
     Undoing
<1>3. CASE LoadHistory(c)
  <2>1. Alone(c) /\ pc[c] = "loadHistory" /\ pc'[c] = "readRegistry"
    BY <1>3 DEF TypeOK, LoadHistory, At, Goto, Alone
  <2>2. Caller(c)'
    BY <1>1, <1>3, <2>1
    DEF TypeOK, LoadHistory, files, Caller, Parsing, Writing, Publishing, Undoing
  <2> QED BY <1>3, <2>1, <2>2, ReadKeeps
          DEF LoadHistory, Writing, Publishing, Undoing
<1>4. CASE ReadRegistry(c)
  <2>1. Alone(c) /\ pc[c] = "readRegistry" /\ pc'[c] = "readHistory"
    BY <1>4 DEF TypeOK, ReadRegistry, At, Goto, Alone
  <2>2. Caller(c)'
    BY <1>1, <1>4, <2>1
    DEF TypeOK, ReadRegistry, files, Caller, Parsing, Writing, Publishing, Undoing
  <2> QED BY <1>4, <2>1, <2>2, ReadKeeps
          DEF ReadRegistry, Writing, Publishing, Undoing
<1>5. CASE ReadHistory(c)
  <2>1. /\ Alone(c) /\ pc[c] = "readHistory" /\ pc'[c] = "recheck"
        /\ UNCHANGED <<task, loaded>>
        /\ original'[c] = [original[c] EXCEPT !.history = history]
    BY <1>5 DEF TypeOK, ReadHistory, At, Goto, Alone
  <2>2. loaded[c].history = history /\ original[c].registry = loaded[c].registry
    BY <1>1, <1>5, <2>1 DEF Caller, Parsing, ReadHistory
  <2>3. original'[c] = loaded[c]
    <3>1. /\ loaded[c] \in [registry : Contents, history : Contents]
          /\ original[c] \in [registry : Contents, history : Contents]
      BY DEF TypeOK
    <3> QED BY <2>1, <2>2, <3>1
  <2>4. Caller(c)'
    BY <1>1, <2>1, <2>3 DEF Caller, Parsing, Writing, Publishing, Undoing
  <2> QED BY <1>5, <2>1, <2>4, ReadKeeps
          DEF ReadHistory, Writing, Publishing, Undoing
<1>6. CASE Refuse(c)
  <2>1. Alone(c) /\ pc'[c] = "idle" /\ pc[c] \notin Writing
    BY <1>6 DEF TypeOK, Refuse, Return, Goto, Alone, Parsing, Writing, Publishing,
       Undoing
  <2>2. Caller(c)'
    BY <2>1 DEF Caller, Parsing, Writing, Publishing, Undoing
  <2> QED BY <1>6, <2>1, <2>2, ReadKeeps DEF Refuse
<1>7. ASSUME NEW t \in Tasks, Resolve(c, t)
      PROVE  Undisturbed'
  BY <1>2, <1>7, ReadKeeps DEF Resolve
<1> QED BY <1>3, <1>4, <1>5, <1>6, <1>7

\* After the recheck the files are those that the call computed from.
LEMMA RecheckKept ==
  ASSUME TypeOK, Undisturbed, NEW c \in Callers, Recheck(c) \/ PublicationFails(c)
  PROVE  Undisturbed'
<1>1. Caller(c)
  BY DEF Undisturbed
<1>2. CASE Recheck(c)
  <2>1. /\ Alone(c) /\ pc[c] = "recheck" /\ pc'[c] = "tempCard"
        /\ UNCHANGED <<files, temps, memory, ghosts>>
    BY <1>2 DEF TypeOK, Recheck, At, Goto, Alone, memory
  <2>2. /\ task[c] \notin loaded[c].registry /\ original[c] = loaded[c]
        /\ registry = original[c].registry /\ history = original[c].history
        /\ task[c] \in active /\ task[c] \notin completed \cup history
    BY <1>1, <1>2, <2>1 DEF TypeOK, Caller, Recheck, InputsUnchanged, Inconsistent
  <2>3. Tasks \ active \subseteq registry \cap history
    BY DEF Undisturbed, Finished
  <2>4. Owned(c)'
    BY <2>1, <2>2, <2>3 DEF Owned, Placed, UndoneRegistry, UndoneHistory, files, memory
  <2>5. Caller(c)'
    BY <2>1, <2>2, <2>4 DEF Caller, Parsing, memory
  <2> QED BY <2>1, <2>5, ReadKeeps DEF Writing, Publishing, Undoing
<1>3. CASE PublicationFails(c)
  <2>1. /\ Alone(c) /\ pc[c] \in Writing /\ pc'[c] = "undo" /\ pc[c] # "idle"
        /\ UNCHANGED <<files, temps, memory, ghosts>>
    BY <1>3 DEF TypeOK, PublicationFails, Goto, Alone, memory, Writing, Publishing
  <2>2. Owned(c)'
    BY <1>1, <2>1 DEF Caller, Owned, Placed, NewRegistry, NewHistory, UndoneRegistry,
       UndoneHistory, files, memory
  <2>3. Caller(c)'
    BY <1>1, <2>1, <2>2 DEF Caller, Parsing, memory
  <2> QED BY <2>1, <2>3, ReadKeeps DEF Writing, Undoing, memory
<1> QED BY <1>2, <1>3

LEMMA StopKept ==
  ASSUME TypeOK, Undisturbed, NEW c \in Callers, Stop(c)
  PROVE  Undisturbed'
<1>1. Alone(c) /\ pc'[c] = "idle" /\ task' = task /\ pc[c] \in Writing
  BY DEF TypeOK, Stop, Return, Goto, Alone
<1>2. UNCHANGED <<files, temps, reported>> /\ left \subseteq left'
  BY DEF Stop
<1>3. task[c] \in left' \/ Agree(task[c])
  <2>1. CASE pc[c] \in {"tempCard", "tempRegistry", "tempHistory"}
    <3>1. Owned(c)
      BY <1>1 DEF Undisturbed, Caller
    <3> QED BY <2>1, <3>1 DEF Owned, Placed, Agree
  <2>2. CASE pc[c] \notin {"tempCard", "tempRegistry", "tempHistory"}
    BY <2>2 DEF Stop
  <2> QED BY <2>1, <2>2
<1> QED BY <1>1, <1>2, <1>3, StopKeeps

LEMMA WriteCardTempKept ==
  ASSUME TypeOK, Undisturbed, NEW c \in Callers, WriteCardTemp(c), ~overlapped'
  PROVE  Undisturbed'
<1>1. /\ Alone(c) /\ pc[c] = "tempCard" /\ pc'[c] = "tempRegistry" /\ task' = task
      /\ UNCHANGED left
  BY GotoAlone DEF WriteCardTemp, At, ghosts
<1>2. \A d \in Callers \ {c} :
        pc[d] \notin Writing /\ (history' = history \/ pc[d] \notin Parsing)
  BY TouchAlone DEF WriteCardTemp, files
<1>3. Caller(c) /\ Owned(c) /\ original[c] = loaded[c]
  BY <1>1 DEF Undisturbed, Caller, Writing, Publishing, Undoing
<1>4. Caller(c)'
  <2>1. Owned(c)'
    BY <1>1, <1>3 DEF WriteCardTemp, TypeOK, Owned, Placed, NewRegistry,
       NewHistory, UndoneRegistry, UndoneHistory, memory, temps, files
  <2> QED BY <1>1, <1>3, <2>1 DEF Caller, Parsing, memory, WriteCardTemp
<1>5. /\ \A t \in Tasks \ {task[c]} :
           /\ t \in active' <=> t \in active
           /\ t \in completed' <=> t \in completed
           /\ t \in registry' <=> t \in registry
           /\ t \in history' <=> t \in history
      /\ \/ task[c] \in active'
         \/ task[c] \in completed' /\ task[c] \in registry' /\ task[c] \in history'
      /\ pc'[c] \in Writing \/ Agree(task[c])'
  BY <1>1, <1>3 DEF WriteCardTemp, TypeOK, Owned, Placed, NewRegistry,
     NewHistory, UndoneRegistry, UndoneHistory, files, Agree, Writing,
     Publishing, Undoing
<1>6. Kept'
  BY <1>3 DEF WriteCardTemp, Undisturbed, Kept, Owned, ghosts, files
<1> QED BY <1>1, <1>2, <1>4, <1>5, <1>6, WriteKeeps

LEMMA WriteRegistryTempKept ==
  ASSUME TypeOK, Undisturbed, NEW c \in Callers, WriteRegistryTemp(c), ~overlapped'
  PROVE  Undisturbed'
<1>1. /\ Alone(c) /\ pc[c] = "tempRegistry" /\ pc'[c] = "tempHistory" /\ task' = task
      /\ UNCHANGED left
  BY GotoAlone DEF WriteRegistryTemp, At, ghosts
<1>2. \A d \in Callers \ {c} :
        pc[d] \notin Writing /\ (history' = history \/ pc[d] \notin Parsing)
  BY TouchAlone DEF WriteRegistryTemp, files
<1>3. Caller(c) /\ Owned(c) /\ original[c] = loaded[c]
  BY <1>1 DEF Undisturbed, Caller, Writing, Publishing, Undoing
<1>4. Caller(c)'
  <2>1. Owned(c)'
    BY <1>1, <1>3 DEF WriteRegistryTemp, TypeOK, Owned, Placed,
       NewRegistry, NewHistory, UndoneRegistry, UndoneHistory, memory,
       temps, files
  <2> QED BY <1>1, <1>3, <2>1 DEF Caller, Parsing, memory, WriteRegistryTemp
<1>5. /\ \A t \in Tasks \ {task[c]} :
           /\ t \in active' <=> t \in active
           /\ t \in completed' <=> t \in completed
           /\ t \in registry' <=> t \in registry
           /\ t \in history' <=> t \in history
      /\ \/ task[c] \in active'
         \/ task[c] \in completed' /\ task[c] \in registry' /\ task[c] \in history'
      /\ pc'[c] \in Writing \/ Agree(task[c])'
  BY <1>1, <1>3 DEF WriteRegistryTemp, TypeOK, Owned, Placed, NewRegistry,
     NewHistory, UndoneRegistry, UndoneHistory, files, Agree, Writing,
     Publishing, Undoing
<1>6. Kept'
  BY <1>3 DEF WriteRegistryTemp, Undisturbed, Kept, Owned, ghosts, files
<1> QED BY <1>1, <1>2, <1>4, <1>5, <1>6, WriteKeeps

LEMMA WriteHistoryTempKept ==
  ASSUME TypeOK, Undisturbed, NEW c \in Callers, WriteHistoryTemp(c), ~overlapped'
  PROVE  Undisturbed'
<1>1. /\ Alone(c) /\ pc[c] = "tempHistory" /\ pc'[c] = "card" /\ task' = task
      /\ UNCHANGED left
  BY GotoAlone DEF WriteHistoryTemp, At, ghosts
<1>2. \A d \in Callers \ {c} :
        pc[d] \notin Writing /\ (history' = history \/ pc[d] \notin Parsing)
  BY TouchAlone DEF WriteHistoryTemp, files
<1>3. Caller(c) /\ Owned(c) /\ original[c] = loaded[c]
  BY <1>1 DEF Undisturbed, Caller, Writing, Publishing, Undoing
<1>4. Caller(c)'
  <2>1. Owned(c)'
    BY <1>1, <1>3 DEF WriteHistoryTemp, TypeOK, Owned, Placed,
       NewRegistry, NewHistory, UndoneRegistry, UndoneHistory, memory,
       temps, files
  <2> QED BY <1>1, <1>3, <2>1 DEF Caller, Parsing, memory, WriteHistoryTemp
<1>5. /\ \A t \in Tasks \ {task[c]} :
           /\ t \in active' <=> t \in active
           /\ t \in completed' <=> t \in completed
           /\ t \in registry' <=> t \in registry
           /\ t \in history' <=> t \in history
      /\ \/ task[c] \in active'
         \/ task[c] \in completed' /\ task[c] \in registry' /\ task[c] \in history'
      /\ pc'[c] \in Writing \/ Agree(task[c])'
  BY <1>1, <1>3 DEF WriteHistoryTemp, TypeOK, Owned, Placed, NewRegistry,
     NewHistory, UndoneRegistry, UndoneHistory, files, Agree, Writing,
     Publishing, Undoing
<1>6. Kept'
  BY <1>3 DEF WriteHistoryTemp, Undisturbed, Kept, Owned, ghosts, files
<1> QED BY <1>1, <1>2, <1>4, <1>5, <1>6, WriteKeeps

LEMMA PublishCardKept ==
  ASSUME TypeOK, Undisturbed, NEW c \in Callers, PublishCard(c), ~overlapped'
  PROVE  Undisturbed'
<1>1. /\ Alone(c) /\ pc[c] = "card" /\ pc'[c] = "registry" /\ task' = task
      /\ UNCHANGED left
  BY GotoAlone DEF PublishCard, At, ghosts
<1>2. \A d \in Callers \ {c} :
        pc[d] \notin Writing /\ (history' = history \/ pc[d] \notin Parsing)
  BY TouchAlone DEF PublishCard, files
<1>3. Caller(c) /\ Owned(c) /\ original[c] = loaded[c]
  BY <1>1 DEF Undisturbed, Caller, Writing, Publishing, Undoing
<1>4. Caller(c)'
  <2>1. Owned(c)'
    BY <1>1, <1>3 DEF PublishCard, TypeOK, Owned, Placed, NewRegistry,
       NewHistory, UndoneRegistry, UndoneHistory, memory, temps, files
  <2> QED BY <1>1, <1>3, <2>1 DEF Caller, Parsing, memory, PublishCard
<1>5. /\ \A t \in Tasks \ {task[c]} :
           /\ t \in active' <=> t \in active
           /\ t \in completed' <=> t \in completed
           /\ t \in registry' <=> t \in registry
           /\ t \in history' <=> t \in history
      /\ \/ task[c] \in active'
         \/ task[c] \in completed' /\ task[c] \in registry' /\ task[c] \in history'
      /\ pc'[c] \in Writing \/ Agree(task[c])'
  BY <1>1, <1>3 DEF PublishCard, TypeOK, Owned, Placed, NewRegistry,
     NewHistory, UndoneRegistry, UndoneHistory, files, Agree, Writing,
     Publishing, Undoing
<1>6. Kept'
  BY <1>3 DEF PublishCard, Undisturbed, Kept, Owned, ghosts, files
<1> QED BY <1>1, <1>2, <1>4, <1>5, <1>6, WriteKeeps

LEMMA PublishRegistryKept ==
  ASSUME TypeOK, Undisturbed, NEW c \in Callers, PublishRegistry(c), ~overlapped'
  PROVE  Undisturbed'
<1>1. /\ Alone(c) /\ pc[c] = "registry" /\ pc'[c] = "history" /\ task' = task
      /\ UNCHANGED left
  BY GotoAlone DEF PublishRegistry, At, ghosts
<1>2. \A d \in Callers \ {c} :
        pc[d] \notin Writing /\ (history' = history \/ pc[d] \notin Parsing)
  BY TouchAlone DEF PublishRegistry, files
<1>3. Caller(c) /\ Owned(c) /\ original[c] = loaded[c]
  BY <1>1 DEF Undisturbed, Caller, Writing, Publishing, Undoing
<1>4. Caller(c)'
  <2>1. Owned(c)'
    BY <1>1, <1>3 DEF PublishRegistry, TypeOK, Owned, Placed,
       NewRegistry, NewHistory, UndoneRegistry, UndoneHistory, memory,
       temps, files
  <2> QED BY <1>1, <1>3, <2>1 DEF Caller, Parsing, memory, PublishRegistry
<1>5. /\ \A t \in Tasks \ {task[c]} :
           /\ t \in active' <=> t \in active
           /\ t \in completed' <=> t \in completed
           /\ t \in registry' <=> t \in registry
           /\ t \in history' <=> t \in history
      /\ \/ task[c] \in active'
         \/ task[c] \in completed' /\ task[c] \in registry' /\ task[c] \in history'
      /\ pc'[c] \in Writing \/ Agree(task[c])'
  BY <1>1, <1>3 DEF PublishRegistry, TypeOK, Owned, Placed, NewRegistry,
     NewHistory, UndoneRegistry, UndoneHistory, files, Agree, Writing,
     Publishing, Undoing
<1>6. Kept'
  BY <1>3 DEF PublishRegistry, Undisturbed, Kept, Owned, ghosts, files
<1> QED BY <1>1, <1>2, <1>4, <1>5, <1>6, WriteKeeps

LEMMA PublishHistoryKept ==
  ASSUME TypeOK, Undisturbed, NEW c \in Callers, PublishHistory(c), ~overlapped'
  PROVE  Undisturbed'
<1>1. /\ Alone(c) /\ pc[c] = "history" /\ pc'[c] = "unlink" /\ task' = task
      /\ UNCHANGED left
  BY GotoAlone DEF PublishHistory, At, ghosts
<1>2. \A d \in Callers \ {c} :
        pc[d] \notin Writing /\ (history' = history \/ pc[d] \notin Parsing)
  BY TouchAlone DEF PublishHistory
<1>3. Caller(c) /\ Owned(c) /\ original[c] = loaded[c]
  BY <1>1 DEF Undisturbed, Caller, Writing, Publishing, Undoing
<1>4. Caller(c)'
  <2>1. Owned(c)'
    BY <1>1, <1>3 DEF PublishHistory, TypeOK, Owned, Placed,
       NewRegistry, NewHistory, UndoneRegistry, UndoneHistory, memory,
       temps, files
  <2> QED BY <1>1, <1>3, <2>1 DEF Caller, Parsing, memory, PublishHistory
<1>5. /\ \A t \in Tasks \ {task[c]} :
           /\ t \in active' <=> t \in active
           /\ t \in completed' <=> t \in completed
           /\ t \in registry' <=> t \in registry
           /\ t \in history' <=> t \in history
      /\ \/ task[c] \in active'
         \/ task[c] \in completed' /\ task[c] \in registry' /\ task[c] \in history'
      /\ pc'[c] \in Writing \/ Agree(task[c])'
  BY <1>1, <1>3 DEF PublishHistory, TypeOK, Owned, Placed, NewRegistry,
     NewHistory, UndoneRegistry, UndoneHistory, files, Agree, Writing,
     Publishing, Undoing
<1>6. Kept'
  BY <1>3 DEF PublishHistory, Undisturbed, Kept, Owned, ghosts, files
<1> QED BY <1>1, <1>2, <1>4, <1>5, <1>6, WriteKeeps

LEMMA RemoveActiveKept ==
  ASSUME TypeOK, Undisturbed, NEW c \in Callers, RemoveActive(c), ~overlapped'
  PROVE  Undisturbed'
<1>1. /\ Alone(c) /\ pc[c] = "unlink" /\ pc'[c] = "idle" /\ task' = task
      /\ UNCHANGED left
  BY GotoAlone DEF RemoveActive, At, ghosts, Return
<1>2. \A d \in Callers \ {c} :
        pc[d] \notin Writing /\ (history' = history \/ pc[d] \notin Parsing)
  BY TouchAlone DEF RemoveActive, files
<1>3. Caller(c) /\ Owned(c) /\ original[c] = loaded[c]
  BY <1>1 DEF Undisturbed, Caller, Writing, Publishing, Undoing
<1>4. Caller(c)'
  BY <1>1 DEF Caller, Parsing, Writing, Publishing, Undoing
<1>5. /\ \A t \in Tasks \ {task[c]} :
           /\ t \in active' <=> t \in active
           /\ t \in completed' <=> t \in completed
           /\ t \in registry' <=> t \in registry
           /\ t \in history' <=> t \in history
      /\ \/ task[c] \in active'
         \/ task[c] \in completed' /\ task[c] \in registry' /\ task[c] \in history'
      /\ pc'[c] \in Writing \/ Agree(task[c])'
  BY <1>1, <1>3 DEF RemoveActive, TypeOK, Owned, Placed, NewRegistry,
     NewHistory, UndoneRegistry, UndoneHistory, files, Agree, Writing,
     Publishing, Undoing
<1>6. Kept'
  BY <1>3 DEF RemoveActive, Undisturbed, Kept, Owned, ghosts, files
<1> QED BY <1>1, <1>2, <1>4, <1>5, <1>6, WriteKeeps

LEMMA RemoveTempsKept ==
  ASSUME TypeOK, Undisturbed, NEW c \in Callers, RemoveTemps(c), ~overlapped'
  PROVE  Undisturbed'
<1>1. /\ Alone(c) /\ pc[c] = "undo" /\ pc'[c] = "undoRegistry" /\ task' = task
      /\ UNCHANGED left
  BY GotoAlone DEF RemoveTemps, At, ghosts
<1>2. \A d \in Callers \ {c} :
        pc[d] \notin Writing /\ (history' = history \/ pc[d] \notin Parsing)
  BY TouchAlone DEF RemoveTemps, files
<1>3. Caller(c) /\ Owned(c) /\ original[c] = loaded[c]
  BY <1>1 DEF Undisturbed, Caller, Writing, Publishing, Undoing
<1>4. Caller(c)'
  <2>1. Owned(c)'
    BY <1>1, <1>3 DEF RemoveTemps, TypeOK, Owned, Placed, NewRegistry,
       NewHistory, UndoneRegistry, UndoneHistory, memory, temps, files
  <2> QED BY <1>1, <1>3, <2>1 DEF Caller, Parsing, memory, RemoveTemps
<1>5. /\ \A t \in Tasks \ {task[c]} :
           /\ t \in active' <=> t \in active
           /\ t \in completed' <=> t \in completed
           /\ t \in registry' <=> t \in registry
           /\ t \in history' <=> t \in history
      /\ \/ task[c] \in active'
         \/ task[c] \in completed' /\ task[c] \in registry' /\ task[c] \in history'
      /\ pc'[c] \in Writing \/ Agree(task[c])'
  BY <1>1, <1>3 DEF RemoveTemps, TypeOK, Owned, Placed, NewRegistry,
     NewHistory, UndoneRegistry, UndoneHistory, files, Agree, Writing,
     Publishing, Undoing
<1>6. Kept'
  BY <1>3 DEF RemoveTemps, Undisturbed, Kept, Owned, ghosts, files
<1> QED BY <1>1, <1>2, <1>4, <1>5, <1>6, WriteKeeps

LEMMA RestoreRegistryKept ==
  ASSUME TypeOK, Undisturbed, NEW c \in Callers, RestoreRegistry(c), ~overlapped'
  PROVE  Undisturbed'
<1>1. /\ Alone(c) /\ pc[c] = "undoRegistry" /\ pc'[c] = "undoHistory" /\ task' = task
      /\ UNCHANGED left
  BY GotoAlone DEF RestoreRegistry, At, ghosts
<1>2. \A d \in Callers \ {c} :
        pc[d] \notin Writing /\ (history' = history \/ pc[d] \notin Parsing)
  BY TouchAlone DEF RestoreRegistry, files
<1>3. Caller(c) /\ Owned(c) /\ original[c] = loaded[c]
  BY <1>1 DEF Undisturbed, Caller, Writing, Publishing, Undoing
<1>4. Caller(c)'
  <2>1. Owned(c)'
    BY <1>1, <1>3 DEF RestoreRegistry, TypeOK, Owned, Placed,
       NewRegistry, NewHistory, UndoneRegistry, UndoneHistory, memory,
       temps, files
  <2> QED BY <1>1, <1>3, <2>1 DEF Caller, Parsing, memory, RestoreRegistry
<1>5. /\ \A t \in Tasks \ {task[c]} :
           /\ t \in active' <=> t \in active
           /\ t \in completed' <=> t \in completed
           /\ t \in registry' <=> t \in registry
           /\ t \in history' <=> t \in history
      /\ \/ task[c] \in active'
         \/ task[c] \in completed' /\ task[c] \in registry' /\ task[c] \in history'
      /\ pc'[c] \in Writing \/ Agree(task[c])'
  BY <1>1, <1>3 DEF RestoreRegistry, TypeOK, Owned, Placed, NewRegistry,
     NewHistory, UndoneRegistry, UndoneHistory, files, Agree, Writing,
     Publishing, Undoing
<1>6. Kept'
  BY <1>3 DEF RestoreRegistry, Undisturbed, Kept, Owned, ghosts, files
<1> QED BY <1>1, <1>2, <1>4, <1>5, <1>6, WriteKeeps

LEMMA RestoreHistoryKept ==
  ASSUME TypeOK, Undisturbed, NEW c \in Callers, RestoreHistory(c), ~overlapped'
  PROVE  Undisturbed'
<1>1. /\ Alone(c) /\ pc[c] = "undoHistory" /\ pc'[c] = "undoCard" /\ task' = task
      /\ UNCHANGED left
  BY GotoAlone DEF RestoreHistory, At, ghosts
<1>2. \A d \in Callers \ {c} :
        pc[d] \notin Writing /\ (history' = history \/ pc[d] \notin Parsing)
  BY TouchAlone DEF RestoreHistory
<1>3. Caller(c) /\ Owned(c) /\ original[c] = loaded[c]
  BY <1>1 DEF Undisturbed, Caller, Writing, Publishing, Undoing
<1>4. Caller(c)'
  <2>1. Owned(c)'
    BY <1>1, <1>3 DEF RestoreHistory, TypeOK, Owned, Placed,
       NewRegistry, NewHistory, UndoneRegistry, UndoneHistory, memory,
       temps, files
  <2> QED BY <1>1, <1>3, <2>1 DEF Caller, Parsing, memory, RestoreHistory
<1>5. /\ \A t \in Tasks \ {task[c]} :
           /\ t \in active' <=> t \in active
           /\ t \in completed' <=> t \in completed
           /\ t \in registry' <=> t \in registry
           /\ t \in history' <=> t \in history
      /\ \/ task[c] \in active'
         \/ task[c] \in completed' /\ task[c] \in registry' /\ task[c] \in history'
      /\ pc'[c] \in Writing \/ Agree(task[c])'
  BY <1>1, <1>3 DEF RestoreHistory, TypeOK, Owned, Placed, NewRegistry,
     NewHistory, UndoneRegistry, UndoneHistory, files, Agree, Writing,
     Publishing, Undoing
<1>6. Kept'
  BY <1>3 DEF RestoreHistory, Undisturbed, Kept, Owned, ghosts, files
<1> QED BY <1>1, <1>2, <1>4, <1>5, <1>6, WriteKeeps

LEMMA RestoreCardKept ==
  ASSUME TypeOK, Undisturbed, NEW c \in Callers, RestoreCard(c), ~overlapped'
  PROVE  Undisturbed'
<1>1. /\ Alone(c) /\ pc[c] = "undoCard" /\ pc'[c] = "undoCompleted" /\ task' = task
      /\ UNCHANGED left
  BY GotoAlone DEF RestoreCard, At, ghosts
<1>2. \A d \in Callers \ {c} :
        pc[d] \notin Writing /\ (history' = history \/ pc[d] \notin Parsing)
  BY TouchAlone DEF RestoreCard, files
<1>3. Caller(c) /\ Owned(c) /\ original[c] = loaded[c]
  BY <1>1 DEF Undisturbed, Caller, Writing, Publishing, Undoing
<1>4. Caller(c)'
  <2>1. Owned(c)'
    BY <1>1, <1>3 DEF RestoreCard, TypeOK, Owned, Placed, NewRegistry,
       NewHistory, UndoneRegistry, UndoneHistory, memory, temps, files
  <2> QED BY <1>1, <1>3, <2>1 DEF Caller, Parsing, memory, RestoreCard
<1>5. /\ \A t \in Tasks \ {task[c]} :
           /\ t \in active' <=> t \in active
           /\ t \in completed' <=> t \in completed
           /\ t \in registry' <=> t \in registry
           /\ t \in history' <=> t \in history
      /\ \/ task[c] \in active'
         \/ task[c] \in completed' /\ task[c] \in registry' /\ task[c] \in history'
      /\ pc'[c] \in Writing \/ Agree(task[c])'
  BY <1>1, <1>3 DEF RestoreCard, TypeOK, Owned, Placed, NewRegistry,
     NewHistory, UndoneRegistry, UndoneHistory, files, Agree, Writing,
     Publishing, Undoing
<1>6. Kept'
  BY <1>3 DEF RestoreCard, Undisturbed, Kept, Owned, ghosts, files
<1> QED BY <1>1, <1>2, <1>4, <1>5, <1>6, WriteKeeps

LEMMA RemoveCompletedKept ==
  ASSUME TypeOK, Undisturbed, NEW c \in Callers, RemoveCompleted(c), ~overlapped'
  PROVE  Undisturbed'
<1>1. /\ Alone(c) /\ pc[c] = "undoCompleted" /\ pc'[c] = "idle" /\ task' = task
      /\ UNCHANGED left
  BY GotoAlone DEF RemoveCompleted, At, ghosts, Return
<1>2. \A d \in Callers \ {c} :
        pc[d] \notin Writing /\ (history' = history \/ pc[d] \notin Parsing)
  BY TouchAlone DEF RemoveCompleted, files
<1>3. Caller(c) /\ Owned(c) /\ original[c] = loaded[c]
  BY <1>1 DEF Undisturbed, Caller, Writing, Publishing, Undoing
<1>4. Caller(c)'
  BY <1>1 DEF Caller, Parsing, Writing, Publishing, Undoing
<1>5. /\ \A t \in Tasks \ {task[c]} :
           /\ t \in active' <=> t \in active
           /\ t \in completed' <=> t \in completed
           /\ t \in registry' <=> t \in registry
           /\ t \in history' <=> t \in history
      /\ \/ task[c] \in active'
         \/ task[c] \in completed' /\ task[c] \in registry' /\ task[c] \in history'
      /\ pc'[c] \in Writing \/ Agree(task[c])'
  BY <1>1, <1>3 DEF RemoveCompleted, TypeOK, Owned, Placed, NewRegistry,
     NewHistory, UndoneRegistry, UndoneHistory, files, Agree, Writing,
     Publishing, Undoing
<1>6. Kept'
  BY <1>3 DEF RemoveCompleted, Undisturbed, Kept, Owned, ghosts, files
<1> QED BY <1>1, <1>2, <1>4, <1>5, <1>6, WriteKeeps

-----------------------------------------------------------------------------
LEMMA UndisturbedStep ==
  ASSUME TypeOK, Undisturbed, [Next]_vars, ~overlapped'
  PROVE  Undisturbed'
<1>1. CASE UNCHANGED vars
  BY <1>1 DEF vars, files, temps, memory, ghosts, Undisturbed, Finished, Agreed, Agree,
     AtRest, Kept, Caller, Owned, Placed, NewRegistry, NewHistory
<1>2. ASSUME NEW c \in Callers, Complete(c)
      PROVE  Undisturbed'
  BY <1>2, LookingKept, RecheckKept, WriteCardTempKept, WriteRegistryTempKept,
     WriteHistoryTempKept, PublishCardKept, PublishRegistryKept, PublishHistoryKept,
     RemoveActiveKept
  DEF Complete
<1>3. ASSUME NEW c \in Callers, Undo(c)
      PROVE  Undisturbed'
  BY <1>3, RecheckKept, RemoveTempsKept, RestoreRegistryKept, RestoreHistoryKept,
     RestoreCardKept, RemoveCompletedKept
  DEF Undo
<1>4. ASSUME NEW c \in Callers, Stop(c)
      PROVE  Undisturbed'
  BY <1>4, StopKept
<1> QED BY <1>1, <1>2, <1>3, <1>4 DEF Next

LEMMA OverlapStays ==
  ASSUME TypeOK, [Next]_vars, overlapped
  PROVE  overlapped'
BY DEF Next, Complete, Undo, Stop, Resolve, LoadHistory, ReadRegistry, ReadHistory,
   Recheck, Refuse, WriteCardTemp, WriteRegistryTemp, WriteHistoryTemp, PublishCard,
   PublishRegistry, PublishHistory, RemoveActive, PublicationFails, RemoveTemps,
   RestoreRegistry, RestoreHistory, RestoreCard, RemoveCompleted, Touch, vars

LEMMA IInvInit == Init => IInv
<1> SUFFICES ASSUME Init PROVE IInv
  OBVIOUS
<1>1. Nothing \in [registry : Contents, history : Contents]
  BY DEF Nothing, Contents
<1>2. overlapped \in BOOLEAN /\ overlapped = FALSE
  BY DEF Init
<1>3. TypeOK
  BY <1>1, <1>2, CompletionAssumption DEF Init, TypeOK
<1>4. /\ active = Tasks /\ completed = {} /\ registry = {} /\ history = {}
      /\ reported = {}
      /\ \A c \in Callers : pc[c] = "idle"
  BY DEF Init
<1>5. \A c \in Callers : Caller(c)
  BY <1>4 DEF Caller, Parsing, Writing, Publishing, Undoing
<1>6. Finished /\ Agreed
  BY <1>4 DEF Finished, Agreed, Agree
<1>7. Undisturbed
  BY <1>4, <1>5, <1>6 DEF Undisturbed, Kept
<1> QED BY <1>3, <1>7 DEF IInv

LEMMA IInvStep == IInv /\ [Next]_vars => IInv'
<1> SUFFICES ASSUME IInv, [Next]_vars PROVE IInv'
  OBVIOUS
<1>1. TypeOK'
  BY TypeStep DEF IInv
<1>2. CASE overlapped
  BY <1>1, <1>2, OverlapStays DEF IInv
<1>3. CASE ~overlapped
  BY <1>1, <1>3, UndisturbedStep DEF IInv
<1> QED BY <1>2, <1>3

THEOREM IInvHolds == Spec => []IInv
<1> QED BY IInvInit, IInvStep, PTL DEF Spec

(* Every variable keeps its type.                                          *)
THEOREM TypeCorrect == Spec => []TypeOK
<1>1. IInv => TypeOK
  BY DEF IInv
<1> QED BY <1>1, IInvHolds, PTL

(* Calls that do not overlap leave the card, the registry and the history  *)
(* in agreement, also those that fail.                                     *)
THEOREM RestAgreesHolds == Spec => []RestAgrees
<1>1. IInv => RestAgrees
  BY DEF IInv, Undisturbed, Agreed, RestAgrees
<1> QED BY <1>1, IInvHolds, PTL

(* A task without an active card is wholly completed, wherever calls stop. *)
THEOREM ActiveGoesLastHolds == Spec => []ActiveGoesLast
<1>1. IInv => ActiveGoesLast
  BY DEF IInv, Undisturbed, Finished, ActiveGoesLast
<1> QED BY <1>1, IInvHolds, PTL

(* A completion that was reported is never lost to a later one, however    *)
(* that one fails or stops.                                                *)
THEOREM ReportedKeptHolds == Spec => []ReportedKept
<1>1. IInv => ReportedKept
  BY DEF IInv, TypeOK, Undisturbed, Finished, Kept, ReportedKept
<1> QED BY <1>1, IInvHolds, PTL
===============================================================================
