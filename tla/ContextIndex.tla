---------------------------- MODULE ContextIndex ----------------------------
(***************************************************************************)
(* Writing the local context index (scripts/naos_local_context_index.py):  *)
(* a writer takes a lock file made with O_EXCL, builds a database under a  *)
(* name of its own, checks it, and moves it over the index.  A lock that   *)
(* looks stale is removed by whoever finds it.                             *)
(*                                                                         *)
(* What counts as stale is measured between the start of the finder's call *)
(* and the start of the holder's, not at the time of the removal.          *)
(***************************************************************************)
EXTENDS Naturals, FiniteSets

CONSTANTS
  Writers,    \* processes that write the index
  StaleAfter, \* NAOS_SQLITE_STALE_LOCK_SECONDS
  MaxTime     \* bound of the clock

ASSUME IndexAssumption ==
  /\ StaleAfter \in Nat /\ MaxTime \in Nat
  /\ "nobody" \notin Writers

VARIABLES
  index,      \* the index: none, or what the database moved there was found to be
  lockFile,   \* the lock file at its path, or NoLock
  temp,       \* temporary database of each writer
  pc,         \* control point of each writer
  started,    \* time each writer's call began (its generated_at)
  now,
  taken,      \* history: locks removed as stale while their writer was at work
  disturbed   \* history: a call outlasted StaleAfter, a writer died inside one,
              \* or a lock file was not removed at its end

vars == <<index, lockFile, temp, pc, started, now, taken, disturbed>>

NoLock == [by |-> "nobody", acquired |-> 0]

Present == lockFile # NoLock

TypeOK ==
  /\ index \in {"none", "valid"}
  /\ lockFile \in [by : Writers, acquired : Nat] \cup {NoLock}
  /\ temp \in [Writers -> {"none", "partial", "valid", "invalid"}]
  /\ pc \in [Writers -> {"idle", "create", "describe", "remove", "build",
                         "publish", "release"}]
  /\ started \in [Writers -> Nat]
  /\ now \in Nat /\ taken \in Nat
  /\ disturbed \in BOOLEAN

Init ==
  /\ index = "none" /\ lockFile = NoLock /\ now = 0 /\ taken = 0 /\ disturbed = FALSE
  /\ temp = [w \in Writers |-> "none"]
  /\ pc = [w \in Writers |-> "idle"]
  /\ started = [w \in Writers |-> 0]

At(w, p) == pc[w] = p
Goto(w, p) == pc' = [pc EXCEPT ![w] = p]

\* Between taking the lock and removing it.
Inside == {"describe", "build", "publish", "release"}

-----------------------------------------------------------------------------
StartWrite(w) ==
  /\ At(w, "idle")
  /\ started' = [started EXCEPT ![w] = now]
  /\ temp' = [temp EXCEPT ![w] = "none"]   \* a new name: what is left is litter
  /\ Goto(w, "create")
  /\ UNCHANGED <<index, lockFile, now, taken, disturbed>>

\* A new lock file is empty: its age is that of the file.
CreateLock(w) ==
  /\ At(w, "create") /\ ~Present
  /\ lockFile' = [by |-> w, acquired |-> now]
  /\ Goto(w, "describe")
  /\ UNCHANGED <<index, temp, started, now, taken, disturbed>>

\* Variant: the lock file is opened again by its path.
DescribedByPath(w) ==
  /\ At(w, "describe")
  /\ lockFile' = [lockFile EXCEPT !.acquired = started[w]]
  /\ Goto(w, "build")
  /\ UNCHANGED <<index, temp, started, now, taken, disturbed>>

\* Its owner writes the time its call began into it, wherever it is by now.
DescribeLock(w) ==
  /\ At(w, "describe")
  /\ lockFile' = IF lockFile.by = w THEN [lockFile EXCEPT !.acquired = started[w]]
                 ELSE lockFile
  /\ Goto(w, "build")
  /\ UNCHANGED <<index, temp, started, now, taken, disturbed>>

\* Variant: any lock that was there before the call counts as stale.
OlderLock(w) == Present /\ started[w] > lockFile.acquired

StaleLock(w) == Present /\ started[w] > lockFile.acquired + StaleAfter

FindStale(w) ==
  /\ At(w, "create") /\ StaleLock(w)
  /\ Goto(w, "remove")
  /\ UNCHANGED <<index, lockFile, temp, started, now, taken, disturbed>>

\* Whatever is at the path by now is removed; if nothing is, the call ends.
RemoveLock(w) ==
  /\ At(w, "remove")
  /\ lockFile' = NoLock
  /\ taken' = IF Present /\ pc[lockFile.by] \in Inside THEN taken + 1 ELSE taken
  /\ Goto(w, IF Present THEN "create" ELSE "idle")
  /\ UNCHANGED <<index, temp, started, now, disturbed>>

RemoveFails(w) ==
  /\ At(w, "remove") /\ Present
  /\ Goto(w, "idle")
  /\ UNCHANGED <<index, lockFile, temp, started, now, taken, disturbed>>

\* Variant: waiting ends only when the lock does.
WaitsForLock(w) ==
  /\ At(w, "create") /\ ~Present
  /\ Goto(w, "idle")
  /\ UNCHANGED <<index, lockFile, temp, started, now, taken, disturbed>>

\* Variant: a call that never got the lock releases it all the same.
ReleasesAnyway(w) ==
  /\ At(w, "create") /\ Present /\ ~StaleLock(w)
  /\ Goto(w, "release")
  /\ UNCHANGED <<index, lockFile, temp, started, now, taken, disturbed>>

LockTimeout(w) ==
  /\ At(w, "create") /\ Present /\ ~StaleLock(w)
  /\ Goto(w, "idle")
  /\ UNCHANGED <<index, lockFile, temp, started, now, taken, disturbed>>

-----------------------------------------------------------------------------
StartBuild(w) ==
  /\ At(w, "build") /\ temp[w] = "none"
  /\ temp' = [temp EXCEPT ![w] = "partial"]
  /\ UNCHANGED <<index, lockFile, pc, started, now, taken, disturbed>>

FinishBuild(w) ==
  /\ At(w, "build") /\ temp[w] = "partial"
  /\ \/ /\ \E quality \in {"valid", "invalid"} : temp' = [temp EXCEPT ![w] = quality]
        /\ Goto(w, "publish")
     \/ temp' = [temp EXCEPT ![w] = "none"] /\ Goto(w, "release")
  /\ UNCHANGED <<index, lockFile, started, now, taken, disturbed>>

Accepts(w) == temp[w] = "valid"

\* One rename publishes a database with all its tables.
Publish(w) ==
  /\ At(w, "publish") /\ Accepts(w)
  /\ index' = temp[w]
  /\ temp' = [temp EXCEPT ![w] = "none"]
  /\ Goto(w, "release")
  /\ UNCHANGED <<lockFile, started, now, taken, disturbed>>

\* Tables are missing, or the rename fails.
Discard(w) ==
  /\ At(w, "publish")
  /\ temp' = [temp EXCEPT ![w] = "none"]
  /\ Goto(w, "release")
  /\ UNCHANGED <<index, lockFile, started, now, taken, disturbed>>

\* The path is unlinked, whoever made the file that is there.
ReleaseLock(w) ==
  /\ At(w, "release")
  /\ lockFile' = NoLock
  /\ Goto(w, "idle")
  /\ UNCHANGED <<index, temp, started, now, taken, disturbed>>

\* The lock file stays behind, and ages.
ReleaseFails(w) ==
  /\ At(w, "release")
  /\ Goto(w, "idle")
  /\ disturbed' = TRUE
  /\ UNCHANGED <<index, lockFile, temp, started, now, taken>>

Die(w) ==
  /\ ~At(w, "idle")
  /\ Goto(w, "idle")
  /\ disturbed' = TRUE
  /\ UNCHANGED <<index, lockFile, temp, started, now, taken>>

Tick ==
  /\ now < MaxTime
  /\ now' = now + 1
  /\ disturbed' = (disturbed \/ \E w \in Writers :
                     ~At(w, "idle") /\ now = started[w] + StaleAfter)
  /\ UNCHANGED <<index, lockFile, temp, pc, started, taken>>

Work(w) ==
  \/ CreateLock(w) \/ DescribeLock(w) \/ FindStale(w) \/ RemoveLock(w) \/ RemoveFails(w)
  \/ LockTimeout(w) \/ StartBuild(w) \/ FinishBuild(w)
  \/ Publish(w) \/ Discard(w) \/ ReleaseLock(w) \/ ReleaseFails(w)

Next == Tick \/ \E w \in Writers : StartWrite(w) \/ Work(w) \/ Die(w)

Spec == Init /\ [][Next]_vars

\* A call that has begun goes on until it ends.
FairSpec == Spec /\ \A w \in Writers : WF_vars(Work(w))

-----------------------------------------------------------------------------
(***************************************************************************)
(* Properties.                                                             *)
(***************************************************************************)
Excluding == \A w \in Writers : pc[w] \in Inside => lockFile.by = w

\* A writer between its lock and its release has the lock file at the path,
\* so no other writer is there and a release never removes somebody else's
\* lock, as long as all calls end in time and clean up.
LockHeld == disturbed \/ Excluding

AtWork == {w \in Writers : pc[w] \in Inside}

\* A removal hits whatever is at the path by then, and whoever lost its lock
\* removes the next one's at its end, which lets another writer in.  All the
\* same every lock that was taken from a writer at work admits one writer more
\* and not a growing number, however long this goes on and whatever dies.
TakeoversBounded == Cardinality(AtWork) <= 1 + taken

\* Every call ends, also behind a lock whose owner is dead.
CallsEnd == \A w \in Writers : ~At(w, "idle") ~> At(w, "idle")
=============================================================================
