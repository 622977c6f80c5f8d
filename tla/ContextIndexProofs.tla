------------------------- MODULE ContextIndexProofs -------------------------
(***************************************************************************)
(* Proofs about ContextIndex: types, mutual exclusion of writers that end  *)
(* in time, and how many writers can be at work when they do not.          *)
(***************************************************************************)
EXTENDS ContextIndex, FiniteSetTheorems, TLAPS

\* Each action reads and writes what its type says.
LEMMA TypeStep == TypeOK /\ [Next]_vars => TypeOK'
<1> SUFFICES ASSUME TypeOK, [Next]_vars PROVE TypeOK'
  OBVIOUS
<1> USE DEF TypeOK, NoLock, Present, At, Goto
<1>1. CASE Tick
  BY <1>1 DEF Tick
<1>2. ASSUME NEW w \in Writers, StartWrite(w) PROVE TypeOK'
  BY <1>2 DEF StartWrite
<1>3. ASSUME NEW w \in Writers, CreateLock(w) PROVE TypeOK'
  BY <1>3 DEF CreateLock
<1>4. ASSUME NEW w \in Writers, DescribeLock(w) PROVE TypeOK'
  <2>1. lockFile' \in [by : Writers, acquired : Nat] \cup {NoLock}
    <3>1. CASE lockFile.by = w
      <4>1. lockFile \in [by : Writers, acquired : Nat]
        BY <3>1, IndexAssumption
      <4>2. lockFile' = [lockFile EXCEPT !.acquired = started[w]]
        BY <1>4, <3>1 DEF DescribeLock
      <4> QED BY <4>1, <4>2
    <3>2. CASE lockFile.by # w
      BY <1>4, <3>2 DEF DescribeLock
    <3> QED BY <3>1, <3>2
  <2> QED BY <1>4, <2>1 DEF DescribeLock
<1>5. ASSUME NEW w \in Writers, FindStale(w) \/ RemoveLock(w) \/ RemoveFails(w)
      PROVE TypeOK'
  BY <1>5 DEF FindStale, RemoveLock, RemoveFails
<1>6. ASSUME NEW w \in Writers, LockTimeout(w) \/ ReleaseLock(w) \/ ReleaseFails(w)
      PROVE TypeOK'
  BY <1>6 DEF LockTimeout, ReleaseLock, ReleaseFails
<1>7. ASSUME NEW w \in Writers, StartBuild(w) \/ FinishBuild(w) PROVE TypeOK'
  BY <1>7 DEF StartBuild, FinishBuild
<1>8. ASSUME NEW w \in Writers, Publish(w) \/ Discard(w) PROVE TypeOK'
  BY <1>8 DEF Publish, Accepts, Discard
<1>9. ASSUME NEW w \in Writers, Die(w) PROVE TypeOK'
  BY <1>9 DEF Die
<1>10. CASE UNCHANGED vars
  BY <1>10 DEF vars
<1> QED BY <1>1, <1>2, <1>3, <1>4, <1>5, <1>6, <1>7, <1>8, <1>9, <1>10 DEF Next, Work

LEMMA TypeInitially == Init => TypeOK
<1> SUFFICES ASSUME Init PROVE TypeOK
  OBVIOUS
<1>1. /\ index \in {"none", "valid"}
      /\ lockFile \in [by : Writers, acquired : Nat] \cup {NoLock}
      /\ temp \in [Writers -> {"none", "partial", "valid", "invalid"}]
  BY DEF Init
<1>2. /\ pc \in [Writers -> {"idle", "create", "describe", "remove", "build",
                             "publish", "release"}]
      /\ started \in [Writers -> Nat] /\ now \in Nat /\ taken \in Nat
  BY DEF Init
<1>3. disturbed \in BOOLEAN
  BY DEF Init
<1> QED BY <1>1, <1>2, <1>3 DEF TypeOK

\* Every reachable state of the writers is of the expected shape.
THEOREM TypeCorrect == Spec => []TypeOK
BY TypeInitially, TypeStep, PTL DEF Spec

-----------------------------------------------------------------------------
(***************************************************************************)
(* Mutual exclusion.  The lock at the path belongs to a writer inside, and *)
(* was taken no earlier than that writer's call began; all calls under way *)
(* began at most StaleAfter ago, so that lock looks stale to none of them. *)
(***************************************************************************)
Recent == \A w \in Writers :
  pc[w] # "idle" => started[w] <= now /\ now <= started[w] + StaleAfter

NoTakeover == \A w \in Writers : pc[w] # "remove"

HolderInside == Present =>
  pc[lockFile.by] \in Inside /\ started[lockFile.by] <= lockFile.acquired

Held == TypeOK /\ Recent /\ NoTakeover /\ HolderInside /\ Excluding

\* The lock of a writer inside looks stale to no call under way.
LEMMA NeverStale ==
  ASSUME Held, NEW w \in Writers, pc[w] # "idle" PROVE ~StaleLock(w)
<1> SUFFICES ASSUME StaleLock(w) PROVE FALSE
  OBVIOUS
<1> DEFINE h == lockFile.by
<1>1. h \in Writers /\ lockFile.acquired \in Nat /\ Present
  BY DEF StaleLock, Held, TypeOK, Present
<1>2. started[h] <= lockFile.acquired /\ pc[h] # "idle"
  BY <1>1 DEF Held, HolderInside, Inside
<1>3. now <= started[h] + StaleAfter /\ started[w] <= now
  BY <1>1, <1>2 DEF Held, Recent
<1>4. started[w] > lockFile.acquired + StaleAfter
  BY DEF StaleLock
<1>5. started[w] \in Nat /\ started[h] \in Nat /\ now \in Nat /\ StaleAfter \in Nat
  BY <1>1, IndexAssumption DEF Held, TypeOK
<1> HIDE DEF h
<1> QED BY <1>1, <1>2, <1>3, <1>4, <1>5

\* No writer is inside while the path is free.
LEMMA NobodyInside ==
  ASSUME Excluding, ~Present, NEW w \in Writers PROVE pc[w] \notin Inside
BY IndexAssumption DEF Excluding, Present, NoLock

\* Each step of writers that end in time keeps the invariant.
LEMMA HeldStep == Held /\ [Next]_vars /\ ~disturbed' => Held'
<1> SUFFICES ASSUME Held, [Next]_vars, ~disturbed' PROVE Held'
  OBVIOUS
<1>0. TypeOK'
  BY TypeStep DEF Held
<1> USE <1>0 DEF Held
<1>1. CASE Tick
  <2>1. Recent'
    <3> SUFFICES ASSUME NEW w \in Writers, pc[w] # "idle"
                 PROVE started[w] <= now + 1 /\ now + 1 <= started[w] + StaleAfter
      BY <1>1 DEF Tick, Recent
    <3>1. now # started[w] + StaleAfter
      BY <1>1 DEF Tick, At
    <3>2. started[w] <= now /\ now <= started[w] + StaleAfter
      BY DEF Recent
    <3> QED BY <3>1, <3>2, IndexAssumption DEF TypeOK
  <2> QED BY <1>1, <2>1 DEF Tick, NoTakeover, HolderInside, Excluding, Present
<1>2. ASSUME NEW w \in Writers, StartWrite(w) PROVE Held'
  <2>1. Recent'
    BY <1>2, IndexAssumption DEF StartWrite, At, Goto, Recent, TypeOK
  <2>2. NoTakeover' /\ Excluding'
    BY <1>2 DEF StartWrite, At, Goto, NoTakeover, Excluding, Inside, TypeOK
  <2>3. HolderInside'
    <3>1. ASSUME Present PROVE lockFile.by # w /\ lockFile.by \in Writers
      BY <1>2, <3>1 DEF StartWrite, At, HolderInside, Inside, TypeOK, Present
    <3> QED BY <1>2, <3>1 DEF StartWrite, At, Goto, HolderInside, Present, TypeOK
  <2> QED BY <2>1, <2>2, <2>3
<1>3. ASSUME NEW w \in Writers, CreateLock(w) PROVE Held'
  <2>1. \A v \in Writers : pc[v] \notin Inside
    BY <1>3, NobodyInside DEF CreateLock
  <2>2. lockFile' = [by |-> w, acquired |-> now] /\ pc' = [pc EXCEPT ![w] = "describe"]
    BY <1>3 DEF CreateLock, Goto
  <2>3. Recent' /\ NoTakeover'
    BY <1>3, <2>2 DEF CreateLock, At, Recent, NoTakeover, TypeOK
  <2>4. Excluding'
    BY <2>1, <2>2 DEF Excluding, TypeOK
  <2>5. HolderInside'
    BY <1>3, <2>2 DEF CreateLock, At, HolderInside, Inside, Recent, TypeOK
  <2> QED BY <2>3, <2>4, <2>5
<1>4. ASSUME NEW w \in Writers, DescribeLock(w) PROVE Held'
  <2>1. lockFile.by = w /\ Present
    BY <1>4, IndexAssumption DEF DescribeLock, At, Excluding, Inside, Present, NoLock
  <2>2. lockFile' = [lockFile EXCEPT !.acquired = started[w]]
        /\ pc' = [pc EXCEPT ![w] = "build"]
    BY <1>4, <2>1 DEF DescribeLock, Goto
  <2>3. lockFile'.by = w /\ lockFile'.acquired = started[w]
    BY <2>1, <2>2 DEF TypeOK, Present
  <2>4. Recent' /\ NoTakeover'
    BY <1>4, <2>2 DEF DescribeLock, At, Recent, NoTakeover, TypeOK
  <2>5. Excluding'
    BY <1>4, <2>1, <2>2, <2>3 DEF DescribeLock, At, Excluding, Inside, TypeOK
  <2>6. HolderInside'
    BY <1>4, <2>2, <2>3 DEF DescribeLock, HolderInside, Inside, TypeOK
  <2> QED BY <2>4, <2>5, <2>6
<1>5. ASSUME NEW w \in Writers, FindStale(w) PROVE FALSE
  BY <1>5, NeverStale DEF FindStale, At
<1>6. ASSUME NEW w \in Writers, RemoveLock(w) \/ RemoveFails(w) \/ ReleaseFails(w) \/ Die(w)
      PROVE FALSE
  BY <1>6 DEF RemoveLock, RemoveFails, ReleaseFails, Die, At, NoTakeover
<1>7. ASSUME NEW w \in Writers, LockTimeout(w) PROVE Held'
  <2>1. Recent' /\ NoTakeover' /\ Excluding'
    BY <1>7 DEF LockTimeout, At, Goto, Recent, NoTakeover, Excluding, Inside, TypeOK
  <2>2. Present => lockFile.by # w
    BY <1>7 DEF LockTimeout, At, HolderInside, Inside
  <2>3. HolderInside'
    BY <1>7, <2>2 DEF LockTimeout, Goto, HolderInside, Present, TypeOK
  <2> QED BY <2>1, <2>3
<1>8. ASSUME NEW w \in Writers, StartBuild(w) PROVE Held'
  BY <1>8 DEF StartBuild, Recent, NoTakeover, HolderInside, Excluding, Present
<1>9. ASSUME NEW w \in Writers, FinishBuild(w) \/ Publish(w) \/ Discard(w) PROVE Held'
  <2>1. /\ pc[w] \in Inside /\ UNCHANGED <<lockFile, started, now>>
        /\ \E p \in Inside : pc' = [pc EXCEPT ![w] = p]
    BY <1>9 DEF FinishBuild, Publish, Discard, At, Goto, Inside
  <2>2. Recent' /\ NoTakeover'
    BY <2>1 DEF Recent, NoTakeover, Inside, TypeOK
  <2>3. Excluding' /\ HolderInside'
    BY <2>1 DEF Excluding, HolderInside, Present, TypeOK
  <2> QED BY <2>2, <2>3
<1>10. ASSUME NEW w \in Writers, ReleaseLock(w) PROVE Held'
  <2>1. lockFile.by = w
    BY <1>10 DEF ReleaseLock, At, Excluding, Inside
  <2>2. \A v \in Writers \ {w} : pc[v] \notin Inside
    BY <2>1 DEF Excluding
  <2>3. lockFile' = NoLock /\ pc' = [pc EXCEPT ![w] = "idle"]
    BY <1>10 DEF ReleaseLock, Goto
  <2>4. Recent' /\ NoTakeover'
    BY <1>10, <2>3 DEF ReleaseLock, Recent, NoTakeover, TypeOK
  <2>5. Excluding' /\ HolderInside'
    BY <2>2, <2>3 DEF Excluding, HolderInside, Present, Inside, TypeOK
  <2> QED BY <2>4, <2>5
<1>11. CASE UNCHANGED vars
  BY <1>11 DEF vars, Recent, NoTakeover, HolderInside, Excluding, Present
<1> QED BY <1>1, <1>2, <1>3, <1>4, <1>5, <1>6, <1>7, <1>8, <1>9, <1>10, <1>11
        DEF Next, Work

\* As long as all calls end within the stale limit and none dies, writers
\* exclude each other: the lock at the path is the one of the writer inside
\* (acquire_sqlite_lock, release_sqlite_lock).
THEOREM WritersExcluded == Spec => []LockHeld
<1> DEFINE Inv == TypeOK /\ (~disturbed => Held)
<1>1. Init => Inv
  <2>1. Init => Recent /\ NoTakeover /\ HolderInside /\ Excluding
    BY DEF Init, Recent, NoTakeover, HolderInside, Excluding, Present, Inside
  <2> QED BY <2>1, TypeInitially DEF Held
<1>2. Inv /\ [Next]_vars => Inv'
  <2> SUFFICES ASSUME Inv, [Next]_vars, ~disturbed' PROVE Held'
    BY TypeStep
  <2>1. ~disturbed
    BY DEF Next, Work, vars, Tick, StartWrite, CreateLock, DescribeLock, FindStale,
           RemoveLock, RemoveFails, LockTimeout, StartBuild, FinishBuild, Publish,
           Discard, ReleaseLock, ReleaseFails, Die, TypeOK
  <2> QED BY <2>1, HeldStep
<1>3. Inv => LockHeld
  BY DEF Held, LockHeld
<1> QED BY <1>1, <1>2, <1>3, PTL DEF Spec

-----------------------------------------------------------------------------
(***************************************************************************)
(* How many writers can be at work.  A writer at work whose lock is not at *)
(* the path any more is stripped.  Taking a lock in use strips one writer; *)
(* a stripped writer that removes somebody's lock at its end strips that   *)
(* one and is gone itself.                                                 *)
(***************************************************************************)
Stripped == {w \in Writers : pc[w] \in Inside /\ lockFile.by # w}

Counted == IsFiniteSet(Stripped) /\ Cardinality(Stripped) <= taken

\* One more element adds at most one.
LEMMA OneMore ==
  ASSUME NEW S, NEW x, IsFiniteSet(S)
  PROVE  /\ IsFiniteSet(S \cup {x})
         /\ Cardinality(S) \in Nat /\ Cardinality(S \cup {x}) \in Nat
         /\ Cardinality(S \cup {x}) <= Cardinality(S) + 1
<1>1. IsFiniteSet(S \cup {x})
  BY FS_AddElement
<1>2. Cardinality(S) \in Nat /\ Cardinality(S \cup {x}) \in Nat
  BY <1>1, FS_CardinalityType
<1>3. \/ Cardinality(S \cup {x}) = Cardinality(S)
      \/ Cardinality(S \cup {x}) = Cardinality(S) + 1
  <2>1. CASE x \in S
    <3>1. S \cup {x} = S
      BY <2>1
    <3> QED BY <3>1, Zenon
  <2>2. CASE x \notin S
    BY <2>2, FS_AddElement
  <2> QED BY <2>1, <2>2
<1>4. Cardinality(S \cup {x}) <= Cardinality(S) + 1
  BY <1>2, <1>3
<1> QED BY <1>1, <1>2, <1>4

\* Most steps strip nobody.
LEMMA NobodyStripped ==
  ASSUME TypeOK, Counted, Stripped' \subseteq Stripped, taken' = taken
  PROVE  Counted'
<1>1. IsFiniteSet(Stripped') /\ Cardinality(Stripped') <= Cardinality(Stripped)
  BY FS_Subset DEF Counted
<1>2. Cardinality(Stripped) \in Nat /\ Cardinality(Stripped') \in Nat /\ taken \in Nat
  BY <1>1, FS_CardinalityType DEF Counted, TypeOK
<1> HIDE DEF Stripped
<1> QED BY <1>1, <1>2 DEF Counted

\* A takeover strips the writer that has the lock, if that is still at work.
LEMMA TakeoverCounted ==
  ASSUME TypeOK, Counted, NEW w \in Writers, RemoveLock(w)
  PROVE  Counted'
<1> DEFINE h == lockFile.by
<1>1. /\ pc[w] \notin Inside /\ lockFile'.by = "nobody"
      /\ pc' = [pc EXCEPT ![w] = IF Present THEN "create" ELSE "idle"]
  BY DEF RemoveLock, At, Goto, Inside, NoLock
<1>2. \A v \in Writers : pc'[v] \in Inside => v # w /\ pc[v] \in Inside
  BY <1>1 DEF TypeOK, Inside
<1>3. CASE Present /\ pc[h] \in Inside
  <2>1. taken' = taken + 1
    BY <1>3 DEF RemoveLock
  <2>2. Stripped' \subseteq Stripped \cup {h}
    BY <1>2 DEF Stripped
  <2>3. /\ IsFiniteSet(Stripped \cup {h})
        /\ Cardinality(Stripped \cup {h}) <= Cardinality(Stripped) + 1
        /\ Cardinality(Stripped) \in Nat /\ Cardinality(Stripped \cup {h}) \in Nat
    <3>1. IsFiniteSet(Stripped)
      BY DEF Counted
    <3> HIDE DEF Stripped, h
    <3> QED BY <3>1, OneMore
  <2>4. IsFiniteSet(Stripped') /\ Cardinality(Stripped') <= Cardinality(Stripped \cup {h})
    BY <2>2, <2>3, FS_Subset
  <2>5. Cardinality(Stripped') \in Nat /\ taken \in Nat
    BY <2>4, FS_CardinalityType DEF TypeOK
  <2> HIDE DEF Stripped, h
  <2> QED BY <2>1, <2>3, <2>4, <2>5 DEF Counted
<1>4. CASE ~(Present /\ pc[h] \in Inside)
  <2>1. taken' = taken
    BY <1>4 DEF RemoveLock
  <2>2. \A v \in Writers : pc[v] \in Inside => v # h
    BY <1>4, IndexAssumption DEF Present, NoLock
  <2>3. Stripped' \subseteq Stripped
    BY <1>2, <2>2 DEF Stripped
  <2> QED BY <2>1, <2>3, NobodyStripped
<1> QED BY <1>3, <1>4

\* A release strips nobody, or one writer by one that was stripped itself.
LEMMA ReleaseCounted ==
  ASSUME TypeOK, Counted, NEW w \in Writers, ReleaseLock(w)
  PROVE  Counted'
<1> DEFINE h == lockFile.by
<1>1. /\ pc[w] \in Inside /\ pc' = [pc EXCEPT ![w] = "idle"] /\ taken' = taken
  BY DEF ReleaseLock, At, Goto, Inside
<1>2. \A v \in Writers : pc'[v] \in Inside => v # w /\ pc[v] \in Inside
  BY <1>1 DEF TypeOK, Inside
<1>3. CASE h = w
  <2>1. Stripped' \subseteq Stripped
    BY <1>2, <1>3 DEF Stripped
  <2> QED BY <1>1, <2>1, NobodyStripped
<1>4. CASE h # w
  <2> DEFINE rest == Stripped \ {w}
  <2>1. w \in Stripped
    BY <1>1, <1>4 DEF Stripped
  <2>2. /\ IsFiniteSet(rest) /\ Cardinality(rest) = Cardinality(Stripped) - 1
        /\ Cardinality(Stripped) \in Nat /\ Cardinality(rest) \in Nat
    BY <2>1, FS_RemoveElement, FS_CardinalityType DEF Counted
  <2>3. Stripped' \subseteq rest \cup {h}
    BY <1>2 DEF Stripped
  <2> HIDE DEF rest, Stripped, h
  <2>4. /\ IsFiniteSet(rest \cup {h}) /\ Cardinality(rest \cup {h}) \in Nat
        /\ Cardinality(rest \cup {h}) <= Cardinality(rest) + 1
    BY <2>2, OneMore
  <2>5. IsFiniteSet(Stripped') /\ Cardinality(Stripped') <= Cardinality(rest \cup {h})
    BY <2>3, <2>4, FS_Subset
  <2>6. Cardinality(Stripped') \in Nat /\ taken \in Nat
    BY <2>5, FS_CardinalityType DEF TypeOK
  <2> QED BY <1>1, <2>2, <2>4, <2>5, <2>6 DEF Counted
<1> QED BY <1>3, <1>4

\* Every step keeps the count.
LEMMA CountedStep == TypeOK /\ Counted /\ [Next]_vars => Counted'
<1> SUFFICES ASSUME TypeOK, Counted, [Next]_vars PROVE Counted'
  OBVIOUS
<1>1. ASSUME NEW w \in Writers, CreateLock(w) PROVE Counted'
  <2>1. /\ lockFile.by = "nobody" /\ lockFile'.by = w /\ taken' = taken
        /\ pc' = [pc EXCEPT ![w] = "describe"]
    BY <1>1 DEF CreateLock, Goto, Present, NoLock
  <2>2. Stripped' \subseteq Stripped
    BY <2>1, IndexAssumption DEF Stripped, TypeOK
  <2> QED BY <2>1, <2>2, NobodyStripped
<1>2. ASSUME NEW w \in Writers, DescribeLock(w) PROVE Counted'
  <2>1. lockFile'.by = lockFile.by
    <3>1. CASE lockFile.by = w
      <4>1. lockFile \in [by : Writers, acquired : Nat]
        BY <3>1, IndexAssumption DEF TypeOK, NoLock
      <4> QED BY <1>2, <3>1, <4>1 DEF DescribeLock
    <3>2. CASE lockFile.by # w
      BY <1>2, <3>2 DEF DescribeLock
    <3> QED BY <3>1, <3>2
  <2>2. Stripped' \subseteq Stripped
    BY <1>2, <2>1 DEF DescribeLock, At, Goto, Stripped, Inside, TypeOK
  <2> QED BY <1>2, <2>2, NobodyStripped DEF DescribeLock
<1>3. ASSUME NEW w \in Writers, RemoveLock(w) PROVE Counted'
  BY <1>3, TakeoverCounted
<1>4. ASSUME NEW w \in Writers, ReleaseLock(w) PROVE Counted'
  BY <1>4, ReleaseCounted
<1>5. ASSUME NEW w \in Writers,
             \/ StartWrite(w) \/ FindStale(w) \/ RemoveFails(w) \/ LockTimeout(w)
             \/ StartBuild(w) \/ FinishBuild(w) \/ Publish(w) \/ Discard(w)
             \/ ReleaseFails(w) \/ Die(w)
      PROVE Counted'
  <2>1. UNCHANGED <<lockFile, taken>>
    BY <1>5 DEF StartWrite, FindStale, RemoveFails, LockTimeout, StartBuild,
                FinishBuild, Publish, Discard, ReleaseFails, Die
  <2>2. \A v \in Writers : pc'[v] \in Inside => pc[v] \in Inside
    BY <1>5 DEF StartWrite, FindStale, RemoveFails, LockTimeout, StartBuild,
                FinishBuild, Publish, Discard, ReleaseFails, Die, At, Goto, Inside, TypeOK
  <2>3. Stripped' \subseteq Stripped
    BY <2>1, <2>2 DEF Stripped
  <2> QED BY <2>1, <2>3, NobodyStripped
<1>6. CASE Tick \/ UNCHANGED vars
  <2>1. UNCHANGED <<lockFile, pc, taken>>
    BY <1>6 DEF Tick, vars
  <2>2. Stripped' = Stripped
    BY <2>1 DEF Stripped
  <2> QED BY <2>1, <2>2, NobodyStripped
<1> QED BY <1>1, <1>2, <1>3, <1>4, <1>5, <1>6 DEF Next, Work

\* However many locks are taken over, mistaken for stale or removed by a writer
\* that lost its own, there is at most one writer more at work than locks were
\* taken from writers at work (acquire_sqlite_lock, release_sqlite_lock).
THEOREM TakeoversCounted == Spec => []TakeoversBounded
<1>1. Init => TypeOK /\ Counted
  <2>1. Init => Stripped = {} /\ taken = 0
    BY DEF Init, Stripped, Inside
  <2> QED BY <2>1, TypeInitially, FS_EmptySet DEF Counted
<1>2. TypeOK /\ Counted /\ [Next]_vars => (TypeOK /\ Counted)'
  BY TypeStep, CountedStep
<1>3. TypeOK /\ Counted => TakeoversBounded
  <2> SUFFICES ASSUME TypeOK, Counted PROVE Cardinality(AtWork) <= 1 + taken
    BY DEF TakeoversBounded
  <2> DEFINE h == lockFile.by
  <2>1. AtWork \subseteq Stripped \cup {h}
    BY DEF AtWork, Stripped
  <2> HIDE DEF h, Stripped
  <2>2. /\ IsFiniteSet(Stripped \cup {h}) /\ Cardinality(Stripped \cup {h}) \in Nat
        /\ Cardinality(Stripped \cup {h}) <= Cardinality(Stripped) + 1
        /\ Cardinality(Stripped) \in Nat
    <3>1. IsFiniteSet(Stripped)
      BY DEF Counted
    <3> QED BY <3>1, OneMore
  <2>3. IsFiniteSet(AtWork) /\ Cardinality(AtWork) <= Cardinality(Stripped \cup {h})
    BY <2>1, <2>2, FS_Subset
  <2>4. Cardinality(AtWork) \in Nat /\ taken \in Nat
    BY <2>3, FS_CardinalityType DEF TypeOK
  <2> QED BY <2>2, <2>3, <2>4 DEF Counted
<1> QED BY <1>1, <1>2, <1>3, PTL DEF Spec
=============================================================================
