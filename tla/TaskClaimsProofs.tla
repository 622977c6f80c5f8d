-------------------------- MODULE TaskClaimsProofs --------------------------
(***************************************************************************)
(* Proofs about TaskClaims, for any callers, calls and bounds.  The        *)
(* inductive invariant says why the lock works although its file may be    *)
(* replaced: whoever is inside has the inode that is at the path, and no   *)
(* two callers hold one inode.                                             *)
(***************************************************************************)
EXTENDS TaskClaims, TLAPS

-----------------------------------------------------------------------------
(***************************************************************************)
(* What a call does to a set of claims.                                    *)
(***************************************************************************)
OneActiveIn(ks) ==
  \A k, l \in ks :
    k.task = l.task /\ k.status = "active" /\ l.status = "active" => k = l

\* The claims ls can come from the claims ks.
Evolves(ks, ls) ==
  /\ ls \subseteq ClaimRecords
  /\ \A k \in ks : \E l \in ls : l.id = k.id
  /\ \A k \in ks : k.status # "active" => k \in ls
  /\ OneActiveIn(ks) => OneActiveIn(ls)

\* The claims ks bear out the audit events E.
Backed(E, ks) ==
  \A e \in E : \E k \in ks :
    /\ k.id = e[2]
    /\ e[1] = "task_released" => k.status = "released"
    /\ e[1] = "task_claim_conflict_detected" => k.status = "conflicting"

LEMMA EvolvesTwice ==
  ASSUME NEW ks, NEW ls, NEW ms, Evolves(ks, ls), Evolves(ls, ms)
  PROVE  Evolves(ks, ms)
<1>1. \A k \in ks : \E m \in ms : m.id = k.id
  BY DEF Evolves
<1>2. \A k \in ks : k.status # "active" => k \in ms
  BY DEF Evolves
<1> QED BY <1>1, <1>2 DEF Evolves

LEMMA NormalizedEvolves ==
  ASSUME NEW ks \in SUBSET ClaimRecords, NEW t \in Nat
  PROVE  Evolves(ks, Normalized(ks, t))
<1> DEFINE Image(k) == [k EXCEPT !.status = StatusAt(k, t)]
<1>1. ASSUME NEW k \in ks
      PROVE  /\ Image(k) \in ClaimRecords /\ Image(k).id = k.id
             /\ Image(k).task = k.task
             /\ Image(k).status = "active" => k.status = "active"
             /\ k.status # "active" => Image(k) = k
  <2>1. StatusAt(k, t) \in {"active", "released", "expired", "stale", "conflicting"}
    BY DEF StatusAt, ClaimRecords
  <2>2. k.status # "active" => StatusAt(k, t) = k.status
    BY DEF StatusAt
  <2>3. StatusAt(k, t) = "active" => k.status = "active"
    BY <2>2
  <2> QED BY <2>1, <2>2, <2>3 DEF ClaimRecords
<1>2. Normalized(ks, t) = {Image(k) : k \in ks}
  BY DEF Normalized
<1> HIDE DEF Image
<1>3. OneActiveIn(ks) => OneActiveIn(Normalized(ks, t))
  BY <1>1, <1>2 DEF OneActiveIn
<1> QED BY <1>1, <1>2, <1>3 DEF Evolves

LEMMA ClaimedEvolves ==
  ASSUME NEW ks \in SUBSET ClaimRecords, NEW q \in Calls, NEW id \in Nat, NEW t \in Nat
  PROVE  Evolves(ks, Claimed(ks, q, id, t))
<1> DEFINE new == NewClaim(q, id, t, ClaimStatus(ks, q))
<1>1. /\ new \in ClaimRecords /\ new.task = q.task
      /\ new.status = "active" => Active(ks, q.task) = {}
  BY ClaimsAssumption DEF NewClaim, ClaimStatus, ClaimRecords
<1> HIDE DEF new
<1>2. CASE \E k \in Active(ks, q.task) : SameHolder(k, q)
  BY <1>2 DEF Claimed, Evolves
<1>3. CASE ~\E k \in Active(ks, q.task) : SameHolder(k, q)
  <2>1. Claimed(ks, q, id, t) = ks \cup {new}
    BY <1>3 DEF Claimed, new
  <2>2. OneActiveIn(ks) => OneActiveIn(ks \cup {new})
    BY <1>1 DEF OneActiveIn, Active
  <2> QED BY <1>1, <2>1, <2>2 DEF Evolves
<1> QED BY <1>2, <1>3

LEMMA ReleasedEvolves ==
  ASSUME NEW ks \in SUBSET ClaimRecords, NEW q \in Calls
  PROVE  Evolves(ks, Released(ks, q))
<1> DEFINE Image(k) ==
      IF k \in Releasable(ks, q) THEN [k EXCEPT !.status = "released"] ELSE k
<1>1. ASSUME NEW k \in ks
      PROVE  /\ Image(k) \in ClaimRecords /\ Image(k).id = k.id
             /\ Image(k).status = "active" => Image(k) = k
             /\ k.status # "active" => Image(k) = k
  BY DEF Releasable, Active, ClaimRecords
<1>2. Released(ks, q) = {Image(k) : k \in ks}
  BY DEF Released
<1> HIDE DEF Image
<1>3. OneActiveIn(ks) => OneActiveIn(Released(ks, q))
  BY <1>1, <1>2 DEF OneActiveIn
<1> QED BY <1>1, <1>2, <1>3 DEF Evolves

\* An extension changes nothing but an expiry.
LEMMA ExtendedEvolves ==
  ASSUME NEW ks \in SUBSET ClaimRecords, NEW q \in Calls
  PROVE  /\ Evolves(ks, Extended(ks, q))
         /\ \A k \in ks : \E l \in Extended(ks, q) : l.id = k.id /\ l.status = k.status
<1> DEFINE Image(k) == IF q.extend # 0 /\ k \in Extendable(ks, q)
                       THEN [k EXCEPT !.expires = q.extend] ELSE k
<1>1. ASSUME NEW k \in ks
      PROVE  /\ Image(k) \in ClaimRecords /\ Image(k).id = k.id
             /\ Image(k).task = k.task /\ Image(k).status = k.status
             /\ k.status # "active" => Image(k) = k
  <2>1. q.extend \in Nat
    BY ClaimsAssumption
  <2> QED BY <2>1 DEF Extendable, Active, ClaimRecords
<1>2. Extended(ks, q) = {Image(k) : k \in ks}
  BY DEF Extended
<1> HIDE DEF Image
<1>3. OneActiveIn(ks) => OneActiveIn(Extended(ks, q))
  BY <1>1, <1>2 DEF OneActiveIn
<1> QED BY <1>1, <1>2, <1>3 DEF Evolves

LEMMA AfterEvolves ==
  ASSUME NEW ks \in SUBSET ClaimRecords, NEW q \in Calls, NEW id \in Nat, NEW t \in Nat
  PROVE  /\ Evolves(ks, After(ks, q, id, t))
         /\ Backed(Events(ks, q, id, t), After(ks, q, id, t))
         /\ Events(ks, q, id, t) \subseteq EventRecords
<1> DEFINE n == Normalized(ks, t)
           m == Claimed(n, q, id, t)
<1>1. Evolves(ks, n) /\ n \in SUBSET ClaimRecords
  BY NormalizedEvolves DEF Evolves
<1> HIDE DEF n
<1>2. CASE q.action = "claim"
  <2>1. Evolves(n, m) /\ m \in SUBSET ClaimRecords
    BY <1>1, ClaimedEvolves DEF Evolves
  <2>2. After(ks, q, id, t) = Extended(m, q)
    BY <1>2 DEF After, n
  <2>3. Evolves(ks, After(ks, q, id, t))
    BY <1>1, <2>1, <2>2, ExtendedEvolves, EvolvesTwice
  <2>4. CASE m = n
    <3>1. Events(ks, q, id, t) = {}
      BY <1>2, <2>4 DEF Events, n
    <3> QED BY <2>3, <3>1 DEF Backed
  <2>5. CASE m # n
    <3> DEFINE new == NewClaim(q, id, t, ClaimStatus(n, q))
               kind == IF ClaimStatus(n, q) = "active" THEN "task_claimed"
                       ELSE "task_claim_conflict_detected"
    <3>1. Events(ks, q, id, t) = {<<kind, id>>}
      BY <1>2, <2>5 DEF Events, n
    <3>2. new \in m
      BY <2>5 DEF Claimed
    <3>3. PICK l \in Extended(m, q) : l.id = new.id /\ l.status = new.status
      BY <2>1, <3>2, ExtendedEvolves
    <3>4. new.id = id /\ new.status = ClaimStatus(n, q)
      BY DEF NewClaim
    <3>5. ClaimStatus(n, q) \in {"active", "conflicting"}
      BY DEF ClaimStatus
    <3>6. Backed({<<kind, id>>}, Extended(m, q))
      BY <3>3, <3>4, <3>5 DEF Backed
    <3> QED BY <2>2, <2>3, <3>1, <3>6 DEF EventRecords
  <2> QED BY <2>4, <2>5
<1>3. CASE q.action = "release"
  <2>1. After(ks, q, id, t) = Released(n, q)
    BY <1>3 DEF After, n
  <2>2. Events(ks, q, id, t) = {<<"task_released", k.id>> : k \in Releasable(n, q)}
    BY <1>3 DEF Events, n
  <2>3. Evolves(ks, Released(n, q))
    BY <1>1, ReleasedEvolves, EvolvesTwice
  <2>4. ASSUME NEW k \in Releasable(n, q)
        PROVE  \E l \in Released(n, q) : l.id = k.id /\ l.status = "released"
    <3>1. k \in n /\ k \in ClaimRecords
      BY <1>1 DEF Releasable, Active
    <3>2. [k EXCEPT !.status = "released"] \in Released(n, q)
      BY <3>1 DEF Released
    <3> QED BY <3>1, <3>2 DEF ClaimRecords
  <2>5. Backed(Events(ks, q, id, t), Released(n, q))
    BY <2>2, <2>4 DEF Backed
  <2>6. Events(ks, q, id, t) \subseteq EventRecords
    BY <1>1, <2>2 DEF EventRecords, Releasable, Active, ClaimRecords
  <2> QED BY <2>1, <2>3, <2>5, <2>6
<1>4. CASE q.action \notin {"claim", "release"}
  <2>1. After(ks, q, id, t) = ks /\ Events(ks, q, id, t) = {}
    BY <1>4 DEF After, Events
  <2> QED BY <2>1 DEF Evolves, Backed
<1> QED BY <1>2, <1>3, <1>4

LEMMA BackedStays ==
  ASSUME NEW E \in SUBSET EventRecords, NEW ks, NEW ls, Evolves(ks, ls), Backed(E, ks)
  PROVE  Backed(E, ls)
<1> SUFFICES ASSUME NEW e \in E
             PROVE  \E l \in ls :
                      /\ l.id = e[2]
                      /\ e[1] = "task_released" => l.status = "released"
                      /\ e[1] = "task_claim_conflict_detected" =>
                           l.status = "conflicting"
  BY DEF Backed
<1>1. PICK k \in ks :
        /\ k.id = e[2]
        /\ e[1] = "task_released" => k.status = "released"
        /\ e[1] = "task_claim_conflict_detected" => k.status = "conflicting"
  BY DEF Backed
<1>2. CASE k.status # "active"
  BY <1>1, <1>2 DEF Evolves
<1>3. CASE k.status = "active"
  <2>1. PICK l \in ls : l.id = k.id
    BY DEF Evolves
  <2> QED BY <1>1, <1>3, <2>1
<1> QED BY <1>2, <1>3

-----------------------------------------------------------------------------
(***************************************************************************)
(* The inductive invariant.                                                *)
(***************************************************************************)
\* Nobody shares an inode while holding it, and whoever is inside holds the
\* one at the path.
LockOK ==
  /\ \A c \in Callers : At(c, "wait") \/ pc[c] \in Holding => fd[c] # 0
  /\ \A c \in Callers : pc[c] \in Inside => fd[c] = lockPath
  /\ \A c, d \in Callers :
       pc[c] \in Holding /\ pc[d] \in Holding /\ fd[c] = fd[d] => c = d

JobOK ==
  \A c \in Callers :
    ~At(c, "idle") => job[c].call \in Calls /\ job[c].id \in 1..calls

\* What a caller is about to write is its call applied to the file as it is.
DraftOK ==
  \A c \in Callers :
    /\ At(c, "write") =>
         /\ draft[c].claims = After(claims, job[c].call, job[c].id, draft[c].at)
         /\ draft[c].events = Events(claims, job[c].call, job[c].id, draft[c].at)
    /\ pc[c] \in {"audit", "report"} => Backed(draft[c].events, claims)

StoreOK ==
  /\ OneActiveIn(claims)
  /\ told \subseteq Ids(claims)
  /\ Backed(audit, claims)

IInv == TypeOK /\ LockOK /\ JobOK /\ DraftOK /\ StoreOK

\* A step that leaves the store and the draft of every caller at work alone
\* keeps what they say about each other.
LEMMA Leaving ==
  ASSUME IInv, NEW c \in Callers, Leave(c), UNCHANGED <<now, lock, calls>>,
         claims' = claims
  PROVE  LockOK' /\ JobOK' /\ DraftOK'
<1>1. pc' = [pc EXCEPT ![c] = "idle"]
  BY DEF Leave, Goto
<1>2. \A d \in Callers : d # c => /\ pc'[d] = pc[d] /\ fd'[d] = fd[d]
                                /\ job'[d] = job[d] /\ draft'[d] = draft[d]
  BY DEF Leave, Goto, IInv, TypeOK
<1>3. pc'[c] = "idle"
  BY <1>1 DEF IInv, TypeOK
<1>4. LockOK'
  BY <1>2, <1>3 DEF IInv, LockOK, At, lock, Holding, Inside
<1>5. JobOK'
  BY <1>2, <1>3 DEF IInv, JobOK, At
<1>6. DraftOK'
  BY <1>2, <1>3 DEF IInv, DraftOK, At
<1> QED BY <1>4, <1>5, <1>6

LEMMA LeavingTyped ==
  ASSUME IInv, NEW c \in Callers, Leave(c), UNCHANGED <<now, lock, calls>>,
         claims' = claims, audit' = audit, told' \subseteq Nat
  PROVE  TypeOK'
<1>1. NoJob \in [call : Calls \cup {NoCall}, id : 0..calls]
  BY DEF NoJob, IInv, TypeOK
<1>2. NoDraft \in [claims : SUBSET ClaimRecords, at : Nat, events : SUBSET EventRecords]
  BY DEF NoDraft
<1> QED BY <1>1, <1>2 DEF Leave, Goto, lock, IInv, TypeOK

\* Nobody else is inside.
LEMMA Alone ==
  ASSUME IInv, NEW c \in Callers, NEW d \in Callers, pc[c] \in Inside, pc[d] \in Inside
  PROVE  c = d
<1>1. pc[c] \in Holding /\ pc[d] \in Holding
  BY DEF Inside, Holding
<1> QED BY <1>1 DEF IInv, LockOK

LEMMA Initially == Init => IInv
<1> SUFFICES ASSUME Init PROVE IInv
  OBVIOUS
<1>1. NoJob \in [call : Calls \cup {NoCall}, id : 0..0]
  BY DEF NoJob
<1>2. NoDraft \in [claims : SUBSET ClaimRecords, at : Nat, events : SUBSET EventRecords]
  BY DEF NoDraft
<1>3. TypeOK
  BY <1>1, <1>2 DEF Init, TypeOK
<1>4. LockOK /\ JobOK /\ DraftOK
  BY DEF Init, LockOK, JobOK, DraftOK, At, Holding, Inside
<1>5. StoreOK
  BY DEF Init, StoreOK, OneActiveIn, Backed, Ids
<1> QED BY <1>3, <1>4, <1>5 DEF IInv

LEMMA Inductive == IInv /\ [Next]_vars => IInv'
<1> SUFFICES ASSUME IInv, [Next]_vars PROVE IInv'
  OBVIOUS
<1> USE DEF IInv
<1>1. ASSUME NEW c \in Callers, StartCall(c) PROVE IInv'
  <2>1. PICK q \in Calls : job' = [job EXCEPT ![c] = [call |-> q, id |-> calls + 1]]
    BY <1>1 DEF StartCall
  <2>2. TypeOK'
    BY <1>1, <2>1 DEF StartCall, TypeOK, Goto, store, lock
  <2>3. \A d \in Callers : d # c => pc'[d] = pc[d] /\ job'[d] = job[d]
    BY <1>1, <2>1 DEF StartCall, TypeOK, Goto
  <2>4. pc'[c] = "open" /\ job'[c] = [call |-> q, id |-> calls + 1]
    BY <1>1, <2>1 DEF StartCall, TypeOK, Goto
  <2>5. LockOK'
    BY <1>1, <2>3, <2>4 DEF StartCall, LockOK, At, lock, Holding, Inside
  <2>6. JobOK'
    BY <1>1, <2>3, <2>4 DEF StartCall, JobOK, At, TypeOK
  <2>7. DraftOK'
    BY <1>1, <2>3, <2>4 DEF StartCall, DraftOK, At, store
  <2>8. StoreOK'
    BY <1>1 DEF StartCall, StoreOK, store
  <2> QED BY <2>2, <2>5, <2>6, <2>7, <2>8
<1>2. ASSUME NEW c \in Callers, OpenLock(c) PROVE IInv'
  <2>1. TypeOK'
    BY <1>2 DEF OpenLock, TypeOK, Goto, store, lock
  <2>2. \A d \in Callers : d # c => pc'[d] = pc[d] /\ fd'[d] = fd[d]
    BY <1>2 DEF OpenLock, TypeOK, Goto
  <2>3. pc'[c] = "wait" /\ fd'[c] = lockPath' /\ lockPath' # 0
    BY <1>2 DEF OpenLock, TypeOK, Goto, lock
  <2>4. ~\E d \in Callers : pc[d] \in Inside /\ lockPath' # lockPath
    BY <1>2 DEF OpenLock, LockOK, lock, Inside, Holding
  <2>5. LockOK'
    BY <2>2, <2>3, <2>4 DEF LockOK, At, Holding, Inside
  <2>6. JobOK' /\ DraftOK'
    BY <1>2, <2>2, <2>3 DEF OpenLock, JobOK, DraftOK, At, store
  <2>7. StoreOK'
    BY <1>2 DEF OpenLock, StoreOK, store
  <2> QED BY <2>1, <2>5, <2>6, <2>7
<1>3. ASSUME NEW c \in Callers, Acquire(c) PROVE IInv'
  <2>1. TypeOK'
    BY <1>3 DEF Acquire, TypeOK, Goto, store, lock, Holding
  <2>2. (\A d \in Callers : d # c => pc'[d] = pc[d]) /\ pc'[c] = "check"
    BY <1>3 DEF Acquire, TypeOK, Goto
  <2>3. LockOK'
    BY <1>3, <2>2 DEF Acquire, LockOK, At, Free, lock, Holding, Inside
  <2>4. JobOK' /\ DraftOK'
    BY <1>3, <2>2 DEF Acquire, JobOK, DraftOK, At, store
  <2>5. StoreOK'
    BY <1>3 DEF Acquire, StoreOK, store
  <2> QED BY <2>1, <2>3, <2>4, <2>5
<1>4. ASSUME NEW c \in Callers, TimeOut(c) \/ Die(c) PROVE IInv'
  <2>1. Leave(c) /\ UNCHANGED <<store, now, lock, calls>>
    BY <1>4 DEF TimeOut, Die
  <2>2. StoreOK'
    BY <2>1 DEF StoreOK, store
  <2> QED BY <2>1, <2>2, Leaving, LeavingTyped DEF store, TypeOK
<1>5. ASSUME NEW c \in Callers, CheckIdentity(c) PROVE IInv'
  <2>1. CASE SameInode(c)
    <3>1. Goto(c, "load") /\ UNCHANGED <<fd, job, draft, store, now, lock, calls>>
      BY <1>5, <2>1 DEF CheckIdentity
    <3>2. TypeOK'
      BY <3>1 DEF TypeOK, Goto, store, lock, Holding
    <3>3. (\A d \in Callers : d # c => pc'[d] = pc[d]) /\ pc'[c] = "load"
      BY <3>1 DEF TypeOK, Goto
    <3>4. LockOK'
      BY <1>5, <2>1, <3>1, <3>3 DEF CheckIdentity, LockOK, At, SameInode, lock, Holding, Inside
    <3>5. JobOK' /\ DraftOK'
      BY <1>5, <3>1, <3>3 DEF CheckIdentity, JobOK, DraftOK, At, store
    <3>6. StoreOK'
      BY <3>1 DEF StoreOK, store
    <3> QED BY <3>2, <3>4, <3>5, <3>6
  <2>2. CASE ~SameInode(c)
    <3>1. Leave(c) /\ UNCHANGED <<store, now, lock, calls>>
      BY <1>5, <2>2 DEF CheckIdentity
    <3>2. StoreOK'
      BY <3>1 DEF StoreOK, store
    <3> QED BY <3>1, <3>2, Leaving, LeavingTyped DEF store, TypeOK
  <2> QED BY <2>1, <2>2
<1>6. ASSUME NEW c \in Callers, Load(c) PROVE IInv'
  <2> DEFINE q == job[c].call
             after == After(claims, q, job[c].id, now)
             events == Events(claims, q, job[c].id, now)
             new == [claims |-> after, at |-> now, events |-> events]
  <2>1. q \in Calls /\ job[c].id \in Nat /\ now \in Nat /\ claims \in SUBSET ClaimRecords
    BY <1>6 DEF Load, JobOK, At, TypeOK
  <2>2. /\ Evolves(claims, after) /\ Backed(events, after) /\ events \subseteq EventRecords
    BY <2>1, AfterEvolves
  <2>3. after \subseteq ClaimRecords
    BY <2>2 DEF Evolves
  <2>4. /\ draft' = [draft EXCEPT ![c] = new]
        /\ Goto(c, IF after # claims THEN "write" ELSE "audit")
        /\ UNCHANGED <<store, now, lock, calls, fd, job>>
    BY <1>6 DEF Load
  <2> HIDE DEF after, events
  <2>5. TypeOK'
    BY <2>1, <2>2, <2>3, <2>4 DEF TypeOK, Goto, store, lock, Holding
  <2>6. \A d \in Callers : d # c => pc'[d] = pc[d] /\ draft'[d] = draft[d]
    BY <2>4 DEF TypeOK, Goto
  <2>7. /\ pc'[c] = IF after # claims THEN "write" ELSE "audit"
        /\ draft'[c] = new
    BY <2>4 DEF TypeOK, Goto
  <2>8. LockOK'
    BY <1>6, <2>4, <2>6, <2>7 DEF Load, LockOK, At, lock, Holding, Inside
  <2>9. JobOK'
    BY <1>6, <2>4, <2>6, <2>7 DEF Load, JobOK, At
  <2>10. DraftOK'
    <3>1. ASSUME NEW d \in Callers, d # c
          PROVE  /\ At(d, "write")' =>
                      /\ draft'[d].claims =
                           After(claims', job'[d].call, job'[d].id, draft'[d].at)
                      /\ draft'[d].events =
                           Events(claims', job'[d].call, job'[d].id, draft'[d].at)
                 /\ pc'[d] \in {"audit", "report"} => Backed(draft'[d].events, claims')
      BY <2>4, <2>6, <3>1 DEF DraftOK, At, store
    <3>2. At(c, "write")' =>
            /\ draft'[c].claims = After(claims', job'[c].call, job'[c].id, draft'[c].at)
            /\ draft'[c].events = Events(claims', job'[c].call, job'[c].id, draft'[c].at)
      BY <2>4, <2>7 DEF after, events, store
    <3>3. pc'[c] \in {"audit", "report"} => Backed(draft'[c].events, claims')
      BY <2>2, <2>4, <2>7 DEF store
    <3> QED BY <3>1, <3>2, <3>3 DEF DraftOK
  <2>11. StoreOK'
    BY <2>4 DEF StoreOK, store
  <2> QED BY <2>5, <2>8, <2>9, <2>10, <2>11
<1>7. ASSUME NEW c \in Callers, Write(c) PROVE IInv'
  <2>1. /\ pc[c] = "write" /\ claims' = draft[c].claims /\ Goto(c, "audit")
        /\ UNCHANGED <<audit, told, now, lock, calls, fd, job, draft>>
    BY <1>7 DEF Write, At
  <2>2. /\ claims' = After(claims, job[c].call, job[c].id, draft[c].at)
        /\ draft[c].events = Events(claims, job[c].call, job[c].id, draft[c].at)
    BY <2>1 DEF DraftOK, At
  <2>3. /\ job[c].call \in Calls /\ job[c].id \in Nat /\ draft[c].at \in Nat
        /\ claims \in SUBSET ClaimRecords
    BY <2>1 DEF JobOK, At, TypeOK
  <2>4. Evolves(claims, claims') /\ Backed(draft[c].events, claims')
    BY <2>2, <2>3, AfterEvolves
  <2>5. TypeOK'
    BY <2>1, <2>4 DEF TypeOK, Goto, lock, Holding, Evolves
  <2>6. (\A d \in Callers : d # c => pc'[d] = pc[d]) /\ pc'[c] = "audit"
    BY <2>1 DEF TypeOK, Goto
  <2>7. LockOK'
    BY <2>1, <2>6 DEF LockOK, At, lock, Holding, Inside
  <2>8. JobOK'
    BY <2>1, <2>6 DEF JobOK, At
  <2>9. \A d \in Callers : d # c => pc[d] \notin Inside
    BY <2>1, Alone DEF Inside
  <2>10. DraftOK'
    BY <2>1, <2>4, <2>6, <2>9 DEF DraftOK, At, Inside
  <2>11. StoreOK'
    <3>1. Backed(audit, claims')
      BY <2>4, BackedStays DEF StoreOK, TypeOK
    <3>2. Ids(claims) \subseteq Ids(claims')
      BY <2>4 DEF Ids, Evolves
    <3> QED BY <2>1, <2>4, <3>1, <3>2 DEF StoreOK, Evolves
  <2> QED BY <2>5, <2>7, <2>8, <2>10, <2>11
<1>8. ASSUME NEW c \in Callers, WriteAudit(c) PROVE IInv'
  <2>1. /\ pc[c] = "audit" /\ audit' \in {audit, audit \cup draft[c].events}
        /\ Goto(c, "report")
        /\ UNCHANGED <<claims, told, now, lock, calls, fd, job, draft>>
    BY <1>8 DEF WriteAudit, At
  <2>2. TypeOK'
    <3>1. draft[c].events \subseteq EventRecords
      BY DEF TypeOK
    <3>2. audit' \subseteq EventRecords
      BY <2>1, <3>1 DEF TypeOK
    <3> QED BY <2>1, <3>2 DEF TypeOK, Goto, lock, Holding
  <2>3. (\A d \in Callers : d # c => pc'[d] = pc[d]) /\ pc'[c] = "report"
    BY <2>1 DEF TypeOK, Goto
  <2>4. LockOK'
    BY <2>1, <2>3 DEF LockOK, At, lock, Holding, Inside
  <2>5. JobOK' /\ DraftOK'
    BY <2>1, <2>3 DEF JobOK, DraftOK, At
  <2>6. Backed(draft[c].events, claims)
    BY <2>1 DEF DraftOK
  <2>7. StoreOK'
    BY <2>1, <2>6 DEF StoreOK, Backed
  <2> QED BY <2>2, <2>4, <2>5, <2>7
<1>9. ASSUME NEW c \in Callers, Report(c) PROVE IInv'
  <2>1. /\ pc[c] = "report" /\ told' = told \cup {e[2] : e \in draft[c].events}
        /\ Leave(c) /\ UNCHANGED <<claims, audit, now, lock, calls>>
    BY <1>9 DEF Report, At
  <2>2. draft[c].events \subseteq EventRecords
    BY DEF TypeOK
  <2>3. told' \subseteq Nat
    BY <2>1, <2>2 DEF TypeOK, EventRecords
  <2>4. {e[2] : e \in draft[c].events} \subseteq Ids(claims)
    BY <2>1 DEF DraftOK, Backed, Ids
  <2>5. StoreOK'
    BY <2>1, <2>4 DEF StoreOK
  <2> QED BY <2>1, <2>3, <2>5, Leaving, LeavingTyped
<1>10. CASE ClockMoves
  <2>1. now' \in Nat /\ UNCHANGED <<store, lock, calls, process>>
    BY <1>10, ClaimsAssumption DEF ClockMoves
  <2>2. TypeOK' /\ LockOK'
    BY <2>1 DEF TypeOK, LockOK, At, store, lock, process
  <2>3. JobOK' /\ DraftOK' /\ StoreOK'
    BY <2>1 DEF JobOK, DraftOK, StoreOK, At, store, process
  <2> QED BY <2>2, <2>3
<1>11. CASE LockFileRemoved
  <2>1. /\ lockPath' = 0 /\ UNCHANGED <<store, now, inodes, calls, process>>
        /\ \A c \in Callers : pc[c] \notin Inside
    BY <1>11 DEF LockFileRemoved
  <2>2. TypeOK' /\ LockOK'
    BY <2>1 DEF TypeOK, LockOK, At, store, process
  <2>3. JobOK' /\ DraftOK' /\ StoreOK'
    BY <2>1 DEF JobOK, DraftOK, StoreOK, At, store, process
  <2> QED BY <2>2, <2>3
<1>12. CASE UNCHANGED vars
  <2>1. TypeOK' /\ LockOK'
    BY <1>12 DEF vars, TypeOK, LockOK, At, store, lock, process
  <2>2. JobOK' /\ DraftOK' /\ StoreOK'
    BY <1>12 DEF vars, JobOK, DraftOK, StoreOK, At, store, process
  <2> QED BY <2>1, <2>2
<1> QED BY <1>1, <1>2, <1>3, <1>4, <1>5, <1>6, <1>7, <1>8, <1>9, <1>10, <1>11, <1>12
        DEF Next, Step

\* The inductive invariant holds throughout.
THEOREM Invariance == Spec => []IInv
BY Initially, Inductive, PTL DEF Spec

\* The model keeps its types for any callers and calls.
THEOREM TypeCorrect == Spec => []TypeOK
<1>1. IInv => TypeOK
  BY DEF IInv
<1> QED BY <1>1, Invariance, PTL

\* No two active claims of one task, for any number of callers.
THEOREM OneActiveClaim == Spec => []OneActive
<1>1. IInv => OneActive
  BY DEF IInv, StoreOK, OneActiveIn, OneActive
<1> QED BY <1>1, Invariance, PTL

\* Nothing that was audited or reported is ever missing from the file.
THEOREM NothingDropped == Spec => []ReportedKept
<1>1. IInv => ReportedKept
  BY DEF IInv, StoreOK, Backed, ReportedKept
<1> QED BY <1>1, Invariance, PTL

\* Only writing changes the file.
LEMMA OnlyWrites ==
  ASSUME IInv, [Next]_vars, claims' # claims
  PROVE  \E c \in Callers :
           /\ claims' = After(claims, job[c].call, job[c].id, draft[c].at)
           /\ job[c].call \in Calls /\ job[c].id \in Nat /\ draft[c].at \in Nat
<1>1. PICK c \in Callers : Write(c)
  BY DEF Next, Step, StartCall, OpenLock, Acquire, TimeOut, CheckIdentity, Load,
         WriteAudit, Report, Die, ClockMoves, LockFileRemoved, store, vars
<1> QED BY <1>1 DEF Write, At, IInv, DraftOK, JobOK, TypeOK

\* Calls take effect one after the other.
THEOREM CallsSerial == Spec => AtomicCalls
<1>1. IInv /\ [Next]_vars =>
        [\E c \in Callers :
           claims' = After(claims, job[c].call, job[c].id, draft[c].at)]_claims
  BY OnlyWrites
<1> QED BY <1>1, Invariance, PTL DEF Spec, AtomicCalls

\* A claim that has ended is never changed or dropped again.
THEOREM EndedStays == Spec => EndedFinal
<1>1. IInv /\ [Next]_vars =>
        [\A k \in claims : k.status # "active" => k \in claims']_claims
  <2> SUFFICES ASSUME IInv, [Next]_vars, claims' # claims
               PROVE  \A k \in claims : k.status # "active" => k \in claims'
    OBVIOUS
  <2>1. PICK c \in Callers :
          /\ claims' = After(claims, job[c].call, job[c].id, draft[c].at)
          /\ job[c].call \in Calls /\ job[c].id \in Nat /\ draft[c].at \in Nat
    BY OnlyWrites
  <2>2. Evolves(claims, claims')
    BY <2>1, AfterEvolves DEF IInv, TypeOK
  <2> QED BY <2>2 DEF Evolves
<1> QED BY <1>1, Invariance, PTL DEF Spec, EndedFinal
=============================================================================
