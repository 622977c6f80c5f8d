----------------------------- MODULE TaskClaims -----------------------------
(***************************************************************************)
(* Task claims (scripts/naos_task_claims.py): callers on one machine claim *)
(* and release tasks in a YAML file that each of them reads, changes and   *)
(* replaces as a whole, under an advisory lock on a separate lock file.    *)
(*                                                                         *)
(* The lock belongs to the inode a caller has opened, not to the path, and *)
(* the path may be unlinked by somebody else (a clean checkout, say) while *)
(* callers wait.  It is not unlinked while a caller is inside.             *)
(***************************************************************************)
EXTENDS Naturals

CONSTANTS
  Callers,    \* processes
  Calls,      \* the calls they make
  Nobody,     \* unresolved operator or session
  TTL,        \* default lifetime of a claim
  MaxTime,    \* bound of the clock
  MaxCalls,   \* bound of the calls ever made
  MaxInodes   \* bound of the lock files ever made

Actions == {"claim", "release", "list"}
Tasks == {k.task : k \in Calls}
People == {k.operator : k \in Calls} \cup {Nobody}
Sessions == {k.session : k \in Calls} \cup {Nobody}

\* extend is the time of --expires-at, 0 when it is not given.
ASSUME ClaimsAssumption ==
  /\ Calls \subseteq [action : Actions, task : Tasks, operator : People,
                      session : Sessions, extend : Nat]
  /\ TTL \in Nat /\ MaxTime \in Nat /\ MaxCalls \in Nat /\ MaxInodes \in Nat

VARIABLES
  claims,     \* the claims in the file
  audit,      \* <<event, claim id>>: the audit events written
  told,       \* ids of the claims a caller was told it had made
  now,        \* the clock
  lockPath,   \* inode at the lock path, 0 when there is none
  inodes,     \* number of lock files made so far
  calls,      \* number of calls made so far
  pc, fd,     \* control point and open lock file (0: none) of each caller
  job,        \* the call each caller is at
  draft       \* what each caller has computed of it

store == <<claims, audit, told>>
lock  == <<lockPath, inodes>>
process == <<pc, fd, job, draft>>
vars  == <<store, now, lock, calls, process>>

Ids(ks) == {k.id : k \in ks}

-----------------------------------------------------------------------------
(***************************************************************************)
(* What a call does to a set of claims at time t.                          *)
(***************************************************************************)
StatusAt(k, t) ==
  CASE k.status # "active" -> k.status
    [] k.status = "active" /\ t > k.expires -> "expired"
    [] k.status = "active" /\ t <= k.expires /\ t > k.claimed + TTL -> "stale"
    [] OTHER -> "active"

Normalized(ks, t) == {[k EXCEPT !.status = StatusAt(k, t)] : k \in ks}

Active(ks, task) == {k \in ks : k.task = task /\ k.status = "active"}

SameSession(k, q) ==
  q.session = Nobody \/ k.session = Nobody \/ k.session = q.session
SameHolder(k, q) == k.operator = q.operator /\ SameSession(k, q)

\* Variant: a claim beside somebody else's active claim is active as well.
SharedStatus(ks, q) == "active"

\* A second claim on a task never displaces the active one.
ClaimStatus(ks, q) == IF Active(ks, q.task) = {} THEN "active" ELSE "conflicting"

\* Variant: the lifetime is counted backwards.
NewClaimBackwards(q, id, t, status) ==
  [id |-> id, task |-> q.task, operator |-> q.operator, session |-> q.session,
   claimed |-> t, expires |-> t - TTL, status |-> status]

NewClaim(q, id, t, status) ==
  [id |-> id, task |-> q.task, operator |-> q.operator, session |-> q.session,
   claimed |-> t, expires |-> t + TTL, status |-> status]

Claimed(ks, q, id, t) ==
  IF \E k \in Active(ks, q.task) : SameHolder(k, q) THEN ks
  ELSE ks \cup {NewClaim(q, id, t, ClaimStatus(ks, q))}

\* An unresolved operator releases whatever its session does not rule out.
Releasable(ks, q) ==
  {k \in Active(ks, q.task) :
     (q.operator = Nobody \/ k.operator = q.operator) /\ SameSession(k, q)}

\* Variant: a released claim is taken out of the file.
ReleasedDropped(ks, q) == ks \ Releasable(ks, q)

Released(ks, q) ==
  {IF k \in Releasable(ks, q) THEN [k EXCEPT !.status = "released"] ELSE k : k \in ks}

\* Variant: claims that have ended get a new expiry too.
ExtendableAny(ks, q) ==
  {k \in ks : k.task = q.task /\ k.operator = q.operator}

Extendable(ks, q) == {k \in Active(ks, q.task) : k.operator = q.operator}

Extended(ks, q) ==
  {IF q.extend # 0 /\ k \in Extendable(ks, q)
   THEN [k EXCEPT !.expires = q.extend] ELSE k : k \in ks}

After(ks, q, id, t) ==
  LET n == Normalized(ks, t) IN
  CASE q.action = "claim"   -> Extended(Claimed(n, q, id, t), q)
    [] q.action = "release" -> Released(n, q)
    [] OTHER -> ks

\* The audit events of a call.
Events(ks, q, id, t) ==
  LET n == Normalized(ks, t) IN
  CASE q.action = "claim" /\ Claimed(n, q, id, t) # n ->
         {<<IF ClaimStatus(n, q) = "active" THEN "task_claimed"
            ELSE "task_claim_conflict_detected", id>>}
    [] q.action = "release" -> {<<"task_released", k.id>> : k \in Releasable(n, q)}
    [] OTHER -> {}

-----------------------------------------------------------------------------
\* The caller has the lock; it is past the identity check.
Holding == {"check", "load", "write", "audit", "report"}
Inside == {"load", "write", "audit", "report"}

ClaimRecords ==
  [id : Nat, task : Tasks, operator : People, session : Sessions,
   claimed : Nat, expires : Nat,
   status : {"active", "released", "expired", "stale", "conflicting"}]
EventRecords ==
  {"task_claimed", "task_claim_conflict_detected", "task_released"} \X Nat

NoCall == [action |-> "list", task |-> Nobody, operator |-> Nobody,
           session |-> Nobody, extend |-> 0]
NoJob == [call |-> NoCall, id |-> 0]
NoDraft == [claims |-> {}, at |-> 0, events |-> {}]

TypeOK ==
  /\ claims \subseteq ClaimRecords
  /\ audit \subseteq EventRecords
  /\ told \subseteq Nat
  /\ now \in Nat /\ calls \in Nat
  /\ inodes \in Nat /\ lockPath \in 0..inodes
  /\ pc \in [Callers -> {"idle", "open", "wait"} \cup Holding]
  /\ fd \in [Callers -> 0..inodes]
  /\ job \in [Callers -> [call : Calls \cup {NoCall}, id : 0..calls]]
  /\ draft \in [Callers -> [claims : SUBSET ClaimRecords, at : Nat,
                            events : SUBSET EventRecords]]

Init ==
  /\ claims = {} /\ audit = {} /\ told = {} /\ now = 0 /\ calls = 0
  /\ lockPath = 0 /\ inodes = 0
  /\ pc = [c \in Callers |-> "idle"]
  /\ fd = [c \in Callers |-> 0]
  /\ job = [c \in Callers |-> NoJob]
  /\ draft = [c \in Callers |-> NoDraft]

At(c, p) == pc[c] = p
Goto(c, p) == pc' = [pc EXCEPT ![c] = p]

\* The end of a call closes the lock file, which gives up the lock, and leaves
\* nothing of the process.
Leave(c) ==
  /\ Goto(c, "idle") /\ fd' = [fd EXCEPT ![c] = 0]
  /\ job' = [job EXCEPT ![c] = NoJob] /\ draft' = [draft EXCEPT ![c] = NoDraft]

-----------------------------------------------------------------------------
StartCall(c) ==
  /\ At(c, "idle") /\ calls < MaxCalls
  /\ \E q \in Calls : job' = [job EXCEPT ![c] = [call |-> q, id |-> calls + 1]]
  /\ calls' = calls + 1
  /\ Goto(c, "open")
  /\ UNCHANGED <<store, now, lock, fd, draft>>

\* The lock file is opened, and made when there is none.
OpenLock(c) ==
  /\ At(c, "open")
  /\ \/ lockPath # 0 /\ UNCHANGED lock /\ fd' = [fd EXCEPT ![c] = lockPath]
     \/ /\ lockPath = 0 /\ inodes < MaxInodes
        /\ inodes' = inodes + 1 /\ lockPath' = inodes + 1
        /\ fd' = [fd EXCEPT ![c] = inodes + 1]
  /\ Goto(c, "wait")
  /\ UNCHANGED <<store, now, calls, job, draft>>

Free(i) == \A d \in Callers : pc[d] \in Holding => fd[d] # i

Acquire(c) ==
  /\ At(c, "wait") /\ Free(fd[c])
  /\ Goto(c, "check")
  /\ UNCHANGED <<store, now, lock, calls, fd, job, draft>>

\* Ten seconds pass: nothing is written, not even the shared report.
TimeOut(c) ==
  /\ At(c, "wait") /\ ~Free(fd[c])
  /\ Leave(c)
  /\ UNCHANGED <<store, now, lock, calls>>

\* Variant: the path is not looked at again once the lock is held.
AnyInode(c) == TRUE

\* The lock counts only while its inode is still the one at the path.
SameInode(c) == lockPath = fd[c]

CheckIdentity(c) ==
  /\ At(c, "check")
  /\ IF SameInode(c) THEN Goto(c, "load") /\ UNCHANGED <<fd, job, draft>>
                     ELSE Leave(c)
  /\ UNCHANGED <<store, now, lock, calls>>

\* The clock and the file are read, and the outcome is computed.
Load(c) ==
  /\ At(c, "load")
  /\ LET after  == After(claims, job[c].call, job[c].id, now)
         events == Events(claims, job[c].call, job[c].id, now)
     IN /\ draft' = [draft EXCEPT ![c] = [claims |-> after, at |-> now, events |-> events]]
        /\ Goto(c, IF after # claims THEN "write" ELSE "audit")
  /\ UNCHANGED <<store, now, lock, calls, fd, job>>

Write(c) ==
  /\ At(c, "write")
  /\ claims' = draft[c].claims
  /\ Goto(c, "audit")
  /\ UNCHANGED <<audit, told, now, lock, calls, fd, job, draft>>

\* An audit event that cannot be written is reported and otherwise ignored.
WriteAudit(c) ==
  /\ At(c, "audit")
  /\ audit' \in {audit, audit \cup draft[c].events}
  /\ Goto(c, "report")
  /\ UNCHANGED <<claims, told, now, lock, calls, fd, job, draft>>

Report(c) ==
  /\ At(c, "report")
  /\ told' = told \cup {e[2] : e \in draft[c].events}
  /\ Leave(c)
  /\ UNCHANGED <<claims, audit, now, lock, calls>>

\* The process dies, or an exception ends the call: the system drops the lock.
Die(c) ==
  /\ ~At(c, "idle")
  /\ Leave(c)
  /\ UNCHANGED <<store, now, lock, calls>>

-----------------------------------------------------------------------------
\* The clock of a call can be set from outside, so it need not be monotonic.
ClockMoves ==
  /\ now' \in 0..MaxTime /\ now' # now
  /\ UNCHANGED <<store, lock, calls, process>>

LockFileRemoved ==
  /\ lockPath # 0 /\ inodes < MaxInodes
  /\ \A c \in Callers : pc[c] \notin Inside
  /\ lockPath' = 0
  /\ UNCHANGED <<store, now, inodes, calls, process>>

Step(c) ==
  \/ StartCall(c) \/ OpenLock(c) \/ Acquire(c) \/ TimeOut(c) \/ CheckIdentity(c)
  \/ Load(c) \/ Write(c) \/ WriteAudit(c) \/ Report(c) \/ Die(c)

Next == (\E c \in Callers : Step(c)) \/ ClockMoves \/ LockFileRemoved

Spec == Init /\ [][Next]_vars

-----------------------------------------------------------------------------
(***************************************************************************)
(* Properties.                                                             *)
(***************************************************************************)
\* No task ever has two active claims in the file, however claims, expiries,
\* extensions, crashes and removals of the lock file interleave.
OneActive ==
  \A k, l \in claims :
    k.task = l.task /\ k.status = "active" /\ l.status = "active" => k = l

\* Whatever was audited or reported to a caller is in the file and stays
\* there: no other caller's write has dropped it.
ReportedKept ==
  /\ told \subseteq Ids(claims)
  /\ \A e \in audit : \E k \in claims :
       /\ k.id = e[2]
       /\ e[1] = "task_released" => k.status = "released"
       /\ e[1] = "task_claim_conflict_detected" => k.status = "conflicting"

\* Every change of the file is one call applied to the file as it is at that
\* moment: callers take effect one after the other.
AtomicCalls ==
  [][\E c \in Callers :
       claims' = After(claims, job[c].call, job[c].id, draft[c].at)]_claims

\* A claim that has ended stays in the file as it is.
EndedFinal ==
  [][\A k \in claims : k.status # "active" => k \in claims']_claims
=============================================================================
