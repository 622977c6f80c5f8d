------------------------- MODULE SessionIndexProofs -------------------------
(***************************************************************************)
(* Proofs about SessionIndex, for any callers, sessions and capacity: the  *)
(* index agrees with itself whatever calls overlap, and only a caller that *)
(* was overtaken loses anything in it.                                     *)
(***************************************************************************)
EXTENDS SessionIndex, TLAPS

-----------------------------------------------------------------------------
(***************************************************************************)
(* What the two changes of an index do to records that agree.              *)
(***************************************************************************)
\* The selected session has a record afterwards, and no id has two.
LEMMA WithRecordAgrees ==
  ASSUME NEW rs \in SUBSET Records, NEW s \in Ids, \A r, q \in rs : r.id = q.id => r = q
  PROVE  /\ WithRecord(rs, s) \in SUBSET Records
         /\ s \in IdsOf(WithRecord(rs, s))
         /\ \A r, q \in WithRecord(rs, s) : r.id = q.id => r = q
         /\ rs \subseteq WithRecord(rs, s)
<1>1. NewRecord(s) \in Records /\ NewRecord(s).id = s
  BY DEF NewRecord, Records
<1>2. CASE s \in IdsOf(rs)
  BY <1>2 DEF WithRecord
<1>3. CASE s \notin IdsOf(rs)
  <2>1. \A r \in rs : r.id # s
    BY <1>3 DEF IdsOf
  <2>2. WithRecord(rs, s) = rs \cup {NewRecord(s)}
    BY <1>3 DEF WithRecord
  <2> HIDE DEF WithRecord
  <2> QED BY <1>1, <2>1, <2>2 DEF IdsOf
<1> QED BY <1>2, <1>3

\* Selecting a session loses nothing and leaves one record for each id.
LEMMA SelectedAgrees ==
  ASSUME NEW rs \in SUBSET Records, NEW s \in Ids, NEW close \in BOOLEAN,
         \A r, q \in rs : r.id = q.id => r = q
  PROVE  /\ Selected(rs, s, close) \in SUBSET Records
         /\ Agrees(Selected(rs, s, close), s)
         /\ Keeps(rs, Selected(rs, s, close))
<1> DEFINE ws == WithRecord(rs, s)
           qs == Selected(rs, s, close)
<1>1. \A r \in Records :
        /\ Ended(r, s, close) \in Records /\ Ended(r, s, close).id = r.id
        /\ r.reports \subseteq Ended(r, s, close).reports
        /\ r.status = "closed" => Ended(r, s, close).status = "closed"
  BY DEF Records, Ended
<1>2. /\ ws \in SUBSET Records /\ s \in IdsOf(ws) /\ rs \subseteq ws
      /\ \A r, q \in ws : r.id = q.id => r = q
  BY WithRecordAgrees
<1>3. /\ \A r \in ws : Ended(r, s, close) \in qs
      /\ \A q \in qs : \E r \in ws : q = Ended(r, s, close)
  BY DEF Selected
<1> HIDE DEF ws, qs
<1>4. qs \in SUBSET Records
  BY <1>1, <1>2, <1>3
<1>5. ASSUME NEW p \in qs, NEW q \in qs, p.id = q.id PROVE p = q
  <2>1. PICK a \in ws : p = Ended(a, s, close)
    BY <1>3
  <2>2. PICK b \in ws : q = Ended(b, s, close)
    BY <1>3
  <2>3. a.id = b.id
    BY <1>1, <1>2, <1>5, <2>1, <2>2
  <2> QED BY <1>2, <2>1, <2>2, <2>3
<1>6. s \in IdsOf(qs)
  <2>1. PICK r \in ws : r.id = s
    BY <1>2 DEF IdsOf
  <2>2. Ended(r, s, close) \in qs /\ Ended(r, s, close).id = s
    BY <1>1, <1>2, <1>3, <2>1
  <2> QED BY <2>2 DEF IdsOf
<1>7. Keeps(rs, qs)
  <2> SUFFICES ASSUME NEW r \in rs
               PROVE  \E q \in qs : /\ q.id = r.id /\ r.reports \subseteq q.reports
                                    /\ r.status = "closed" => q.status = "closed"
    BY DEF Keeps
  <2>1. Ended(r, s, close) \in qs
    BY <1>2, <1>3
  <2> WITNESS Ended(r, s, close) \in qs
  <2> QED BY <1>1
<1> QED BY <1>4, <1>5, <1>6, <1>7 DEF Agrees, qs

\* Neither does referring a report to one, known or not.
LEMMA ReferredAgrees ==
  ASSUME NEW rs \in SUBSET Records, NEW s \in Ids, NEW key \in Keys,
         \A r, q \in rs : r.id = q.id => r = q
  PROVE  /\ Referred(rs, s, key) \in SUBSET Records
         /\ Agrees(Referred(rs, s, key), s)
         /\ Keeps(rs, Referred(rs, s, key))
<1> DEFINE ws == WithRecord(rs, s)
           qs == Referred(rs, s, key)
<1>1. \A r \in Records :
        /\ Noted(r, s, key) \in Records /\ Noted(r, s, key).id = r.id
        /\ r.reports \subseteq Noted(r, s, key).reports
        /\ r.status = "closed" => Noted(r, s, key).status = "closed"
  BY DEF Records, Noted
<1>2. /\ ws \in SUBSET Records /\ s \in IdsOf(ws) /\ rs \subseteq ws
      /\ \A r, q \in ws : r.id = q.id => r = q
  BY WithRecordAgrees
<1>3. /\ \A r \in ws : Noted(r, s, key) \in qs
      /\ \A q \in qs : \E r \in ws : q = Noted(r, s, key)
  BY DEF Referred
<1> HIDE DEF ws, qs
<1>4. qs \in SUBSET Records
  BY <1>1, <1>2, <1>3
<1>5. ASSUME NEW p \in qs, NEW q \in qs, p.id = q.id PROVE p = q
  <2>1. PICK a \in ws : p = Noted(a, s, key)
    BY <1>3
  <2>2. PICK b \in ws : q = Noted(b, s, key)
    BY <1>3
  <2>3. a.id = b.id
    BY <1>1, <1>2, <1>5, <2>1, <2>2
  <2> QED BY <1>2, <2>1, <2>2, <2>3
<1>6. s \in IdsOf(qs)
  <2>1. PICK r \in ws : r.id = s
    BY <1>2 DEF IdsOf
  <2>2. Noted(r, s, key) \in qs /\ Noted(r, s, key).id = s
    BY <1>1, <1>2, <1>3, <2>1
  <2> QED BY <2>2 DEF IdsOf
<1>7. Keeps(rs, qs)
  <2> SUFFICES ASSUME NEW r \in rs
               PROVE  \E q \in qs : /\ q.id = r.id /\ r.reports \subseteq q.reports
                                    /\ r.status = "closed" => q.status = "closed"
    BY DEF Keeps
  <2>1. Noted(r, s, key) \in qs
    BY <1>2, <1>3
  <2> WITNESS Noted(r, s, key) \in qs
  <2> QED BY <1>1
<1> QED BY <1>4, <1>5, <1>6, <1>7 DEF Agrees, qs

-----------------------------------------------------------------------------
(***************************************************************************)
(* The inductive invariant: a caller knows its session and its report, and *)
(* the index it is about to write agrees with itself.                      *)
(***************************************************************************)
CallOK == \A c \in Callers :
  /\ pc[c] \in {"select", "save"} => job[c] \in Commands
  /\ pc[c] \in {"refer", "saveReference"} => job[c] \in Jobs
  /\ pc[c] \in {"save", "refer", "saveReference"} => session[c] \in Ids

DraftOK == \A c \in Callers :
  pc[c] \in {"save", "saveReference"} => Agrees(draft[c].records, draft[c].latest)

IInv == TypeOK /\ CallOK /\ DraftOK /\ IndexAgrees

LEMMA Initially == Init => IInv
BY DEF Init, IInv, TypeOK, CallOK, DraftOK, IndexAgrees, Agrees, NoDraft

\* A caller that leaves leaves nothing behind.
LEMMA Leaving ==
  ASSUME IInv, NEW c \in Callers, Leave(c), UNCHANGED index, used' \subseteq Ids,
         overtaken' \subseteq Callers
  PROVE  IInv'
<1>1. TypeOK'
  BY DEF IInv, TypeOK, Leave, Goto, index, NoDraft
<1>2. \A d \in Callers :
        d # c => UNCHANGED <<pc[d], job[d], session[d], draft[d]>>
  BY DEF IInv, TypeOK, Leave, Goto
<1>3. pc'[c] = "idle"
  BY DEF IInv, TypeOK, Leave, Goto
<1>4. CallOK' /\ DraftOK'
  BY <1>2, <1>3 DEF IInv, CallOK, DraftOK
<1> QED BY <1>1, <1>4 DEF IInv, IndexAgrees, index

LEMMA Inductive == IInv /\ [Next]_vars => IInv'
<1> SUFFICES ASSUME IInv, [Next]_vars PROVE IInv'
  OBVIOUS
<1> USE DEF IInv
<1>1. ASSUME NEW c \in Callers, Begin(c) PROVE IInv'
  <2>1. PICK j \in Jobs :
          /\ job' = [job EXCEPT ![c] = j]
          /\ session' = [session EXCEPT ![c] = j.requested]
          /\ used' = used \cup ({j.requested} \ {None})
          /\ pc' = [pc EXCEPT ![c] = IF j.kind = "command" THEN "select" ELSE "refer"]
    BY <1>1 DEF Begin, Goto
  <2>2. /\ j.requested \in Ids \cup {None}
        /\ j.kind = "command" => j \in Commands
        /\ j.kind # "command" => j.requested \in Ids
    BY DEF Jobs, Commands, Reports
  <2>3. UNCHANGED <<records, latest, draft, overtaken>>
    BY <1>1 DEF Begin, index
  <2> HIDE DEF IInv
  <2>4. TypeOK'
    BY <2>1, <2>2, <2>3 DEF IInv, TypeOK
  <2>5. CallOK'
    BY <2>1, <2>2 DEF IInv, TypeOK, CallOK
  <2>6. DraftOK' /\ IndexAgrees'
    BY <2>1, <2>3 DEF IInv, TypeOK, DraftOK, IndexAgrees
  <2> QED BY <2>4, <2>5, <2>6 DEF IInv
<1>2. ASSUME NEW c \in Callers, Refuse(c) \/ Stop(c) PROVE IInv'
  BY <1>2, Leaving DEF Refuse, Stop, TypeOK
<1>3. ASSUME NEW c \in Callers, Select(c) PROVE IInv'
  <2>1. PICK s \in Ids :
          /\ session' = [session EXCEPT ![c] = s]
          /\ used' = used \cup {s}
          /\ draft' = [draft EXCEPT ![c] =
               [records |-> Selected(records, s, job[c].close), latest |-> s]]
    BY <1>3 DEF Select
  <2>2. pc[c] = "select" /\ pc' = [pc EXCEPT ![c] = "save"] /\ UNCHANGED <<records, latest, job, overtaken>>
    BY <1>3 DEF Select, At, Goto, index
  <2>3. job[c] \in Commands /\ job[c].close \in BOOLEAN
    BY <2>2 DEF CallOK, Commands
  <2>4. /\ Selected(records, s, job[c].close) \in SUBSET Records
        /\ Agrees(Selected(records, s, job[c].close), s)
    BY <2>3, SelectedAgrees DEF TypeOK, IndexAgrees, Agrees
  <2>5. TypeOK'
    BY <2>1, <2>2, <2>4 DEF TypeOK
  <2>6. CallOK' /\ IndexAgrees'
    BY <2>1, <2>2, <2>3 DEF CallOK, TypeOK, IndexAgrees
  <2>7. DraftOK'
    BY <2>1, <2>2, <2>4 DEF DraftOK, TypeOK
  <2> QED BY <2>5, <2>6, <2>7
<1>4. ASSUME NEW c \in Callers, Save(c) PROVE IInv'
  <2>1. /\ pc[c] = "save" /\ pc' = [pc EXCEPT ![c] = "refer"]
        /\ records' = draft[c].records /\ latest' = draft[c].latest
        /\ overtaken' \subseteq Callers
        /\ UNCHANGED <<used, job, session, draft>>
    BY <1>4 DEF Save, At, Goto, Replace, Drafting
  <2>2. TypeOK'
    BY <2>1 DEF TypeOK
  <2>3. CallOK' /\ DraftOK'
    BY <2>1 DEF CallOK, DraftOK, TypeOK, Jobs
  <2>4. IndexAgrees'
    BY <2>1 DEF DraftOK, IndexAgrees
  <2> QED BY <2>2, <2>3, <2>4
<1>5. ASSUME NEW c \in Callers, Refer(c) PROVE IInv'
  <2> DEFINE new == Referred(records, session[c], job[c].key)
  <2>1. /\ pc[c] = "refer" /\ pc' = [pc EXCEPT ![c] = "saveReference"]
        /\ draft' = [draft EXCEPT ![c] = [records |-> new, latest |-> session[c]]]
        /\ UNCHANGED <<records, latest, used, job, session, overtaken>>
    BY <1>5 DEF Refer, At, Goto, index
  <2>2. job[c].key \in Keys /\ session[c] \in Ids
    BY <2>1 DEF CallOK, Jobs, Commands, Reports
  <2>3. new \in SUBSET Records /\ Agrees(new, session[c])
    BY <2>2, ReferredAgrees DEF TypeOK, IndexAgrees, Agrees
  <2> HIDE DEF new
  <2>4. TypeOK'
    BY <2>1, <2>2, <2>3 DEF TypeOK
  <2>5. CallOK' /\ IndexAgrees'
    BY <2>1 DEF CallOK, TypeOK, IndexAgrees
  <2>6. DraftOK'
    BY <2>1, <2>3 DEF DraftOK, TypeOK
  <2> QED BY <2>4, <2>5, <2>6
<1>6. ASSUME NEW c \in Callers, SaveReference(c) PROVE IInv'
  <2>1. /\ pc[c] = "saveReference" /\ Leave(c)
        /\ records' = draft[c].records /\ latest' = draft[c].latest
        /\ overtaken' \subseteq Callers /\ UNCHANGED used
    BY <1>6 DEF SaveReference, At, Replace, Drafting
  <2>2. TypeOK'
    BY <2>1 DEF TypeOK, Leave, Goto, NoDraft
  <2>3. \A d \in Callers :
          d # c => UNCHANGED <<pc[d], job[d], session[d], draft[d]>>
    BY <2>1 DEF TypeOK, Leave, Goto
  <2>4. pc'[c] = "idle"
    BY <2>1 DEF TypeOK, Leave, Goto
  <2>5. CallOK' /\ DraftOK'
    BY <2>3, <2>4 DEF CallOK, DraftOK
  <2>6. IndexAgrees'
    BY <2>1 DEF DraftOK, IndexAgrees
  <2> QED BY <2>2, <2>5, <2>6
<1>7. CASE UNCHANGED vars
  BY <1>7 DEF vars, index, process, TypeOK, CallOK, DraftOK, IndexAgrees
<1> QED BY <1>1, <1>2, <1>3, <1>4, <1>5, <1>6, <1>7 DEF Next, Step

THEOREM Invariance == Spec => []IInv
BY Initially, Inductive, PTL DEF Spec

\* Every reachable index and every caller's state is of the expected shape.
THEOREM TypeCorrect == Spec => []TypeOK
<1>1. IInv => TypeOK
  BY DEF IInv
<1> QED BY <1>1, Invariance, PTL

\* Whatever calls overlap, the index agrees with itself: inspection never
\* refuses for that reason an index these commands wrote.
THEOREM AlwaysAgrees == Spec => []IndexAgrees
<1>1. IInv => IndexAgrees
  BY DEF IInv
<1> QED BY <1>1, Invariance, PTL

-----------------------------------------------------------------------------
(***************************************************************************)
(* The draft of a caller that was not overtaken has all the index has.     *)
(***************************************************************************)
DraftKeeps == \A c \in Drafting \ overtaken : Keeps(records, draft[c].records)

KeptInv == IInv /\ DraftKeeps

LEMMA KeptInductive == KeptInv /\ [Next]_vars => KeptInv'
<1> SUFFICES ASSUME KeptInv, [Next]_vars PROVE DraftKeeps'
  BY Inductive DEF KeptInv
<1>0. TypeOK /\ CallOK /\ IndexAgrees /\ DraftKeeps
  BY DEF KeptInv, IInv
<1> USE <1>0
<1>1. ASSUME NEW c \in Callers, Begin(c) PROVE DraftKeeps'
  <2>1. PICK j \in Jobs :
          pc' = [pc EXCEPT ![c] = IF j.kind = "command" THEN "select" ELSE "refer"]
    BY <1>1 DEF Begin, Goto
  <2>2. UNCHANGED <<records, draft, overtaken>>
    BY <1>1 DEF Begin, index
  <2> QED BY <2>1, <2>2 DEF DraftKeeps, Drafting, TypeOK
<1>2. ASSUME NEW c \in Callers, Refuse(c) \/ Stop(c) PROVE DraftKeeps'
  <2>1. /\ \A d \in Callers : d # c => UNCHANGED <<pc[d], draft[d]>>
        /\ pc'[c] = "idle" /\ overtaken' = overtaken \ {c} /\ UNCHANGED records
    BY <1>2 DEF Refuse, Stop, Leave, Goto, TypeOK, index
  <2> QED BY <2>1 DEF DraftKeeps, Drafting
<1>3. ASSUME NEW c \in Callers, Select(c) PROVE DraftKeeps'
  <2>1. PICK s \in Ids : draft' = [draft EXCEPT ![c] =
               [records |-> Selected(records, s, job[c].close), latest |-> s]]
    BY <1>3 DEF Select
  <2>2. /\ pc[c] = "select" /\ pc' = [pc EXCEPT ![c] = "save"]
        /\ UNCHANGED <<records, overtaken>>
    BY <1>3 DEF Select, At, Goto, index
  <2>3. job[c].close \in BOOLEAN
    BY <2>2 DEF CallOK, Commands
  <2>4. Keeps(records, Selected(records, s, job[c].close))
    BY <2>3, SelectedAgrees DEF TypeOK, IndexAgrees, Agrees
  <2> QED BY <2>1, <2>2, <2>4 DEF DraftKeeps, Drafting, TypeOK
<1>4. ASSUME NEW c \in Callers, Save(c) PROVE DraftKeeps'
  <2>1. pc' = [pc EXCEPT ![c] = "refer"] /\ overtaken' = Drafting \ {c}
    BY <1>4 DEF Save, Goto, Replace
  <2>2. Drafting' \ overtaken' = {}
    BY <2>1 DEF Drafting, TypeOK
  <2> QED BY <2>2 DEF DraftKeeps
<1>5. ASSUME NEW c \in Callers, Refer(c) PROVE DraftKeeps'
  <2> DEFINE new == Referred(records, session[c], job[c].key)
  <2>1. /\ pc[c] = "refer" /\ pc' = [pc EXCEPT ![c] = "saveReference"]
        /\ draft' = [draft EXCEPT ![c] = [records |-> new, latest |-> session[c]]]
        /\ UNCHANGED <<records, overtaken>>
    BY <1>5 DEF Refer, At, Goto, index
  <2>2. job[c].key \in Keys /\ session[c] \in Ids
    BY <2>1 DEF CallOK, Jobs, Commands, Reports
  <2>3. Keeps(records, new)
    BY <2>2, ReferredAgrees DEF TypeOK, IndexAgrees, Agrees
  <2> HIDE DEF new
  <2> QED BY <2>1, <2>3 DEF DraftKeeps, Drafting, TypeOK
<1>6. ASSUME NEW c \in Callers, SaveReference(c) PROVE DraftKeeps'
  <2>1. pc' = [pc EXCEPT ![c] = "idle"] /\ overtaken' = Drafting \ {c}
    BY <1>6 DEF SaveReference, Leave, Goto, Replace
  <2>2. Drafting' \ overtaken' = {}
    BY <2>1 DEF Drafting, TypeOK
  <2> QED BY <2>2 DEF DraftKeeps
<1>7. CASE UNCHANGED vars
  BY <1>7 DEF vars, index, process, DraftKeeps, Drafting
<1> QED BY <1>1, <1>2, <1>3, <1>4, <1>5, <1>6, <1>7 DEF Next, Step

\* Each write by a caller that was not overtaken keeps every session, its
\* reports and its end, for any number of callers and sessions.
THEOREM OnlyOvertakenLose == Spec => SessionsKept
<1> DEFINE Kept == \A c \in Callers :
             Writes(c) /\ c \notin overtaken => Keeps(records, records')
<1>1. Init => KeptInv
  <2>1. Init => DraftKeeps
    BY DEF Init, DraftKeeps, Drafting
  <2> QED BY <2>1, Initially DEF KeptInv
<1>2. KeptInv /\ [Next]_vars => [Kept]_index
  <2> SUFFICES ASSUME KeptInv, [Next]_vars, index' # index,
                      NEW d \in Callers, Writes(d), d \notin overtaken
               PROVE  Keeps(records, records')
    BY DEF Kept
  <2>1. PICK c \in Callers : Save(c) \/ SaveReference(c)
    BY DEF Next, Step, vars, index, Begin, Refuse, Select, Refer, Stop
  <2>2. records' = draft[c].records /\ \E p : pc' = [pc EXCEPT ![c] = p]
    BY <2>1 DEF Save, SaveReference, Replace, Leave, Goto
  <2>3. d = c
    BY <2>2 DEF Writes, KeptInv, IInv, TypeOK
  <2> QED BY <2>2, <2>3 DEF KeptInv, DraftKeeps, Writes
<1>3. [Kept]_index <=> [\A c \in Callers :
        Writes(c) /\ c \notin overtaken => Keeps(records, records')]_index
  BY DEF Kept
<1> QED BY <1>1, <1>2, <1>3, KeptInductive, PTL DEF Spec, SessionsKept
=============================================================================
