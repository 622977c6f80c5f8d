---------------------------- MODULE SessionIndex ----------------------------
(***************************************************************************)
(* The session index (scripts/naos_session_identity.py): commands select,  *)
(* create or close a session and later refer its reports to it.  Each time *)
(* they read the whole index, change it and replace the file, with no lock *)
(* around the three.                                                       *)
(*                                                                         *)
(* The index lists the active and the closed ids beside the records; they  *)
(* are derived from the records at every write and are not kept here.      *)
(* Which of several active sessions is the latest is left open.            *)
(***************************************************************************)
EXTENDS Naturals, FiniteSets

CONSTANTS
  Callers,   \* processes
  Ids,       \* session ids
  None,      \* no session
  Keys,      \* the reports a session refers to
  Capacity   \* records an index may have (10000)

ASSUME SessionAssumption ==
  /\ None \notin Ids /\ Capacity \in Nat

VARIABLES
  records,   \* the session records of the index
  latest,    \* its latest_session_id
  used,      \* ids that were generated, or given by somebody
  pc,        \* control point of each caller
  job,       \* the call each caller is at
  session,   \* the session it has selected
  draft,     \* the index it is about to write
  overtaken  \* history: callers whose draft is of an index replaced since

index == <<records, latest>>
process == <<pc, job, session, draft>>
vars == <<index, used, process, overtaken>>

Records == [id : Ids, status : {"active", "closed"}, reports : SUBSET Keys]
Commands == [kind : {"command"}, requested : Ids \cup {None}, new : BOOLEAN,
             close : BOOLEAN, key : Keys]
Reports == [kind : {"report"}, requested : Ids, key : Keys]
Jobs == Commands \cup Reports

NoJob == [kind |-> "none"]
NoDraft == [records |-> {}, latest |-> None]

TypeOK ==
  /\ records \subseteq Records
  /\ latest \in Ids \cup {None}
  /\ used \subseteq Ids
  /\ pc \in [Callers -> {"idle", "select", "save", "refer", "saveReference"}]
  /\ job \in [Callers -> Jobs \cup {NoJob}]
  /\ session \in [Callers -> Ids \cup {None}]
  /\ draft \in [Callers -> [records : SUBSET Records, latest : Ids \cup {None}]]
  /\ overtaken \subseteq Callers

-----------------------------------------------------------------------------
(***************************************************************************)
(* What a call does to the records rs it has read.                         *)
(***************************************************************************)
IdsOf(rs) == {r.id : r \in rs}
ActiveIds(rs) == {r.id : r \in {q \in rs : q.status = "active"}}

\* Variant: a new record carries the status of the call that made it.
RecordOfCall(s) == [id |-> s, status |-> "session_created", reports |-> {}]

NewRecord(s) == [id |-> s, status |-> "active", reports |-> {}]

\* Variant: a selected session gets a new record.
AlwaysRenewed(rs, s) == {r \in rs : r.id # s} \cup {NewRecord(s)}

WithRecord(rs, s) == IF s \in IdsOf(rs) THEN rs ELSE rs \cup {NewRecord(s)}

\* A closed session that is selected again stays closed.
Ended(r, s, close) == IF r.id = s /\ close THEN [r EXCEPT !.status = "closed"] ELSE r

Selected(rs, s, close) == {Ended(r, s, close) : r \in WithRecord(rs, s)}

Noted(r, s, key) == IF r.id = s THEN [r EXCEPT !.reports = @ \cup {key}] ELSE r

\* Variant: a session missing from the index gets no record.
ReferredIfKnown(rs, s, key) == {Noted(r, s, key) : r \in rs}

Referred(rs, s, key) == {Noted(r, s, key) : r \in WithRecord(rs, s)}

\* A longer index is refused by whoever reads it.
Loads(rs) == Cardinality(rs) <= Capacity

-----------------------------------------------------------------------------
Init ==
  /\ records = {} /\ latest = None /\ used = {}
  /\ pc = [c \in Callers |-> "idle"]
  /\ job = [c \in Callers |-> NoJob]
  /\ session = [c \in Callers |-> None]
  /\ draft = [c \in Callers |-> NoDraft]
  /\ overtaken = {}

At(c, p) == pc[c] = p
Goto(c, p) == pc' = [pc EXCEPT ![c] = p]

Leave(c) ==
  /\ Goto(c, "idle")
  /\ job' = [job EXCEPT ![c] = NoJob]
  /\ session' = [session EXCEPT ![c] = None]
  /\ draft' = [draft EXCEPT ![c] = NoDraft]

\* Calls are commands (session identity and lifecycle), or other scripts that
\* only refer a report to the session they were given.
Begin(c) ==
  /\ At(c, "idle")
  /\ \E j \in Jobs :
       /\ job' = [job EXCEPT ![c] = j]
       /\ session' = [session EXCEPT ![c] = j.requested]
       /\ used' = used \cup ({j.requested} \ {None})
       /\ Goto(c, IF j.kind = "command" THEN "select" ELSE "refer")
  /\ UNCHANGED <<index, draft, overtaken>>

Refuse(c) ==
  /\ pc[c] \in {"select", "refer"} /\ ~Loads(records)
  /\ Leave(c)
  /\ overtaken' = overtaken \ {c}
  /\ UNCHANGED <<index, used>>

\* The session asked for, else the latest active one, else a new one (as long
\* as Ids lasts).
MaySelect(c, s) ==
  IF job[c].requested # None THEN s = job[c].requested
  ELSE IF job[c].new \/ ActiveIds(records) = {} THEN s \notin used
  ELSE s \in ActiveIds(records)

Select(c) ==
  /\ At(c, "select") /\ Loads(records)
  /\ \E s \in Ids :
       /\ MaySelect(c, s)
       /\ session' = [session EXCEPT ![c] = s]
       /\ used' = used \cup {s}
       /\ draft' = [draft EXCEPT ![c] =
            [records |-> Selected(records, s, job[c].close), latest |-> s]]
  /\ Goto(c, "save")
  /\ UNCHANGED <<index, job, overtaken>>

\* The file is replaced as a whole, whatever it has become meanwhile.
Drafting == {c \in Callers : pc[c] \in {"save", "saveReference"}}

Replace(c) ==
  /\ records' = draft[c].records /\ latest' = draft[c].latest
  /\ overtaken' = Drafting \ {c}

Save(c) ==
  /\ At(c, "save")
  /\ Replace(c)
  /\ Goto(c, "refer")
  /\ UNCHANGED <<used, job, session, draft>>

Refer(c) ==
  /\ At(c, "refer") /\ Loads(records)
  /\ draft' = [draft EXCEPT ![c] =
       [records |-> Referred(records, session[c], job[c].key), latest |-> session[c]]]
  /\ Goto(c, "saveReference")
  /\ UNCHANGED <<index, used, job, session, overtaken>>

SaveReference(c) ==
  /\ At(c, "saveReference")
  /\ Replace(c)
  /\ Leave(c)
  /\ UNCHANGED used

\* The process dies, an exception ends the call, or it has no report to refer.
Stop(c) ==
  /\ ~At(c, "idle")
  /\ Leave(c)
  /\ overtaken' = overtaken \ {c}
  /\ UNCHANGED <<index, used>>

Step(c) ==
  \/ Begin(c) \/ Refuse(c) \/ Select(c) \/ Save(c) \/ Refer(c)
  \/ SaveReference(c) \/ Stop(c)

Next == \E c \in Callers : Step(c)

Spec == Init /\ [][Next]_vars

-----------------------------------------------------------------------------
(***************************************************************************)
(* Properties.                                                             *)
(***************************************************************************)
\* An id has one record, and the latest session has one too.
Agrees(rs, l) ==
  /\ \A r, q \in rs : r.id = q.id => r = q
  /\ l # None => l \in IdsOf(rs)

\* Whatever calls overwrite each other's updates, the index never disagrees
\* with itself: inspect_session_context refuses one that does.
IndexAgrees == Agrees(records, latest)

\* The records qs have every session of rs, its reports and its end.
Keeps(rs, qs) ==
  \A r \in rs : \E q \in qs :
    /\ q.id = r.id /\ r.reports \subseteq q.reports
    /\ r.status = "closed" => q.status = "closed"

Writes(c) == c \in Drafting /\ pc'[c] # pc[c]

\* However calls overlap and fail, a session or one of its reports is lost, or a
\* closed session opened again, only by a caller whose index was replaced by
\* another between its reading and its writing.
SessionsKept ==
  [][\A c \in Callers : Writes(c) /\ c \notin overtaken => Keeps(records, records')]_index

\* "Sessions index records are invalid or unbounded"
\* (naos_session_identity.py:158): the index the commands write is one they
\* accept when they read it back.
WrittenIndexLoads == Loads(records)
=============================================================================
