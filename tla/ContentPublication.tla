------------------------- MODULE ContentPublication -------------------------
(***************************************************************************)
(* What a managed-content transaction promises the owner of the tree, with *)
(* no journal, no process and no crash: contents are only ever traded      *)
(* between a public leaf and its private slot; the plan is committed as a  *)
(* whole, with every displaced original still at hand, or closed with      *)
(* nothing of it left; and only the engine's own content, or after the     *)
(* commit the displaced originals, are discarded.                          *)
(***************************************************************************)
CONSTANTS Targets, Original(_), UserVersions

VARIABLES
  public,  \* the leaf of each target
  aside,   \* the private slot of each target
  status   \* "closed", "open" or "committed"

vars == <<public, aside, status>>

Init ==
  /\ public = [i \in Targets |-> Original(i)]
  /\ aside = [i \in Targets |-> "absent"]
  /\ status = "closed"

Open ==
  /\ status = "closed"
  /\ \A i \in Targets : aside[i] = "absent"
  /\ aside' = [i \in Targets |-> "after"] /\ status' = "open"
  /\ UNCHANGED public

Trade(i) ==
  /\ status = "open"
  /\ public' = [public EXCEPT ![i] = aside[i]]
  /\ aside' = [aside EXCEPT ![i] = public[i]]
  /\ UNCHANGED status

Discard(i) ==
  /\ \/ status = "open" /\ aside[i] = "after"
     \/ status = "committed" /\ aside[i] = "before"
  /\ aside' = [aside EXCEPT ![i] = "absent"]
  /\ UNCHANGED <<public, status>>

Commit ==
  /\ status = "open" /\ status' = "committed"
  /\ \A i \in Targets : aside[i] = Original(i)
  /\ UNCHANGED <<public, aside>>

Close ==
  /\ status = "open" /\ status' = "closed"
  /\ \A i \in Targets : public[i] # "after" /\ aside[i] = "absent"
  /\ UNCHANGED <<public, aside>>

\* The owner may replace or remove any leaves, never the private slots.
OwnerChanges ==
  /\ public' \in [Targets -> {"absent", "before", "after"} \cup UserVersions]
  /\ \A i \in Targets :
       public'[i] = public[i] \/ public'[i] \in {"absent"} \cup UserVersions
  /\ UNCHANGED <<aside, status>>

Next ==
  \/ Open \/ Commit \/ Close \/ OwnerChanges
  \/ \E i \in Targets : Trade(i) \/ Discard(i)

Spec == Init /\ [][Next]_vars
=============================================================================
