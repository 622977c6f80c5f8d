------------------------- MODULE OrderedPublication -------------------------
(***************************************************************************)
(* What an ordered publication promises: a totally ordered set of steps is *)
(* carried out one by one and in order, so that content precedes evidence  *)
(* and evidence precedes the manifest; it ends committed with every step   *)
(* done or rolled back with none, and an ended one never moves again.      *)
(* Where the last step is itself the point of no return, a publication     *)
(* that has taken it is never reversed.                                    *)
(***************************************************************************)
CONSTANTS
  Steps,           \* the steps of the publication
  Precedes(_, _),  \* their order
  HeadCommits      \* TRUE if taking the last step is the point of no return

VARIABLES
  done,   \* the steps in effect
  status  \* "open", "committed" or "rolledBack"

vars == <<done, status>>

Init == done = {} /\ status = "open"

Advance ==
  /\ status = "open"
  /\ \E s \in Steps \ done :
       /\ \A t \in Steps : Precedes(t, s) => t \in done
       /\ done' = done \cup {s}
  /\ UNCHANGED status

Retreat ==
  /\ status = "open"
  /\ ~(HeadCommits /\ done = Steps)
  /\ \E s \in done :
       /\ \A t \in done : ~Precedes(s, t)
       /\ done' = done \ {s}
  /\ UNCHANGED status

Commit ==
  /\ status = "open" /\ done = Steps
  /\ status' = "committed" /\ UNCHANGED done

RollBack ==
  /\ status = "open" /\ done = {}
  /\ status' = "rolledBack" /\ UNCHANGED done

Next == Advance \/ Retreat \/ Commit \/ RollBack

Spec == Init /\ [][Next]_vars
=============================================================================
