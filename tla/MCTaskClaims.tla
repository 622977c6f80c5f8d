---------------------------- MODULE MCTaskClaims ----------------------------
(* Two callers, three operators and one task for checking TaskClaims. *)
EXTENDS TaskClaims, TLC

CONSTANTS c1, c2, alice, bob, s1, t1

\* Alice in a session, Alice without one and with an expiry of her own, Bob,
\* and a release out of Alice's session by nobody in particular.
Q(action, operator, session, extend) ==
  [action |-> action, task |-> t1, operator |-> operator, session |-> session,
   extend |-> extend]

SomeCalls ==
  {Q("claim", alice, s1, 0), Q("claim", alice, Nobody, 2), Q("claim", bob, Nobody, 0),
   Q("release", Nobody, s1, 0)}

CallerSymmetry == Permutations({c1, c2})
=============================================================================
