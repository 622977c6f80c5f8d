------------------------- MODULE ActivationRegister -------------------------
(***************************************************************************)
(* What the store of repository intelligence promises its readers: one     *)
(* current activation, replaced in a single step by a transaction that     *)
(* was tried alone, and which only the activation it replaced can follow   *)
(* when it is withdrawn.  Where files are, what is journaled and when      *)
(* anything stops is of no concern here.                                   *)
(***************************************************************************)
EXTENDS Naturals, FiniteSets

CONSTANT MaxTransactions \* bound of the number of transactions

VARIABLES
  current,  \* the current activation, or 0
  trying,   \* the transaction under way, or 0
  replaces  \* the activation that each transaction replaces

vars == <<current, trying, replaces>>

Transactions == 1..MaxTransactions
None == 0

Init == current = None /\ trying = None /\ replaces = <<>>

\* A transaction is for the activation that was current when it began.
Begin(t) ==
  /\ trying = None /\ t \notin DOMAIN replaces
  /\ trying' = t
  /\ replaces' = [u \in DOMAIN replaces \cup {t} |->
                    IF u = t THEN current ELSE replaces[u]]
  /\ UNCHANGED current

Commit ==
  /\ trying # None
  /\ current' = trying /\ trying' = None
  /\ UNCHANGED replaces

\* It leaves no trace, or the trace that it was tried.
Abandon ==
  /\ trying # None
  /\ trying' = None
  /\ \/ UNCHANGED replaces
     \/ replaces' = [u \in DOMAIN replaces \ {trying} |-> replaces[u]]
  /\ UNCHANGED current

\* What was just made current is withdrawn, and may be left to be undone.
Withdraw ==
  /\ trying = None /\ current # None
  /\ current' = replaces[current] /\ trying' \in {None, current}
  /\ UNCHANGED replaces

\* What was withdrawn is found not to be fully undone.
Reopen(t) ==
  /\ trying = None /\ t \in DOMAIN replaces /\ t # current
  /\ trying' = t
  /\ UNCHANGED <<current, replaces>>

Next ==
  \/ \E t \in Transactions : Begin(t) \/ Reopen(t)
  \/ Commit \/ Abandon \/ Withdraw

Spec == Init /\ [][Next]_vars
=============================================================================
