------------------------------ MODULE SendCall ------------------------------
(***************************************************************************)
(* What a caller may rely on when it calls SendWithRetry: it returns once, *)
(* within the budget, and says "delivered" only of a message the channel   *)
(* has received.  A message can have arrived all the same when it reports  *)
(* an error.                                                               *)
(***************************************************************************)
EXTENDS NotifyBudget

VARIABLES
  returned,    \* whether the call has returned
  ok,          \* whether it returned nil
  spent,       \* the seconds it took, known when it returns
  delivered    \* whether the channel has received the message

vars == <<returned, ok, spent, delivered>>

Init == returned = FALSE /\ ok = FALSE /\ spent = 0 /\ delivered = FALSE

\* A copy arrives while the call is still trying.
Arrive ==
  /\ ~returned
  /\ delivered' = TRUE
  /\ UNCHANGED <<returned, ok, spent>>

Return ==
  /\ ~returned
  /\ returned' = TRUE
  /\ ok' \in BOOLEAN
  /\ spent' \in 0 .. WorstCaseDuration(Attempts, Wait)
  /\ delivered' \in {delivered, TRUE}
  /\ ok' => delivered'

Next == Arrive \/ Return

Spec == Init /\ [][Next]_vars
=============================================================================
