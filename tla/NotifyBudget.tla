---------------------------- MODULE NotifyBudget ----------------------------
(* How long internal/notify may take: the constants of one SendWithRetry call *)
(* and the bound the code states for it, in seconds.                          *)
EXTENDS Integers

CONSTANTS
  Attempts,       \* how many times SendWithRetry calls Send
  Wait,           \* the base wait between two attempts
  SendTimeout,    \* sendTimeout, the bound of one exchange
  MaxRetryAfter   \* maxRetryAfter, the ceiling of a server's delay

ASSUME BudgetAssumption ==
  /\ Attempts \in Nat
  /\ Wait \in Nat
  /\ SendTimeout \in Nat
  /\ MaxRetryAfter \in Nat

Max2(a, b) == IF a >= b THEN a ELSE b

WorstCaseDuration(attempts, wait) ==
  IF attempts <= 0 THEN 0
  ELSE attempts * SendTimeout + (attempts - 1) * Max2(wait, MaxRetryAfter)
=============================================================================
