---------------------------- MODULE NotifyProofs ----------------------------
(***************************************************************************)
(* What the model checker finds for 12 attempts holds for every number of  *)
(* attempts, every wait, every timeout and every ceiling: the bound of     *)
(* WorstCaseDuration, the outage a call sits out, and what a result of     *)
(* SendWithRetry says about what was posted.                               *)
(***************************************************************************)
EXTENDS Notify, TLAPS

\* One attempt at its slowest, and the longest gap after it.
Gap == Max2(Wait, MaxRetryAfter)
Round == SendTimeout + Gap

\* How much time the loop can have used up by each of its control points.
BudgetInv ==
  /\ pc = "send" => i < Attempts /\ elapsed <= i * Round
  /\ pc = "sleep" => i < Attempts - 1 /\ elapsed <= i * Round + SendTimeout
  /\ pc = "done" => elapsed <= WorstCaseDuration(Attempts, Wait)

\* How much time has passed at least: every attempt but the first was waited for.
WaitedInv == i * Wait <= elapsed

\* While the loop runs, a post that was taken is one whose answer was lost.
DeliveryInv ==
  /\ pc = "done" /\ last.kind = "nil" => taken = lost + 1
  /\ ~(pc = "done" /\ last.kind = "nil") => taken = lost
  /\ pc # "done" => last.kind # "nil" /\ ~Hopeless(last)
  /\ pc = "done" /\ Attempts > 0 => last.kind # "none"
  /\ pc = "done" /\ Attempts > 0 /\ last.kind # "nil" /\ ~Hopeless(last)
       => i = Attempts - 1
  /\ ~validURL => elapsed = 0 /\ taken = 0 /\ pc # "sleep"

IInv == TypeOK /\ BudgetInv /\ WaitedInv /\ DeliveryInv

-----------------------------------------------------------------------------
(* The arithmetic, kept apart from the program.                            *)

LEMMA Max2Type == \A a, b \in Nat : Max2(a, b) \in Nat /\ Max2(a, b) >= a /\ Max2(a, b) >= b
  BY DEF Max2

LEMMA RoundType == Gap \in Nat /\ Round \in Nat /\ Round = SendTimeout + Gap
  BY BudgetAssumption, Max2Type DEF Gap, Round

\* A round more is a round more, and time grows with the rounds.
LEMMA RoundStep ==
  ASSUME NEW n \in Nat, NEW r \in Nat
  PROVE  n * r \in Nat /\ (n + 1) * r = n * r + r
  OBVIOUS

LEMMA RoundMono ==
  ASSUME NEW n \in Nat, NEW m \in Nat, NEW r \in Nat, n <= m
  PROVE  n * r <= m * r
<1>1. m * r = n * r + (m - n) * r
  OBVIOUS
<1>2. (m - n) * r >= 0
  OBVIOUS
<1>3. QED
  BY <1>1, <1>2

\* The bound splits into full rounds and one last exchange.
LEMMA WorstCaseSplit ==
  ASSUME Attempts > 0
  PROVE  /\ WorstCaseDuration(Attempts, Wait) = (Attempts - 1) * Round + SendTimeout
         /\ WorstCaseDuration(Attempts, Wait) \in Nat
<1> DEFINE a == Attempts - 1
<1>1. a \in Nat /\ Attempts = a + 1
  BY BudgetAssumption
<1>2. (a + 1) * SendTimeout = a * SendTimeout + SendTimeout
  BY <1>1, BudgetAssumption
<1>3. a * (SendTimeout + Gap) = a * SendTimeout + a * Gap
  BY <1>1, BudgetAssumption, RoundType
<1>4. a * SendTimeout \in Nat /\ a * Gap \in Nat
  BY <1>1, BudgetAssumption, RoundType
<1>5. WorstCaseDuration(Attempts, Wait) = Attempts * SendTimeout + a * Gap
  BY BudgetAssumption DEF WorstCaseDuration, Gap
<1> HIDE DEF a
<1>6. WorstCaseDuration(Attempts, Wait) = a * Round + SendTimeout
  BY <1>1, <1>2, <1>3, <1>4, <1>5, BudgetAssumption, RoundType
<1>7. a * Round + SendTimeout \in Nat
  BY <1>3, <1>4, BudgetAssumption, RoundType
<1>8. QED
  BY <1>6, <1>7 DEF a

\* Time used within the first n rounds and one exchange is within the bound.
LEMMA WithinBound ==
  ASSUME NEW n \in Nat, NEW t \in Nat, n < Attempts, t <= n * Round + SendTimeout
  PROVE  t <= WorstCaseDuration(Attempts, Wait)
<1>1. n <= Attempts - 1 /\ Attempts - 1 \in Nat /\ Attempts > 0
  BY BudgetAssumption
<1>2. n * Round <= (Attempts - 1) * Round
  BY <1>1, RoundMono, RoundType
<1>3. n * Round \in Nat /\ (Attempts - 1) * Round \in Nat
  BY <1>1, RoundStep, RoundType
<1>4. QED
  BY <1>1, <1>2, <1>3, WorstCaseSplit, BudgetAssumption

-----------------------------------------------------------------------------
(* What parseRetryAfter returns.                                           *)

\* A server's delay always comes out between 0 and the ceiling.
LEMMA ClampRange == \A raw \in Delays : Clamp(raw) \in 0 .. MaxRetryAfter
  BY BudgetAssumption, EnvironmentAssumption DEF Clamp

\* Header or body, readable or not: the delay is between 0 and the ceiling.
LEMMA RetryAfterRange ==
  \A header, body \in Delays : RetryAfter(header, body) \in 0 .. MaxRetryAfter
  BY ClampRange, BudgetAssumption DEF RetryAfter

\* A sleep of the loop never exceeds the longest gap.
LEMMA SleepRange ==
  \A r \in Results : SleepFor(r) \in Nat /\ SleepFor(r) <= Gap
  BY BudgetAssumption DEF Results, SleepFor, Gap, Max2

-----------------------------------------------------------------------------
(* The invariant of the loop.                                              *)

LEMMA InitInvariant == Init => IInv
<1> SUFFICES ASSUME Init PROVE IInv
  OBVIOUS
<1>1. TypeOK
  BY BudgetAssumption DEF Init, TypeOK, Result, Results
<1>2. BudgetInv
  <2>1. CASE Attempts > 0
    <3>1. 0 * Round = 0
      BY RoundType
    <3>2. QED
      BY <2>1, <3>1 DEF Init, BudgetInv
  <2>2. CASE ~(Attempts > 0)
    BY <2>2, BudgetAssumption DEF Init, BudgetInv, WorstCaseDuration
  <2>3. QED
    BY <2>1, <2>2
<1>3. DeliveryInv
  BY DEF Init, DeliveryInv, Result, Hopeless
<1>4. WaitedInv
  BY BudgetAssumption DEF Init, WaitedInv
<1>5. QED
  BY <1>1, <1>2, <1>3, <1>4 DEF IInv

\* An attempt that costs d seconds leaves the loop within its budget, whether
\* it goes on to sleep or returns.
LEMMA AttemptKeepsBudget ==
  ASSUME IInv, pc = "send", NEW r \in Results, Return(r),
         NEW d \in 0 .. SendTimeout, elapsed' = elapsed + d
  PROVE  BudgetInv' /\ elapsed' \in Nat
<1>1. i \in Nat /\ elapsed \in Nat /\ elapsed <= i * Round /\ i < Attempts
  BY DEF IInv, TypeOK, BudgetInv
<1>2. i * Round \in Nat
  BY <1>1, RoundStep, RoundType
<1>3. elapsed' \in Nat /\ elapsed' <= i * Round + SendTimeout
  BY <1>1, <1>2, BudgetAssumption
<1>4. elapsed' <= WorstCaseDuration(Attempts, Wait)
  BY <1>1, <1>3, WithinBound
<1>5. i' = i /\ (pc' = "done" \/ (pc' = "sleep" /\ i # Attempts - 1))
  BY DEF Return, AfterSend
<1>6. QED
  BY <1>1, <1>3, <1>4, <1>5, BudgetAssumption DEF BudgetInv

\* The sleep after attempt i ends within the first i + 1 rounds.
LEMMA SleepKeepsBudget ==
  ASSUME IInv, Sleep
  PROVE  BudgetInv' /\ elapsed' \in Nat
<1>1. /\ i \in Nat /\ elapsed \in Nat /\ i < Attempts - 1
      /\ elapsed <= i * Round + SendTimeout
  BY DEF IInv, TypeOK, BudgetInv, Sleep
<1>2. SleepFor(last) \in Nat /\ SleepFor(last) <= Gap
  BY SleepRange DEF IInv, TypeOK
<1>3. i * Round \in Nat /\ (i + 1) * Round = i * Round + Round
  BY <1>1, RoundStep, RoundType
<1>4. elapsed' = elapsed + SleepFor(last) /\ i' = i + 1 /\ pc' = "send"
  BY DEF Sleep
<1>5. elapsed' <= (i + 1) * Round
  BY <1>1, <1>2, <1>3, <1>4, RoundType, BudgetAssumption
<1>6. QED
  BY <1>1, <1>2, <1>4, <1>5, BudgetAssumption DEF BudgetInv

\* Time only passes, and a sleep is at least the base wait.
LEMMA WaitedStep ==
  ASSUME TypeOK, TypeOK', WaitedInv, [Next]_vars
  PROVE  WaitedInv'
<1>1. i \in Nat /\ elapsed \in Nat /\ i' \in Nat /\ elapsed' \in Nat
  BY DEF TypeOK
<1>2. i * Wait \in Nat /\ (i + 1) * Wait = i * Wait + Wait
  BY <1>1, RoundStep, BudgetAssumption
<1>3. ASSUME i' = i, elapsed' >= elapsed PROVE WaitedInv'
  BY <1>1, <1>2, <1>3 DEF WaitedInv
<1>4. CASE Sleep
  <2>1. SleepFor(last) \in Nat /\ SleepFor(last) >= Wait
    BY BudgetAssumption DEF TypeOK, Results, SleepFor, Max2
  <2>2. elapsed' = elapsed + SleepFor(last) /\ i' = i + 1
    BY <1>4 DEF Sleep
  <2>3. elapsed' >= (i + 1) * Wait
    BY <1>1, <1>2, <2>1, <2>2, BudgetAssumption DEF WaitedInv
  <2>4. QED
    BY <2>2, <2>3 DEF WaitedInv
<1>5. CASE SendInvalid \/ Done \/ UNCHANGED vars
  BY <1>1, <1>3, <1>5 DEF SendInvalid, Return, Done, vars
<1>6. CASE SendTransportError \/ SendAnswered
  <2>1. PICK d \in Durations : elapsed' = elapsed + d
    BY <1>6 DEF SendTransportError, SendAnswered
  <2>2. d \in Nat /\ i' = i
    BY <1>6, EnvironmentAssumption, BudgetAssumption DEF SendTransportError, SendAnswered, Return
  <2>3. QED
    BY <1>1, <1>3, <2>1, <2>2
<1>7. QED
  BY <1>4, <1>5, <1>6 DEF Next

\* What Send returns has the shape of a result.
LEMMA ResultTypes ==
  /\ \A kind \in {"none", "nil", "invalid", "transport"} : Result(kind, 0, 0) \in Results
  /\ \A status \in Statuses, header, body \in Delays :
       Result("http", status, RetryAfter(header, body)) \in Results
<1>1. 0 \in 0 .. MaxRetryAfter
  BY BudgetAssumption
<1>2. QED
  BY <1>1, RetryAfterRange DEF Result, Results

LEMMA NextInvariant == IInv /\ [Next]_vars => IInv'
<1> SUFFICES ASSUME IInv, [Next]_vars PROVE (TypeOK /\ BudgetInv /\ DeliveryInv)'
  BY WaitedStep DEF IInv
<1> USE DEF IInv
<1>1. CASE SendInvalid
  <2> DEFINE r == Result("invalid", 0, 0)
  <2>1. r \in Results /\ r.kind = "invalid" /\ Hopeless(r)
    BY ResultTypes DEF Result, Hopeless
  <2>2. pc = "send" /\ Return(r) /\ elapsed' = elapsed /\ taken' = taken /\ lost' = lost
    BY <1>1 DEF SendInvalid
  <2>3. pc' = "done"
    BY <2>1, <2>2 DEF Return, AfterSend
  <2>4. elapsed' = elapsed + 0 /\ 0 \in 0 .. SendTimeout
    BY <2>2, BudgetAssumption DEF TypeOK
  <2> HIDE DEF r
  <2>5. BudgetInv'
    BY <2>1, <2>2, <2>4, AttemptKeepsBudget
  <2>6. TypeOK'
    BY <2>1, <2>2, <2>3 DEF TypeOK, Return
  <2>7. DeliveryInv'
    BY <2>1, <2>2, <2>3, <1>1 DEF DeliveryInv, Return, TypeOK, SendInvalid, Hopeless
  <2>8. QED
    BY <2>5, <2>6, <2>7
<1>2. CASE SendTransportError
  <2> DEFINE r == Result("transport", 0, 0)
  <2>1. r \in Results /\ r.kind = "transport" /\ ~Hopeless(r)
    BY ResultTypes DEF Result, Hopeless
  <2>2. pc = "send" /\ validURL /\ Return(r)
    BY <1>2 DEF SendTransportError
  <2>3. PICK d \in Durations : elapsed' = elapsed + d
    BY <1>2 DEF SendTransportError
  <2>4. PICK reached \in {0, 1} : taken' = taken + reached /\ lost' = lost + reached
    BY <1>2 DEF SendTransportError
  <2> HIDE DEF r
  <2>5. BudgetInv' /\ elapsed' \in Nat
    BY <2>1, <2>2, <2>3, AttemptKeepsBudget, EnvironmentAssumption
  <2>6. TypeOK'
    BY <2>1, <2>2, <2>4, <2>5 DEF TypeOK, Return, AfterSend
  <2>7. DeliveryInv'
    BY <2>1, <2>2, <2>4 DEF DeliveryInv, Return, AfterSend, TypeOK, Hopeless
  <2>8. QED
    BY <2>5, <2>6, <2>7
<1>3. CASE SendAnswered
  <2>1. PICK d \in Durations : elapsed' = elapsed + d
    BY <1>3 DEF SendAnswered
  <2>2. PICK status \in Statuses, header \in Delays, body \in Delays \ {NaN},
             reached \in {0, 1} :
          /\ IF Success(status)
               THEN Return(Result("nil", 0, 0))
               ELSE Return(Result("http", status, RetryAfter(header, body)))
          /\ Success(status) => reached = 1
          /\ taken' = taken + reached
          /\ lost' = IF Success(status) THEN lost ELSE lost + reached
    BY <1>3 DEF SendAnswered, Seen
  <2> DEFINE r == IF Success(status) THEN Result("nil", 0, 0)
                  ELSE Result("http", status, RetryAfter(header, body))
  <2>3. r \in Results /\ r.kind = (IF Success(status) THEN "nil" ELSE "http")
    BY ResultTypes DEF Result
  <2>4. pc = "send" /\ validURL /\ Return(r)
    BY <1>3, <2>2 DEF SendAnswered
  <2> HIDE DEF r
  <2>5. BudgetInv' /\ elapsed' \in Nat
    BY <2>1, <2>3, <2>4, AttemptKeepsBudget, EnvironmentAssumption
  <2>6. TypeOK'
    BY <2>2, <2>3, <2>4, <2>5 DEF TypeOK, Return, AfterSend
  <2>7. DeliveryInv'
    BY <2>2, <2>3, <2>4 DEF DeliveryInv, Return, AfterSend, TypeOK, Hopeless
  <2>8. QED
    BY <2>5, <2>6, <2>7
<1>4. CASE Sleep
  <2>1. BudgetInv' /\ elapsed' \in Nat
    BY <1>4, SleepKeepsBudget
  <2>2. TypeOK'
    BY <1>4, <2>1 DEF TypeOK, Sleep
  <2>3. DeliveryInv'
    BY <1>4 DEF DeliveryInv, Sleep, Hopeless
  <2>4. QED
    BY <2>1, <2>2, <2>3
<1>5. CASE Done \/ UNCHANGED vars
  BY <1>5 DEF Done, vars, TypeOK, BudgetInv, DeliveryInv, Hopeless
<1>6. QED
  BY <1>1, <1>2, <1>3, <1>4, <1>5 DEF Next

\* The variables of the loop always have their types, and the budget and the
\* delivery account always hold.
THEOREM LoopInvariant == Spec => []IInv
  BY InitInvariant, NextInvariant, PTL DEF Spec

-----------------------------------------------------------------------------
(* What follows from it.                                                   *)

\* The attempt, the last result and the account of time and posts keep their types.
THEOREM TypeCorrect == Spec => []TypeOK
<1>1. IInv => TypeOK
  BY DEF IInv
<1>2. QED
  BY <1>1, LoopInvariant, PTL

\* Whatever the server answers, for every number of attempts and every wait, a
\* call of SendWithRetry takes no longer than WorstCaseDuration.
THEOREM RetryBudget == Spec => []WithinWorstCase
<1>1. IInv => WithinWorstCase
  <2> SUFFICES ASSUME IInv PROVE WithinWorstCase
    OBVIOUS
  <2>1. CASE pc = "done"
    BY <2>1 DEF IInv, BudgetInv, WithinWorstCase
  <2>2. CASE pc # "done"
    <3>1. i \in Nat /\ elapsed \in Nat /\ i < Attempts
      BY <2>2, BudgetAssumption DEF IInv, TypeOK, BudgetInv
    <3>2. i * Round \in Nat
      BY <3>1, RoundStep, RoundType
    <3>3. elapsed <= i * Round + SendTimeout
      BY <2>2, <3>1, <3>2, BudgetAssumption DEF IInv, TypeOK, BudgetInv
    <3>4. QED
      BY <3>1, <3>3, WithinBound DEF WithinWorstCase
  <2>3. QED
    BY <2>1, <2>2
<1>2. QED
  BY <1>1, LoopInvariant, PTL

\* Success is only reported of a message the server has taken.
THEOREM SuccessIsDelivery == Spec => []SuccessWasPosted
<1>1. IInv => SuccessWasPosted
  BY DEF IInv, TypeOK, DeliveryInv, SuccessWasPosted, ReportedSuccess
<1>2. QED
  BY <1>1, LoopInvariant, PTL

\* The server takes at most one message more than it lost answers.
THEOREM CopiesBounded == Spec => []CopiesNeedLostAnswers
<1>1. IInv => CopiesNeedLostAnswers
  BY DEF IInv, TypeOK, DeliveryInv, CopiesNeedLostAnswers
<1>2. QED
  BY <1>1, LoopInvariant, PTL

\* For every number of attempts and every wait, a call comes back with a transient
\* failure only after all its waits: whatever outage ends sooner, it outlasts.
THEOREM TransientIsSatOut == Spec => []OutlastsOutage
<1>1. IInv => OutlastsOutage
  <2> SUFFICES ASSUME IInv, pc = "done", Attempts > 0, Transient(last)
               PROVE  elapsed >= (Attempts - 1) * Wait
    BY DEF OutlastsOutage
  <2>1. ~Hopeless(last) /\ last.kind # "nil"
    BY DEF Transient, Hopeless, Permanent
  <2>2. i = Attempts - 1
    BY <2>1 DEF IInv, DeliveryInv
  <2>3. QED
    BY <2>2 DEF IInv, WaitedInv
<1>2. QED
  BY <1>1, LoopInvariant, PTL

\* Once a failure is one that lasts, nothing more is spent or posted.
THEOREM LastingIsFinal == Spec => LastingEndsIt
<1>1. IInv /\ [Next]_vars => [Lasting(last) => UNCHANGED <<elapsed, taken>>]_vars
  <2> SUFFICES ASSUME IInv, Next, Lasting(last) PROVE UNCHANGED <<elapsed, taken>>
    BY DEF vars
  <2>1. Hopeless(last)
    BY DEF Lasting, Hopeless, Permanent
  <2>2. pc = "done"
    BY <2>1 DEF IInv, DeliveryInv
  <2>3. QED
    BY <2>2 DEF Next, SendInvalid, SendTransportError, SendAnswered, Sleep, Done, vars
<1>2. QED
  BY <1>1, LoopInvariant, PTL DEF Spec, LastingEndsIt

-----------------------------------------------------------------------------
(* A call of SendWithRetry keeps the promise of SendCall.                  *)

\* One step of the loop is a step of the call, or nothing a caller can see.
LEMMA CallStep ==
  ASSUME Attempts > 0, IInv, IInv', [Next]_vars
  PROVE  [Call!Next]_(Call!vars)
<1> USE DEF Call!Next, Call!vars
<1>1. /\ pc \in {"send", "sleep", "done"} /\ taken \in Nat /\ elapsed \in Nat
      /\ pc' \in {"send", "sleep", "done"} /\ taken' \in Nat /\ elapsed' \in Nat
  BY DEF IInv, TypeOK
<1>2. pc' = "done" => elapsed' \in 0 .. WorstCaseDuration(Attempts, Wait)
  <2> SUFFICES ASSUME pc' = "done" PROVE elapsed' \in 0 .. WorstCaseDuration(Attempts, Wait)
    OBVIOUS
  <2>1. elapsed' <= WorstCaseDuration(Attempts, Wait)
    BY DEF IInv, BudgetInv, WorstCaseDuration
  <2>2. WorstCaseDuration(Attempts, Wait) \in Nat
    BY WorstCaseSplit, RoundType, RoundStep, BudgetAssumption
  <2>3. QED
    BY <1>1, <2>1, <2>2
<1>3. pc' = "done" /\ last'.kind = "nil" => taken' > 0
  <2> SUFFICES ASSUME pc' = "done", last'.kind = "nil" PROVE taken' > 0
    OBVIOUS
  <2>1. lost' \in Nat /\ taken' = lost' + 1
    BY DEF IInv, TypeOK, DeliveryInv
  <2>2. \A n \in Nat : n + 1 > 0
    OBVIOUS
  <2>3. QED
    BY <2>1, <2>2
<1>4. CASE pc = "send" /\ taken' >= taken
  <2>1. CASE pc' = "done"
    <3>1. (pc' = "done" /\ last'.kind = "nil") \in BOOLEAN
      OBVIOUS
    <3>2. (taken' > 0) \in {taken > 0, TRUE}
      <4>1. taken > 0 => taken' > 0
        BY <1>1, <1>4
      <4>2. (taken > 0) \in BOOLEAN /\ (taken' > 0) \in BOOLEAN
        OBVIOUS
      <4>3. QED
        BY <4>1, <4>2
    <3>3. ~(pc = "done") /\ (pc' = "done") = TRUE
      BY <1>4, <2>1
    <3>4. (IF pc' = "done" THEN elapsed' ELSE 0) \in 0 .. WorstCaseDuration(Attempts, Wait)
      BY <1>2, <2>1
    <3>5. Call!WorstCaseDuration(Attempts, Wait) = WorstCaseDuration(Attempts, Wait)
      BY DEF Call!WorstCaseDuration, WorstCaseDuration, Call!Max2, Max2
    <3>6. Call!Return
      BY <1>3, <3>1, <3>2, <3>3, <3>4, <3>5 DEF Call!Return
    <3>7. QED
      BY <3>6
  <2>2. CASE pc' # "done"
    BY <1>1, <1>4, <2>2 DEF Call!Arrive
  <2>3. QED
    BY <2>1, <2>2
<1>5. CASE SendInvalid \/ SendTransportError \/ SendAnswered
  BY <1>1, <1>4, <1>5 DEF SendInvalid, SendTransportError, SendAnswered
<1>6. CASE Sleep
  BY <1>6 DEF Sleep
<1>7. CASE Done \/ UNCHANGED vars
  BY <1>7 DEF Done, vars
<1>8. QED
  BY <1>5, <1>6, <1>7 DEF Next

\* Whatever the server and the network do, SendWithRetry implements SendCall: its
\* callers may count on the budget and on what a nil error means.
THEOREM CallRefinement == ASSUME Attempts > 0 PROVE Spec => KeepsCall
<1>1. Init => Call!Init
  BY DEF Init, Call!Init, Result
<1>2. IInv /\ IInv' /\ [Next]_vars => [Call!Next]_(Call!vars)
  BY CallStep
<1>3. QED
  BY LoopInvariant, <1>1, <1>2, PTL DEF Spec, KeepsCall, Call!Spec
=============================================================================
