------------------------------- MODULE Notify -------------------------------
(***************************************************************************)
(* internal/notify: Send posts one message to the webhook, SendWithRetry   *)
(* repeats it until it succeeds, until retrying cannot help, or until the  *)
(* attempts are used up.  Time is counted in whole seconds: an attempt     *)
(* costs at most SendTimeout, a gap between attempts costs its sleep.      *)
(*                                                                         *)
(* The server and the network are the environment: they choose how long an *)
(* exchange takes, what is answered, and whether a post whose answer was   *)
(* lost had been taken.                                                    *)
(***************************************************************************)
EXTENDS NotifyBudget, Webhook

CONSTANTS
  Durations,      \* how long an exchange can take
  Statuses,       \* the HTTP statuses a server can answer
  Delays,         \* the delays a server can ask for, Absent and NaN included
  Absent,         \* no (readable) delay in this place of the answer
  NaN             \* the not-a-number strconv.ParseFloat accepts

ASSUME EnvironmentAssumption ==
  /\ Durations \subseteq 0 .. SendTimeout
  /\ Statuses \subseteq Nat
  /\ Delays \subseteq Int \cup {Absent, NaN}
  /\ Absent \notin Int /\ NaN \notin Int /\ Absent # NaN

VARIABLES
  pc,        \* where the loop is: "send", "sleep" or "done"
  i,         \* the loop's counter
  last,      \* what the latest Send returned
  elapsed,   \* the seconds spent since SendWithRetry was called
  validURL,  \* whether the webhook URL can be turned into a request
  taken,     \* how many posts the server has taken
  lost       \* how many of those it took without a 2xx reaching Send

vars == <<pc, i, last, elapsed, validURL, taken, lost>>

-----------------------------------------------------------------------------
(* What Send makes of an answer.                                           *)

\* Mutant: the ceiling of maxRetryAfter is missing.
ClampWithoutCeiling(raw) == IF raw = NaN THEN 0 ELSE IF raw <= 0 THEN 0 ELSE raw

\* clampRetryAfter: the delay a server asks for, brought into range.
Clamp(raw) ==
  IF raw = NaN THEN 0
  ELSE IF raw <= 0 THEN 0
  ELSE IF raw > MaxRetryAfter THEN MaxRetryAfter
  ELSE raw

\* parseRetryAfter: a readable header wins over the body's retry_after.
RetryAfter(header, body) ==
  IF header # Absent THEN Clamp(header)
  ELSE IF body # Absent THEN Clamp(body) ELSE 0

\* The shapes of Send's result; retryAfter is 0 unless an HTTPError carries one.
Result(kind, status, delay) ==
  [kind |-> kind, status |-> status, retryAfter |-> delay]

Results ==
  [kind : {"none", "nil", "invalid", "transport", "http"},
   status : Statuses \cup {0}, retryAfter : 0 .. MaxRetryAfter]

\* The errors after which SendWithRetry returns at once.
Hopeless(r) == r.kind = "invalid" \/ (r.kind = "http" /\ Permanent(r.status))

\* Mutant: the loop does not stop at a success.
AfterSendRegardless(r) == IF Hopeless(r) \/ i = Attempts - 1 THEN "done" ELSE "sleep"

\* Where the loop goes after attempt i returned r.
AfterSend(r) ==
  IF r.kind = "nil" \/ Hopeless(r) \/ i = Attempts - 1 THEN "done" ELSE "sleep"

\* How long the loop sleeps before the next attempt.
SleepFor(r) == Max2(Wait, r.retryAfter)

-----------------------------------------------------------------------------
Init ==
  /\ pc = IF Attempts > 0 THEN "send" ELSE "done"
  /\ i = 0
  /\ last = Result("none", 0, 0)
  /\ elapsed = 0
  /\ validURL \in BOOLEAN
  /\ taken = 0
  /\ lost = 0

Return(r) ==
  /\ last' = r
  /\ pc' = AfterSend(r)
  /\ UNCHANGED <<i, validURL>>

\* The URL cannot be turned into a request: nothing goes on the wire.
SendInvalid ==
  /\ pc = "send" /\ ~validURL
  /\ Return(Result("invalid", 0, 0))
  /\ UNCHANGED <<elapsed, taken, lost>>

\* client.Do fails (refused, reset, timed out): the post may have been taken.
SendTransportError ==
  /\ pc = "send" /\ validURL
  /\ Return(Result("transport", 0, 0))
  /\ \E d \in Durations : elapsed' = elapsed + d
  /\ \E reached \in {0, 1} :
       /\ taken' = taken + reached
       /\ lost' = lost + reached

\* An answer arrives.  A 2xx says the post was taken, a 3xx or 4xx that it was
\* not; a gateway's 5xx leaves it open.
SendAnswered ==
  /\ pc = "send" /\ validURL
  /\ \E d \in Durations : elapsed' = elapsed + d
  /\ \E status \in Statuses, header \in Delays, body \in Delays \ {NaN} :
       /\ IF Success(Seen(status))
            THEN Return(Result("nil", 0, 0))
            ELSE Return(Result("http", Seen(status), RetryAfter(header, body)))
       /\ \E reached \in {0, 1} :
            /\ Success(status) => reached = 1
            /\ status \in 300 .. 499 => reached = 0
            /\ taken' = taken + reached
            /\ lost' = IF Success(status) THEN lost ELSE lost + reached

Sleep ==
  /\ pc = "sleep"
  /\ elapsed' = elapsed + SleepFor(last)
  /\ i' = i + 1
  /\ pc' = "send"
  /\ UNCHANGED <<last, validURL, taken, lost>>

\* SendWithRetry has returned; stuttering keeps TLC from calling it a deadlock.
Done == pc = "done" /\ UNCHANGED vars

Next == SendInvalid \/ SendTransportError \/ SendAnswered \/ Sleep \/ Done

Spec == Init /\ [][Next]_vars

-----------------------------------------------------------------------------
TypeOK ==
  /\ pc \in {"send", "sleep", "done"}
  /\ i \in Nat
  /\ last \in Results
  /\ elapsed \in Nat
  /\ validURL \in BOOLEAN
  /\ taken \in Nat
  /\ lost \in Nat

\* A call never lasts longer than WorstCaseDuration says, whatever the server
\* asks for: this is the bound the scheduled task's time limit is chosen by.
WithinWorstCase == elapsed <= WorstCaseDuration(Attempts, Wait)

\* A nil error: no Send has failed last ("none" is the nil of zero attempts).
ReportedSuccess == pc = "done" /\ last.kind \in {"none", "nil"}

\* SendWithRetry reports success only of a message the server has taken: a
\* redirect or a captive portal is never read as a delivery.  (With no attempts
\* at all the code returns nil and nothing was posted; no caller passes 0.)
SuccessWasPosted == ReportedSuccess /\ Attempts > 0 => taken > lost

\* Every copy beyond the first is paid for by an answer that was lost.
CopiesNeedLostAnswers == taken <= lost + 1

\* The failures the code means to sit out: the network is not up yet (main.go:125),
\* a rate limit (discord_test.go:881), a server's 5xx (discord_test.go:498).
Transient(r) ==
  r.kind = "transport" \/ (r.kind = "http" /\ (r.status = 429 \/ r.status \in 500 .. 599))

\* The failures it means to stop at (discord.go:214): an unusable URL, a redirect,
\* 401 and 404 for a bad webhook, 400 for a bad payload.
Lasting(r) ==
  r.kind = "invalid" \/ (r.kind = "http" /\ (r.status \in 300 .. 399 \/ r.status \in {400, 401, 404}))

\* README.md:32 -- a boot whose network is not up yet is still reported: the call
\* comes back with a transient failure only after it has waited Wait between all its
\* attempts, so trouble that ends sooner than that costs no message.
OutlastsOutage ==
  pc = "done" /\ Attempts > 0 /\ Transient(last) => elapsed >= (Attempts - 1) * Wait

\* discord.go:214 -- a lasting failure ends the call: the budget meant for a network
\* that is not up yet is not spent on it, and nothing more is posted.
LastingEndsIt == [][Lasting(last) => UNCHANGED <<elapsed, taken>>]_vars

\* The promise of SendCall, as long as there is an attempt to make.
Call == INSTANCE SendCall
  WITH returned <- pc = "done", ok <- pc = "done" /\ last.kind = "nil",
       spent <- IF pc = "done" THEN elapsed ELSE 0, delivered <- taken > 0
KeepsCall == Call!Spec
=============================================================================
