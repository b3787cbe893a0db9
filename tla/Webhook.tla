------------------------------- MODULE Webhook -------------------------------
(* What notify.Send makes of the HTTP status of an answer: shared by the      *)
(* boot-time retry loop and by the two attempts before a shutdown.            *)
EXTENDS Integers

Success(status) == status \in 200 .. 299

\* Mutants: a rate limit counts as permanent; a redirect does not.
PermanentRateLimited(status) == status \in 300 .. 499
PermanentButRedirect(status) == status \in 400 .. 499 /\ status # 429

\* (e *HTTPError) Permanent: any 3xx, and any 4xx other than 429.
Permanent(status) ==
  \/ status \in 300 .. 399
  \/ status \in 400 .. 499 /\ status # 429

\* Mutant: no CheckRedirect, so a redirect is followed to a page that says 200.
SeenThroughRedirect(status) == IF status \in 300 .. 399 THEN 200 ELSE status

\* CheckRedirect hands a 3xx back as the answer instead of following it.
Seen(status) == status
=============================================================================
