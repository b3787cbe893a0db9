------------------------------ MODULE Service -------------------------------
(***************************************************************************)
(* The notice before a shutdown: the service's control handler (Execute)   *)
(* and sendShutdownNotice, which the shutdown-notice command calls too.    *)
(* The handler takes one control request after another; during the notice  *)
(* it takes none.  The SCM gives the service WaitHint from the moment it   *)
(* reports StopPending.  Half-seconds; the stamps of log entries are in    *)
(* half-minutes, as in Sessions.                                           *)
(***************************************************************************)
EXTENDS Query, Detect, Webhook

CONSTANTS
  Logs,          \* the System logs there can be, newest record first
  Now,           \* the wall clock at the notice
  Recent,        \* how old the request of a shutdown under way can be
  ReadTimes,     \* how long config.Load and the query can take together
  SlowestRead,   \* the longest of them: nothing in the code bounds it
  SendTimes,     \* how long an exchange can take
  SendTimeout,   \* the timeout of one attempt
  Pause,         \* the sleep between the two attempts
  WaitHint,      \* what the service announces with StopPending
  Statuses       \* the HTTP statuses a server can answer

ASSUME LogAssumption == \A l \in Logs : Len(l) \in Nat /\ DOMAIN l = 1 .. Len(l)

ASSUME NoticeAssumption ==
  /\ SlowestRead \in Nat /\ ReadTimes \subseteq 0 .. SlowestRead
  /\ SendTimeout \in Nat /\ SendTimes \subseteq 0 .. SendTimeout
  /\ Pause \in Nat /\ WaitHint \in Nat /\ Statuses \subseteq Nat

VARIABLES
  caller,    \* "service" or "console"
  force,     \* -force of the shutdown-notice command
  config,    \* what config.Load gives: whether it does, the gate and the URL
  status,    \* the state the service has reported to the SCM
  control,   \* the control request that waits for the handler, "none" for none
  pc,        \* where the handler or the notice is
  log,       \* the System log
  named,     \* the entry the notice describes, 0 for a notice without a reason
  i,         \* the loop's counter
  elapsed,   \* the half-seconds since StopPending
  said,      \* what the log or the console says about the notice
  asked,     \* history: whether a shutdown signal or the command asked for it
  taken,     \* how many posts the server has taken
  lost       \* how many of those it took without a 2xx reaching Send

scm == <<status, control, asked>>
input == <<caller, force, config, log>>
notice == <<named, i, elapsed, said>>
channel == <<taken, lost>>
vars == <<scm, input, pc, notice, channel, queryVars>>

ShutdownControls == {"preshutdown", "shutdown"}

\* Mutant: only the pre-shutdown control is recognised.
NoticeControlsEarlyOnly == {"preshutdown"}

\* The controls that make the handler send the notice.
NoticeControls == ShutdownControls

Controls == {"interrogate", "stop", "other"} \cup ShutdownControls

Configs == [loads : BOOLEAN, on : BOOLEAN, url : {"none", "unusable", "valid"}]

Init ==
  /\ caller \in {"service", "console"}
  /\ force \in IF caller = "console" THEN BOOLEAN ELSE {FALSE}
  /\ config \in Configs
  /\ log \in Logs /\ entries = Len(log)
  /\ damaged \in SUBSET (1 .. entries)
  /\ status = "starting" /\ control = "none"
  /\ pc = IF caller = "console" THEN "load" ELSE "start"
  /\ asked = (caller = "console")
  /\ named = 0 /\ i = 0 /\ elapsed = 0 /\ said = "none"
  /\ taken = 0 /\ lost = 0
  /\ QueryInit

-----------------------------------------------------------------------------
(* The control handler.                                                    *)

\* Execute reports Running and waits for requests.
Start ==
  /\ pc = "start"
  /\ status' = "running" /\ pc' = "wait"
  /\ UNCHANGED <<control, asked, input, notice, channel, queryVars>>

\* The SCM sends a request, or services.msc and its kin do.  A service in another
\* state than Running is only asked for its state.
SendControl(c) ==
  /\ caller = "service" /\ status # "stopped" /\ control = "none"
  /\ status = "running" \/ c = "interrogate"
  /\ control' = c
  /\ UNCHANGED <<status, asked, input, pc, notice, channel, queryVars>>

Take(cs) == pc = "wait" /\ control \in cs /\ control' = "none"

\* Interrogate is answered and anything else is logged; the service goes on.
Answer ==
  /\ Take(Controls \ ({"stop"} \cup NoticeControls))
  /\ UNCHANGED <<status, asked, input, pc, notice, channel, queryVars>>

Stop ==
  /\ Take({"stop"})
  /\ status' = "stopped" /\ pc' = "end"
  /\ UNCHANGED <<asked, input, notice, channel, queryVars>>

\* StopPending with the WaitHint, then sendShutdownNotice.
Shutdown ==
  /\ Take(NoticeControls)
  /\ status' = "stopping" /\ asked' = TRUE /\ pc' = "load"
  /\ UNCHANGED <<input, notice, channel, queryVars>>

-----------------------------------------------------------------------------
(* sendShutdownNotice.                                                     *)

\* It returns, its caller says what became of the notice, and the service stops.
Return(words) ==
  /\ said' = words
  /\ pc' = "end"
  /\ status' = IF caller = "service" THEN "stopped" ELSE status
  /\ UNCHANGED <<control, asked>>

ShutdownNoticeGate(on, forced) == on \/ forced

\* Mutant: a configuration that does not load declines the notice, with its error lost.
RefusalQuiet ==
  IF config.loads /\ ShutdownNoticeGate(config.on, force)
  THEN IF config.url = "none" THEN "error" ELSE "none"
  ELSE "disabled"

\* What is returned before anything is done, "none" when the notice goes on.
Refusal ==
  IF config.loads
  THEN IF ShutdownNoticeGate(config.on, force)
       THEN IF config.url = "none" THEN "error" ELSE "none"
       ELSE "disabled"
  ELSE "error"

\* config.Load and what has to hold before anything is done.
Load ==
  /\ pc = "load"
  /\ \/ Refusal # "none" /\ Return(Refusal)
     \/ Refusal = "none" /\ pc' = "query" /\ UNCHANGED <<scm, said>>
  /\ UNCHANGED <<input, named, i, elapsed, channel, queryVars>>

\* The query runs.
Querying ==
  /\ pc = "query" /\ QueryNext
  /\ UNCHANGED <<scm, input, pc, notice, channel, log>>

\* The records the query has returned.
Result == [k \in DOMAIN read |-> log[read[k]]]

\* PendingShutdown on them; a failed query leaves the notice without a reason.
Classify(t) ==
  /\ pc = "query" /\ qpc = "done"
  /\ LET e == PendingShutdown(Result, Now, Recent)
     IN  named' = IF QueryFailed \/ e = 0 THEN 0 ELSE read[e]
  /\ elapsed' = elapsed + t
  /\ pc' = "send"
  /\ UNCHANGED <<scm, input, i, said, channel, queryVars>>

\* Mutant: three attempts.
LastTryLate == i = 2

LastTry == i = 1

\* Mutant: a success does not end the loop.
EndsRegardless(answer) == LastTry \/ Permanent(Seen(answer))

\* Whether an answer ends the loop.
Ends(answer) == LastTry \/ Success(Seen(answer)) \/ Permanent(Seen(answer))

Retry == pc' = "pause" /\ UNCHANGED <<scm, said>>

\* notify.ErrInvalidRequest: nothing goes on the wire.
SendInvalid ==
  /\ pc = "send" /\ config.url = "unusable"
  /\ Return("error")
  /\ UNCHANGED <<input, named, i, elapsed, channel, queryVars>>

\* client.Do fails: the post may have been taken.
SendTransportError(t) ==
  /\ pc = "send" /\ config.url = "valid"
  /\ elapsed' = elapsed + t
  /\ \E reached \in {0, 1} : taken' = taken + reached /\ lost' = lost + reached
  /\ IF LastTry THEN Return("error") ELSE Retry
  /\ UNCHANGED <<input, named, i, queryVars>>

\* An answer arrives.  A 2xx says the post was taken, a 3xx or 4xx that it was not;
\* a gateway's 5xx leaves it open.
SendAnswered(t, answer) ==
  /\ pc = "send" /\ config.url = "valid"
  /\ elapsed' = elapsed + t
  /\ \E reached \in {0, 1} :
       /\ Success(answer) => reached = 1
       /\ answer \in 300 .. 499 => reached = 0
       /\ taken' = taken + reached
       /\ lost' = IF Success(answer) THEN lost ELSE lost + reached
  /\ IF Ends(answer) THEN Return(IF Success(Seen(answer)) THEN "sent" ELSE "error") ELSE Retry
  /\ UNCHANGED <<input, named, i, queryVars>>

Sleep ==
  /\ pc = "pause"
  /\ elapsed' = elapsed + Pause /\ i' = i + 1 /\ pc' = "send"
  /\ UNCHANGED <<scm, input, named, said, channel, queryVars>>

-----------------------------------------------------------------------------
\* The process has ended.
Ended == pc = "end" /\ UNCHANGED vars

Step ==
  \/ Start \/ Answer \/ Stop \/ Shutdown
  \/ Load \/ Querying \/ \E t \in ReadTimes : Classify(t)
  \/ SendInvalid
  \/ \E t \in SendTimes :
       SendTransportError(t) \/ \E answer \in Statuses : SendAnswered(t, answer)
  \/ Sleep

Next == Step \/ (\E c \in Controls : SendControl(c)) \/ Ended

\* The process is scheduled and every call it makes returns; nobody has to send a
\* control request.
Spec == Init /\ [][Next]_vars /\ WF_vars(Step)

-----------------------------------------------------------------------------
TypeOK ==
  /\ QueryTypeOK
  /\ caller \in {"service", "console"} /\ force \in BOOLEAN /\ config \in Configs
  /\ status \in {"starting", "running", "stopping", "stopped"}
  /\ control \in Controls \cup {"none"}
  /\ pc \in {"start", "wait", "load", "query", "send", "pause", "end"}
  /\ log \in Logs /\ entries = Len(log) /\ named \in 0 .. entries
  /\ i \in 0 .. 1 /\ elapsed \in Nat
  /\ said \in {"none", "sent", "disabled", "error"}
  /\ asked \in BOOLEAN /\ taken \in Nat /\ lost \in Nat

\* The longest the notice can take when the configuration and the log are read in
\* SlowestRead.
WorstNotice == SlowestRead + 2 * SendTimeout + Pause

\* service_windows.go:50-53 -- the WaitHint is above the bounded send budget: the
\* SCM does not take the service for hung while it sends.
InsideWaitHint == WorstNotice <= WaitHint => elapsed <= WaitHint

\* A notice that was asked for is accounted for, truthfully, before the service is
\* gone (service_windows.go:86-88): sent if an answer says that the server took it;
\* declined if the gate declined it, on a configuration that loaded, with nothing
\* posted; an error in every other case, a configuration that does not load or names
\* no webhook included.  Nothing is posted unasked or against the gate.
NoticeIsAccounted ==
  /\ pc = "end" /\ asked => said # "none"
  /\ said = "sent" => taken > lost
  /\ said = "disabled" => config.loads /\ ~(config.on \/ force) /\ taken = 0
  /\ said = "error" => taken = lost /\ (~config.loads \/ config.on \/ force)
  /\ taken > 0 => asked /\ config.loads /\ (config.on \/ force)

\* A shutdown is announced once: a second copy stands for an answer that was lost.
OneNotice == taken <= lost + 1

\* The notice names the request of the shutdown under way as the whole log shows it,
\* or none.  An older one it names only when a newer marker or request could not be
\* read, and it names none only when the query was cut short or Limit readable
\* entries are newer.
NamedIsTrue ==
  LET whole == PendingShutdown(log, Now, Recent)
      newer == {k \in 1 .. whole : k \notin damaged}
  IN  (/\ pc \in {"send", "pause"}
       /\ \A k \in damaged : ~IsBootMarker(log[k]) /\ ~IsShutdownRequest(log[k]))
        => /\ named \in {0, whole}
           /\ ~cut /\ Cardinality(newer) <= Limit => named = whole

\* A shutdown signal the handler is to take ends with the service stopped: the
\* notice never holds the shutdown up.
ShutdownIsNotHeldUp == control \in ShutdownControls ~> status = "stopped"
=============================================================================
