------------------------------ MODULE BootRun -------------------------------
(***************************************************************************)
(* One cmdRun, start to end, with its time: load the configuration and the *)
(* state, poll the event log, decide, send, record, log one line, exit.    *)
(* The send is a call as SendCall promises it; Task Scheduler terminates   *)
(* the run at TimeLimit.  Seconds.                                         *)
(***************************************************************************)
EXTENDS NotifyBudget

CONSTANTS
  CollectAttempts,  \* collectAttempts, how many times the event log is queried
  CollectWait,      \* collectWait, the sleep between two queries
  QueryTimes,       \* how long a query can take: nothing in the code bounds it
  SlowestQuery,     \* the longest of them
  SaveTime,         \* the longest save
  TimeLimit         \* executionTimeLimit of the scheduled task

ASSUME RunAssumption ==
  /\ CollectAttempts \in Nat \ {0} /\ CollectWait \in Nat
  /\ SlowestQuery \in Nat /\ QueryTimes \subseteq 0 .. SlowestQuery
  /\ SaveTime \in Nat /\ TimeLimit \in Nat

VARIABLES
  phase,      \* where cmdRun is
  clock,      \* the seconds since the task fired
  attempt,    \* collect's loop counter
  failing,    \* whether collect's lastErr is set
  dryRun,     \* -dry-run
  force,      \* -force
  known,      \* whether the state that was loaded names the latest boot
  onDisk,     \* whether state.json names the latest boot
  wanted,     \* whether notify_on lists the boot's category
  webhook,    \* whether a webhook is configured
  lines,      \* the lines this run has appended to the log
  outcome,    \* the outcome the last of them states
  exit,       \* what cmdRun has returned: "running", "nil" or "error"
  returned, ok, spent, delivered   \* the call of SendWithRetry

call == <<returned, ok, spent, delivered>>
input == <<dryRun, force, known, wanted, webhook>>
ending == <<lines, outcome, exit>>
vars == <<phase, clock, attempt, failing, input, onDisk, ending, call>>

Send == INSTANCE SendCall

Init ==
  /\ phase = "load" /\ clock = 0 /\ attempt = 0 /\ failing = FALSE
  /\ dryRun \in BOOLEAN /\ force \in BOOLEAN
  /\ onDisk \in BOOLEAN /\ known = FALSE
  /\ wanted \in BOOLEAN /\ webhook \in BOOLEAN
  /\ lines = 0 /\ outcome = "none" /\ exit = "running"
  /\ Send!Init

-----------------------------------------------------------------------------
\* appLog(runLogLine(...)), then the return.
Leave(word, result) ==
  /\ lines' = lines + 1 /\ outcome' = word
  /\ exit' = result
  /\ phase' = "done"

ConfigError ==
  /\ phase = "load"
  /\ Leave("config-error", "error")
  /\ UNCHANGED <<clock, attempt, failing, input, onDisk, call>>

\* config.Load succeeds; state.Load reads the file, or an empty state for a file it
\* cannot read.
Load ==
  /\ phase = "load"
  /\ phase' = "query"
  /\ known' \in {onDisk, FALSE}
  /\ UNCHANGED <<clock, attempt, failing, dryRun, force, onDisk, wanted, webhook, ending, call>>

\* Mutant: one query more than collectAttempts.
LastAttemptTooLate == attempt = CollectAttempts

LastAttempt == attempt = CollectAttempts - 1

\* A query returns records with a boot marker in them.
Found(t) ==
  /\ phase = "query"
  /\ clock' = clock + t
  /\ phase' = "decide"
  /\ UNCHANGED <<attempt, failing, input, onDisk, ending, call>>

\* It fails, or shows no boot: collect sleeps and tries again, or gives up with the
\* last error it saw.
NotFound(t) ==
  /\ phase = "query"
  /\ failing' \in {failing, TRUE}
  /\ \/ /\ ~LastAttempt
        /\ attempt' = attempt + 1
        /\ clock' = clock + t + CollectWait
        /\ UNCHANGED <<phase, ending>>
     \/ /\ LastAttempt
        /\ Leave("detect-error", "error")
        /\ clock' = clock + t
        /\ UNCHANGED attempt
  /\ UNCHANGED <<input, onDisk, call>>

AlreadyNotified == ~force /\ known

\* What cmdRun does about the boot it found, in the order of its early returns.
Skip ==
  /\ phase = "decide" /\ AlreadyNotified
  /\ Leave("skipped-already-notified", "nil")
  /\ UNCHANGED <<clock, attempt, failing, input, onDisk, call>>

Preview ==
  /\ phase = "decide" /\ ~AlreadyNotified /\ dryRun
  /\ phase' = "done" /\ exit' = "nil"
  /\ UNCHANGED <<clock, attempt, failing, input, onDisk, lines, outcome, call>>

Exclude ==
  /\ phase = "decide" /\ ~AlreadyNotified /\ ~dryRun /\ ~wanted
  /\ phase' = "save"
  /\ UNCHANGED <<clock, attempt, failing, input, onDisk, ending, call>>

NoWebhook ==
  /\ phase = "decide" /\ ~AlreadyNotified /\ ~dryRun /\ wanted /\ ~webhook
  /\ Leave("no-webhook", "error")
  /\ UNCHANGED <<clock, attempt, failing, input, onDisk, call>>

Notify ==
  /\ phase = "decide" /\ ~AlreadyNotified /\ ~dryRun /\ wanted /\ webhook
  /\ phase' = "send"
  /\ UNCHANGED <<clock, attempt, failing, input, onDisk, ending, call>>

\* The call goes on, or returns and is accounted for.
Sending ==
  /\ phase = "send"
  /\ Send!Next
  /\ clock' = clock + spent' - spent
  /\ IF returned' THEN phase' = IF ok' THEN "save" ELSE "failed" ELSE UNCHANGED phase
  /\ UNCHANGED <<attempt, failing, input, onDisk, ending>>

\* Mutant: the failed send is logged and the error dropped.
SendFailedQuietly ==
  /\ phase = "failed"
  /\ Leave("send-failed", "nil")
  /\ UNCHANGED <<clock, attempt, failing, input, onDisk, call>>

SendFailed ==
  /\ phase = "failed"
  /\ Leave("send-failed", "error")
  /\ UNCHANGED <<clock, attempt, failing, input, onDisk, call>>

\* Mutant: the delivery that was not recorded is logged as a plain success.
SavedWordAlwaysSent(saved) == IF ok THEN "sent" ELSE "skipped-not-in-notify_on"

SavedWord(saved) ==
  IF ~ok THEN "skipped-not-in-notify_on"
  ELSE IF saved THEN "sent" ELSE "sent-state-write-failed"

\* Mutant: the error of the save is dropped.
SavedExitAlwaysNil(saved) == "nil"

SavedExit(saved) == IF saved THEN "nil" ELSE "error"

\* saveState, after a delivery or for an excluded category.  A save that fails has
\* left the old file in place: the rename is its last step.
Save(saved) ==
  /\ phase = "save"
  /\ onDisk' = (saved \/ onDisk)
  /\ clock' \in {clock, clock + SaveTime}
  /\ Leave(SavedWord(saved), SavedExit(saved))
  /\ UNCHANGED <<attempt, failing, input, call>>

Done == phase = "done" /\ UNCHANGED vars

Next ==
  \/ ConfigError \/ Load
  \/ \E t \in QueryTimes : Found(t) \/ NotFound(t)
  \/ Skip \/ Preview \/ Exclude \/ NoWebhook \/ Notify
  \/ Sending \/ SendFailed
  \/ \E saved \in BOOLEAN : Save(saved)
  \/ Done

Spec == Init /\ [][Next]_vars

-----------------------------------------------------------------------------
Outcomes ==
  {"none", "sent", "sent-state-write-failed", "skipped-already-notified",
   "skipped-not-in-notify_on", "config-error", "detect-error", "no-webhook", "send-failed"}

InputType ==
  /\ dryRun \in BOOLEAN /\ force \in BOOLEAN /\ known \in BOOLEAN
  /\ onDisk \in BOOLEAN /\ wanted \in BOOLEAN /\ webhook \in BOOLEAN

ProgressType ==
  /\ phase \in {"load", "query", "decide", "send", "failed", "save", "done"}
  /\ clock \in Nat
  /\ attempt \in 0 .. CollectAttempts - 1
  /\ failing \in BOOLEAN

EndingType == lines \in 0 .. 1 /\ outcome \in Outcomes /\ exit \in {"running", "nil", "error"}

CallType == returned \in BOOLEAN /\ ok \in BOOLEAN /\ spent \in Nat /\ delivered \in BOOLEAN

TypeOK == InputType /\ ProgressType /\ EndingType /\ CallType

\* The longest a run can take when a query takes at most SlowestQuery.
WorstRun ==
  CollectAttempts * SlowestQuery + (CollectAttempts - 1) * CollectWait
    + WorstCaseDuration(Attempts, Wait) + SaveTime

\* task_windows.go:22-54 -- Task Scheduler never has to terminate the run, as long
\* as the queries leave the margin the constants were chosen with.
InsideTimeLimit == WorstRun <= TimeLimit => clock <= TimeLimit

\* A run that exits without an error leaves the boot on the record.
CleanExitIsRecorded == exit = "nil" /\ ~dryRun => onDisk

\* main.go:226-229 -- the grep for "the send worked" finds the runs that delivered
\* and recorded, and no others.
SentMeansAllOfIt ==
  outcome = "sent" => delivered /\ onDisk /\ exit = "nil"

\* main.go:226-229 -- a message that reached the channel leaves the boot on record,
\* or else one line that names the failure and an exit that is no success: no run
\* delivers and then ends as a skip or in silence, a lost answer included.
DeliveredIsTold ==
  phase = "done" /\ delivered =>
    /\ lines = 1
    /\ \/ onDisk /\ outcome = "sent" /\ exit = "nil"
       \/ outcome \in {"sent-state-write-failed", "send-failed"} /\ exit = "error"
=============================================================================
