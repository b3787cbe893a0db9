----------------------------- MODULE BootNotify -----------------------------
(***************************************************************************)
(* The boot-time notifier over a sequence of boots.  Each boot starts the  *)
(* scheduled task once; more runs can be started by hand or on demand.     *)
(* Every run is one cmdRun: read state.json, find the latest boot in the   *)
(* event log, decide, send, and record the boot through a temporary file   *)
(* and a rename.  Runs share state.json and its one temporary file, and    *)
(* nothing else coordinates them.                                          *)
(*                                                                         *)
(* Faults names what the environment may do in an instance:                *)
(*   "late"      a boot's marker reaches the log only after its runs began *)
(*   "overlap"   a run is started while another one is active              *)
(*   "force"     a run is started with -force                              *)
(*   "config"    the configuration cannot be loaded, or has no webhook     *)
(*   "exclude"   notify_on does not list the boot's category               *)
(*   "query"     every query of the event log fails                        *)
(*   "lost"      the server takes a post and its answer is lost            *)
(*   "fail"      SendWithRetry gives up                                    *)
(*   "disk"      a step of state.Save fails                                *)
(*   "kill"      a run is terminated mid-flight                            *)
(*   "interrupt" the machine goes down while a run is recording            *)
(*   "power"     it goes down without the latest saves on the disk         *)
(***************************************************************************)
EXTENDS Naturals

CONSTANTS
  Runs,         \* the processes that execute cmdRun
  Task,         \* the one the boot trigger starts
  Faults,       \* what can go wrong
  MaxBoots,     \* bound: how often the machine boots
  MaxStarts,    \* bound: how many runs a boot sees
  MaxCopies     \* bound: how many copies of a boot's message are posted

AllFaults ==
  {"late", "overlap", "force", "config", "exclude", "query", "lost", "fail",
   "disk", "kill", "interrupt", "power"}

ASSUME BoundAssumption ==
  /\ MaxBoots \in Nat \ {0}
  /\ MaxStarts \in Nat
  /\ MaxCopies \in Nat

ASSUME SetupAssumption ==
  /\ Task \in Runs
  /\ Faults \subseteq AllFaults

VARIABLES
  boot,        \* the current boot, counted from 1
  visible,     \* the newest boot whose marker a query finds, 0 for none
  stateFile,   \* the boot state.json names; NoBoot when missing or unreadable
  tmpFile,     \* state.json.tmp: whether it exists and the boot it names
  older,       \* what state.json named at the renames that may not be on the disk
  pc,          \* where each run is
  loaded,      \* the state each run read when it started
  seen,        \* the boot each run's Result describes
  force,       \* whether each run was given -force
  sent,        \* whether each run has delivered its message
  triggered,   \* whether the boot trigger has fired in this boot
  starts,      \* how many runs have been started in this boot
  posted,      \* how many messages about each boot the channel has received
  skipped,     \* the boots recorded because notify_on excludes their category
  log,         \* the lines of service.log, with the boot they were written in
  excused      \* history: the boots something went wrong with (see Excuse)

file == <<stateFile, tmpFile, older>>
run == <<pc, loaded, seen, force, sent>>
machine == <<boot, visible, triggered, starts>>
account == <<posted, skipped, log, excused>>
vars == <<machine, file, run, account>>

Boots == 1 .. MaxBoots
NoBoot == 0   \* what a missing, empty or torn file names: the zero State

Recording == {"open", "write", "rename"}   \* the steps of state.Save

Idle(r) == pc[r] = "idle"
Active == {r \in Runs : ~Idle(r)}
Faulty(f) == f \in Faults

\* Something befell these boots that the code cannot make up for.
Excuse(bs) == excused' = excused \cup bs

\* Boots whose delivered message the given runs have not recorded yet.
Unrecorded(rs) == {seen[r] : r \in {q \in rs : pc[q] \in Recording}}

\* appLog(runLogLine(...)): one line of service.log.
Line(r, b, outcome) == [in |-> boot, by |-> r, about |-> b, outcome |-> outcome]
Logs(r, b, outcome) == log' = log \cup {Line(r, b, outcome)}

Goto(r, label) == pc' = [pc EXCEPT ![r] = label]

\* The process is gone, and what it had in memory with it.
Exit(rs) ==
  /\ pc' = [r \in Runs |-> IF r \in rs THEN "idle" ELSE pc[r]]
  /\ loaded' = [r \in Runs |-> IF r \in rs THEN NoBoot ELSE loaded[r]]
  /\ seen' = [r \in Runs |-> IF r \in rs THEN NoBoot ELSE seen[r]]
  /\ force' = [r \in Runs |-> IF r \in rs THEN FALSE ELSE force[r]]
  /\ sent' = [r \in Runs |-> IF r \in rs THEN FALSE ELSE sent[r]]

-----------------------------------------------------------------------------
Init ==
  /\ boot = 1
  /\ visible \in IF Faulty("late") THEN {NoBoot, 1} ELSE {1}
  /\ stateFile = NoBoot /\ older = {}
  /\ tmpFile = [exists |-> FALSE, names |-> NoBoot]
  /\ pc = [r \in Runs |-> "idle"]
  /\ loaded = [r \in Runs |-> NoBoot]
  /\ seen = [r \in Runs |-> NoBoot]
  /\ force = [r \in Runs |-> FALSE]
  /\ sent = [r \in Runs |-> FALSE]
  /\ triggered = FALSE /\ starts = 0
  /\ posted = [b \in Boots |-> 0]
  /\ skipped = {} /\ log = {} /\ excused = {}

-----------------------------------------------------------------------------
(* The machine.                                                            *)

\* Down and up again: every run dies, the files and the log keep what they had.
\* state.Save flushes nothing, so with the power a rename that is not on the disk
\* can be lost, which brings an earlier state.json back, or the bytes it renamed,
\* which leaves an empty one.  (What becomes of state.json.tmp does not matter:
\* every run truncates it first.)
Reboot ==
  /\ boot < MaxBoots
  /\ Faulty("interrupt") \/ \A r \in Runs : pc[r] \notin Recording
  /\ boot' = boot + 1
  /\ visible' \in IF Faulty("late") THEN {visible, boot + 1} ELSE {boot + 1}
  /\ \/ /\ UNCHANGED stateFile
        /\ Excuse(Unrecorded(Runs))
     \/ /\ Faulty("power") /\ older # {}
        /\ stateFile' \in older \cup {NoBoot}
        /\ Excuse(Unrecorded(Runs) \cup {stateFile})
  /\ older' = {}
  /\ Exit(Runs)
  /\ triggered' = FALSE /\ starts' = 0
  /\ UNCHANGED <<tmpFile, posted, skipped, log>>

\* The Event Log service commits this boot's marker.
Commit ==
  /\ visible < boot
  /\ visible' = boot
  /\ UNCHANGED <<boot, triggered, starts, file, run, account>>

\* The lazy writer puts the renamed file on the disk.
Flush ==
  /\ older # {}
  /\ older' = {}
  /\ UNCHANGED <<machine, stateFile, tmpFile, run, account>>

-----------------------------------------------------------------------------
(* One run of cmdRun.                                                      *)

\* config.Load, then state.Load: the state is read here and used much later.
Begin(r, f) ==
  /\ Faulty("overlap") \/ Active = {}
  /\ \/ /\ Faulty("config")
        /\ Logs(r, NoBoot, "config-error")
        /\ UNCHANGED <<run, excused>>
     \/ /\ Goto(r, "collect")
        /\ loaded' = [loaded EXCEPT ![r] = stateFile]
        /\ force' = [force EXCEPT ![r] = f]
        /\ Excuse(IF Active = {} THEN {} ELSE {visible, boot})
        /\ UNCHANGED <<seen, sent, log>>
  /\ UNCHANGED <<boot, visible, file, posted, skipped>>

\* The boot trigger fires once per boot; IgnoreNew drops it while an on-demand
\* instance of the task is still running.
Trigger ==
  /\ ~triggered
  /\ triggered' = TRUE
  /\ UNCHANGED starts
  /\ \/ Idle(Task) /\ Begin(Task, FALSE)
     \/ ~Idle(Task) /\ UNCHANGED <<boot, visible, file, run, account>>

\* `restart-message run` from a console, or the task started on demand.
StartByHand(r) ==
  /\ Idle(r)
  /\ starts < MaxStarts
  /\ starts' = starts + 1
  /\ UNCHANGED triggered
  /\ \E f \in BOOLEAN :
       /\ f => Faulty("force") /\ r # Task
       /\ Begin(r, f)

\* Mutant: the records are not read newest-first.
LatestInAnyOrder == 1 .. visible

\* The boots collect can return: the newest the log shows, whichever that is.
Latest == {visible} \ {NoBoot}

\* Mutants: only the task consults the state; any state at all counts.
AlreadyNotifiedTaskOnly(r, b) == r = Task /\ loaded[r] = b
AlreadyNotifiedAnyBoot(r, b) == loaded[r] # NoBoot

\* (s *State) AlreadyNotified, on the state read when the run began.
AlreadyNotified(r, b) == loaded[r] = b

\* Nothing is sent: the boot was notified before.
Skip(r, b) ==
  /\ ~force[r] /\ AlreadyNotified(r, b)
  /\ Logs(r, b, "skipped-already-notified")
  /\ Exit({r})
  /\ UNCHANGED <<skipped, excused>>

\* notify_on does not list the category: only the state is updated.
Exclude(r, b) ==
  /\ Faulty("exclude")
  /\ force[r] \/ ~AlreadyNotified(r, b)
  /\ Goto(r, "open")
  /\ seen' = [seen EXCEPT ![r] = b]
  /\ skipped' = skipped \cup {b}
  /\ UNCHANGED <<loaded, force, sent, log, excused>>

NoWebhook(r, b) ==
  /\ Faulty("config")
  /\ force[r] \/ ~AlreadyNotified(r, b)
  /\ Logs(r, b, "no-webhook")
  /\ Exit({r})
  /\ UNCHANGED <<skipped, excused>>

Notify(r, b) ==
  /\ force[r] \/ ~AlreadyNotified(r, b)
  /\ Goto(r, "send")
  /\ seen' = [seen EXCEPT ![r] = b]
  /\ Excuse(IF force[r] THEN {b} ELSE {})
  /\ UNCHANGED <<loaded, force, sent, skipped, log>>

\* collect has found a boot: what the run does about it.
Decide(r) ==
  /\ pc[r] = "collect"
  /\ \E b \in Latest : Skip(r, b) \/ Exclude(r, b) \/ NoWebhook(r, b) \/ Notify(r, b)
  /\ UNCHANGED <<machine, file, posted>>

\* collect gives up: no marker in the log, or no query succeeded.
DetectError(r) ==
  /\ pc[r] = "collect"
  /\ visible = NoBoot \/ Faulty("query")
  /\ Logs(r, NoBoot, "detect-error")
  /\ Exit({r})
  /\ UNCHANGED <<machine, file, posted, skipped, excused>>

Post(r) ==
  /\ pc[r] = "send"
  /\ posted[seen[r]] < MaxCopies
  /\ posted' = [posted EXCEPT ![seen[r]] = @ + 1]

\* A 2xx arrives: SendWithRetry returns nil.
Send(r) ==
  /\ Post(r)
  /\ Goto(r, "open")
  /\ sent' = [sent EXCEPT ![r] = TRUE]
  /\ UNCHANGED <<machine, file, loaded, seen, force, skipped, log, excused>>

\* The post is taken but its answer is lost: SendWithRetry tries again.
SendLost(r) ==
  /\ Faulty("lost")
  /\ Post(r)
  /\ Excuse({seen[r]})
  /\ UNCHANGED <<machine, file, run, skipped, log>>

\* Mutant: a failed send is recorded all the same.
SendFailedYetSaved(r) ==
  /\ Faulty("fail")
  /\ pc[r] = "send"
  /\ Goto(r, "open")
  /\ UNCHANGED <<machine, file, loaded, seen, force, sent, account>>

\* SendWithRetry returns an error: nothing is recorded.
SendFailed(r) ==
  /\ Faulty("fail")
  /\ pc[r] = "send"
  /\ Logs(r, seen[r], "send-failed")
  /\ Exit({r})
  /\ UNCHANGED <<machine, file, posted, skipped, excused>>

-----------------------------------------------------------------------------
(* saveState: state.Save writes state.json.tmp and renames it.             *)

\* os.WriteFile opens and truncates the file every run shares.
OpenTmp(r) ==
  /\ pc[r] = "open"
  /\ tmpFile' = [exists |-> TRUE, names |-> NoBoot]
  /\ Goto(r, "write")
  /\ UNCHANGED <<machine, stateFile, older, loaded, seen, force, sent, account>>

\* It writes and closes.  Over another writer's bytes the result can be torn.
WriteTmp(r) ==
  /\ pc[r] = "write"
  /\ \E names \in {seen[r], NoBoot} :
       /\ tmpFile.names = NoBoot => names = seen[r]
       /\ tmpFile' = [exists |-> TRUE, names |-> names]
  /\ Goto(r, "rename")
  /\ UNCHANGED <<machine, stateFile, older, loaded, seen, force, sent, account>>

\* Windows refuses to rename a file that another writer holds open.
CanRename == tmpFile.exists /\ \A q \in Runs : pc[q] # "write"

\* Mutants: the excluded category is logged as sent; an outcome nobody greps for.
SavedOutcomeAlwaysSent(r) == "sent"
SavedOutcomeUnknown(r) == IF sent[r] THEN "sent" ELSE "skipped"

\* The outcome of a run whose state was recorded, and of one whose was not.
SavedOutcome(r) == IF sent[r] THEN "sent" ELSE "skipped-not-in-notify_on"
UnsavedOutcome(r) ==
  IF sent[r] THEN "sent-state-write-failed" ELSE "skipped-not-in-notify_on"

Rename(r) ==
  /\ pc[r] = "rename" /\ CanRename
  /\ stateFile' = tmpFile.names
  /\ tmpFile' = [exists |-> FALSE, names |-> NoBoot]
  /\ older' = older \cup {stateFile}
  /\ Logs(r, seen[r], SavedOutcome(r))
  /\ Exit({r})
  /\ UNCHANGED <<machine, posted, skipped, excused>>

\* A step of state.Save fails, or the temporary file is gone or in use.
SaveFailed(r) ==
  /\ pc[r] \in Recording
  /\ Faulty("disk") \/ (pc[r] = "rename" /\ ~CanRename)
  /\ Logs(r, seen[r], UnsavedOutcome(r))
  /\ Excuse({seen[r]})
  /\ Exit({r})
  /\ UNCHANGED <<machine, file, posted, skipped>>

\* Hard termination at the task's time limit, or from the console.
Kill(r) ==
  /\ Faulty("kill") /\ ~Idle(r)
  /\ Excuse(Unrecorded({r}))
  /\ Exit({r})
  /\ UNCHANGED <<machine, file, posted, skipped, log>>

-----------------------------------------------------------------------------
Step(r) ==
  \/ Decide(r) \/ DetectError(r)
  \/ Send(r) \/ SendLost(r) \/ SendFailed(r)
  \/ OpenTmp(r) \/ WriteTmp(r) \/ Rename(r) \/ SaveFailed(r)

\* No boot is left and nothing is running; stuttering is no deadlock.
Rest == boot = MaxBoots /\ Active = {} /\ UNCHANGED vars

Next ==
  \/ Reboot \/ Commit \/ Flush \/ Trigger \/ Rest
  \/ \E r \in Runs : StartByHand(r) \/ Step(r) \/ Kill(r)

\* A started process keeps running, the scheduler fires the trigger, and the
\* Event Log service commits what it was given.  Nothing forces a reboot.
Fairness ==
  /\ WF_vars(Commit) /\ WF_vars(Trigger)
  /\ \A r \in Runs : WF_vars(Step(r))

Spec == Init /\ [][Next]_vars /\ Fairness

-----------------------------------------------------------------------------
Outcomes ==
  {"sent", "sent-state-write-failed", "skipped-already-notified",
   "skipped-not-in-notify_on", "config-error", "detect-error", "no-webhook",
   "send-failed"}

MachineType ==
  /\ boot \in Boots /\ visible \in 0 .. boot
  /\ triggered \in BOOLEAN /\ starts \in 0 .. MaxStarts

FileType ==
  /\ stateFile \in 0 .. MaxBoots
  /\ tmpFile \in [exists : BOOLEAN, names : 0 .. MaxBoots]
  /\ older \subseteq 0 .. MaxBoots

RunType ==
  /\ pc \in [Runs -> {"idle", "collect", "send"} \cup Recording]
  /\ loaded \in [Runs -> 0 .. MaxBoots]
  /\ seen \in [Runs -> 0 .. MaxBoots]
  /\ force \in [Runs -> BOOLEAN]
  /\ sent \in [Runs -> BOOLEAN]

Lines == [in : Boots, by : Runs, about : 0 .. MaxBoots, outcome : Outcomes]

AccountType ==
  /\ posted \in [Boots -> 0 .. MaxCopies]
  /\ skipped \subseteq Boots
  /\ log \subseteq Lines
  /\ excused \subseteq 0 .. MaxBoots

TypeOK == MachineType /\ FileType /\ RunType /\ AccountType

\* A boot is settled when its message is in the channel or notify_on excludes it.
Settled(b) == posted[b] > 0 \/ b \in skipped

\* state.json never names a boot that was not settled first: whatever fails, it
\* cannot silence a boot nobody was told about.
RecordedIsSettled == stateFile # NoBoot => Settled(stateFile)

\* No line of the log claims more than happened: "sent" and its failed-write twin
\* mean the message is out, the two skips mean there was nothing left to send.
Truthful(line) ==
  /\ line.outcome \in {"sent", "sent-state-write-failed"} => posted[line.about] > 0
  /\ line.outcome = "skipped-already-notified" => Settled(line.about)
  /\ line.outcome = "skipped-not-in-notify_on" => line.about \in skipped

LogIsTruthful == \A line \in log : Truthful(line)

\* README.md:31 -- one message per boot, however often the command is run in it: the
\* state file tells every later run.
AtMostOnce == \A b \in Boots : posted[b] <= 1

\* While the machine stays up the record never returns to an earlier boot, whoever
\* renames whose temporary file; going down, it can lose what was not on the disk.
RecordMovesForward ==
  [][stateFile' # NoBoot /\ stateFile' < stateFile => boot' # boot]_vars

\* When the task's run of this boot ended quietly (it neither failed nor was
\* killed), this boot has been reported.
QuietRunMeansSettled ==
  \A line \in log :
    (line.by = Task /\ line.outcome \notin {"config-error", "detect-error",
                                           "no-webhook", "send-failed"})
      => Settled(line.in)

\* README.md:541 -- "skipped-already-notified" means: this boot has been notified.
SkipMeansReported ==
  \A line \in log :
    line.outcome = "skipped-already-notified" => Settled(line.in)

\* What is posted is about the boot the machine is in.  A boot whose delivery was not
\* recorded, or that got no message before the machine went down, is not taken up by a
\* later one, whatever README.md:539, main.go:226-227 and main.go:244 say of the former
\* (that the next boot notifies again): only a run in the same boot can repeat it.
OnlyThisBootIsTold == [][\A b \in Boots : posted'[b] > posted[b] => b = boot]_vars

\* As long as the machine stays up, the boot is settled in the end: somebody is
\* told, or notify_on excludes it.
EveryBootReported ==
  \A b \in Boots : (boot = b) ~> (Settled(b) \/ boot > b)

\* The promise of OncePerBoot.
Promise == INSTANCE OncePerBoot
KeepsPromise == Promise!Spec
=============================================================================
