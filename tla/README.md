# restart-message in TLA+

restart-message tells a Discord channel that a Windows machine has restarted, and why.  One minute
after every boot a scheduled task starts `restart-message run`, which reads the System event log,
classifies the boot, posts one message and records the boot in `state.json`.  A Windows service
posts a second kind of message when a shutdown begins.  This directory holds a model of that
program, the TLC runs that check it, and TLAPS proofs about it.  Paths and line numbers are
relative to `src/`; `PROJECT.json` names for each definition the lines it stands for.

## 1. The system

| Component | State | Operations | Talks to |
|---|---|---|---|
| Webhook client, `internal/notify` | none that outlives a call: attempt counter, last error | `Send`, `SendWithRetry`, `Permanent`, `parseRetryAfter`, `clampRetryAfter`, `WorstCaseDuration` | the webhook over HTTP |
| Boot state, `internal/state` | `state.json`, `state.json.tmp` | `Load`, `Save`, `AlreadyNotified` | the file system, shared by every run |
| Boot-time run, `cmdRun` and `collect` in `main.go` | one line per run in `service.log` | poll the log, decide, send, record, log | all of the above, configuration, detection |
| Classification, `internal/detect` | none | `Latest`, `PendingShutdown` | the records `winevent.Query` returns |
| Scheduled task, `task_windows.go` | the task's registration | boot trigger, IgnoreNew, on-demand start, 10 minute limit; install, uninstall | Task Scheduler |
| Configuration, `internal/config` | a file and two environment variables | `Load`, `validateWebhookURL`, `ShouldNotify` | every command |
| Event log query, `internal/winevent` | none | `Query`, `parseRecord` | `wevtapi.dll` |
| Pre-shutdown service, `service_windows.go` | the service's status | control handler, `sendShutdownNotice` | the service manager, webhook client, detection |
| Service installation, `service_windows.go` | registrations | install, uninstall, find and remove own services | the service manager |
| Install gate, `main.go` | the process environment, for a moment | `gatherInstallFacts`, `checkInstallConfig`, `installGate` | configuration |
| Messages, `status`, `test`, `main.go` | none | rendering | console, webhook |

What is hard here is in the seams, not in a function:

- **Time.** Polling, twelve attempts, waits that a server can stretch, and queries without a
  timeout must fit under a limit at which Task Scheduler kills the process (`task_windows.go:54`).
- **Failure between two steps.** The message is posted before the boot is recorded
  (`main.go:220-230`); a crash, a kill, a full disk or a power loss can fall between.
- **An answer that is lost.** A post may have been taken though `Send` reports an error, and is
  then repeated.
- **Concurrency.** A run from a console can overlap the task's; they share `state.json` and the one
  `state.json.tmp`, and nothing coordinates them (`state.go:44`).
- **Two looks at one thing.** The configuration is found with a stat and read later; a registration
  is judged by an administrator's process and lived with by SYSTEM (`main.go:615-625`); a service is
  deleted now and gone some time later (`service_windows.go:201-214`).
- **A result that is shorter than it looks.** `Query` stops at a limit, passes over what it cannot
  render and drops an error it met after the first record (`winevent.go:104`).
- **Order.** The log commits records in an order of its own, and late; its stamps come from a clock
  that is stepped; Windows writes how the last session ended only in the next one.

What makes each component correct:

- *client*: no call outlasts its budget; success is reported only of a message that was taken;
  trouble that passes is sat out for the whole of the waits,
  trouble that lasts is given no time;
- *state and run*: a boot is reported at most once, never forgotten because the state says it was
  reported, the log says no more than what happened, and the boot is reported in the end;
- *one run*: it ends before its limit; exit code, log line and state file agree;
- *classification*: the category is the real cause, the downtime the real one, no failure is
  invented, a shutdown notice names a request of this session;
- *query*: what it returns are the newest readable entries, and an empty answer is an honest one;
- *shutdown notice*: it ends inside the WaitHint, its outcome is told truthfully, it is sent once
  and names no request but the one under way, and the service always stops;
- *configuration and install gate*: neither the file that was named nor one that is there is passed over, and the gate lets through
  what SYSTEM can notify with and nothing else;
- *service installation*: nothing is touched but what its name or its command line claims, success
  means exactly one registration of ours, or none after an uninstall, and the command ends.

## 2. The modules

```
NotifyBudget --- SendCall        abstract: what a caller of SendWithRetry may rely on
     |      \        ^  ^
     |    Notify ----'  |         Notify implements SendCall
     |      |           |
     |  NotifyProofs    |
     '--- BootRun ------'         one timed cmdRun that calls SendCall
              |
         BootRunProofs
OncePerBoot <--- BootNotify --- BootNotifyProofs   boots, runs, crashes; implements OncePerBoot
Detect <--- Sessions --- SessionsProofs            classification, run on a machine's log
  ^   \------ DetectProofs ------^     \
Query, Webhook, Detect <--- Service --- ServiceProofs      the notice before a shutdown
Config, InstallGate <--- Registration --- RegistrationProofs   install, and the runs it registers
InstallGate <--- Services --- ServicesProofs               install-service and uninstall-service
Webhook <--- Notify
```

- **Webhook**: what both senders make of an answer: `Success`, `Permanent`, and `Seen`, which stands
  for `CheckRedirect`: what status the client is left with.
- **NotifyBudget**: the constants of a call and `WorstCaseDuration` (`discord.go:340-370`).
- **SendCall**: the abstract call: it returns once, within the budget, and says "ok" only if the
  message has been delivered; a message may be delivered all the same when it says it was not.
- **Notify**: the loop of `SendWithRetry` with `Send` and all that `Send` makes of an answer.
  `pc`, `i`, `last` and `elapsed` are the loop's own state; `validURL`, `taken` and `lost` the
  world's.  `SendInvalid`, `SendTransportError` and `SendAnswered` are the three ways one call of
  `Send` ends, each followed by the loop's decision `AfterSend`; `Sleep` is the wait, stretched by
  `RetryAfter` and `Clamp`.
- **OncePerBoot**: the abstract promise: each boot is reported only after it has happened, at most
  once, and never after a later one has been reported, save for the boots in `excused`, a set that
  only grows.  What may put a boot there is the detailed module's business: `Excuse` in
  `BootNotify` marks one whose answer was lost, whose delivery was not recorded (a failed save, a
  kill, a crash, a lost write), that was sent under `-force`, or over which two runs overlapped.
- **BootNotify**: several boots, several runs, the state file and its temporary file.  A run goes
  through `collect` (`Begin` .. `Decide`), `send`, and the three steps of `state.Save`
  (`OpenTmp`, `WriteTmp`, `Rename`), so any other run, a kill or a reboot can come between.
  `Latest` is the boot `collect` can return: the newest whose marker the log *shows*.  The constant
  `Faults` says what the environment may do; each run and theorem names its faults.  `posted`,
  `skipped` and `log` are what the channel, `notify_on` and `service.log` have seen; `older` holds the
  contents of earlier `state.json` files that a power loss may bring back until the file system has
  written the rename (`Flush`), since `Save` flushes nothing (`state.go:44-48`); `excused` is a
  history variable that no action reads; the refinement and the proofs do.
- **BootRun**: one run with its clock, its `-dry-run` and `-force` flags, the exits in the order of
  `cmdRun`'s early returns, the log word and the exit.  The send is a call of `SendCall`.
- **Detect**: `Latest` and `PendingShutdown` as operators over a sequence of records ordered as the
  log wrote them, one operator per closure or helper of the code (`InCycle`, `NearBoot`, ...).
  A record carries its stamp separately from its place.  The texts of a request (process, user,
  localised type) are the class the code's substring tests put them in; `ParseHex` keeps the
  flags a readable code has and gives none for an unreadable one.
- **Sessions**: the environment of `Detect`: a machine that boots, is asked to restart or power
  off, stops cleanly or fails, and a System log that is written as Windows writes it: the 12
  stamped with the start, the 6005 and 6008 with the time they are written, either marker first,
  the 41 with a code only after a bug check.  `started` is the kernel's stamp, `began` the same moment
  by the clock as it is set now, so that a step back does not cut a session short.  All of it is external to the
  repository and is modelled from the comments and tests of `internal/detect` that describe it.
- **Query**: `winevent.Query` over a log of `entries` numbered from the newest, some of them
  `damaged`.  `Open`, `NextBatch` (which may hand out fewer handles than it was asked for), `Render`
  per handle, `NoMore` and `CallFails` are its calls; `cut` remembers that one of them failed.
- **Service**: Execute's loop over control requests (`Take`), and `sendShutdownNotice` from the
  configuration through the gate, the query (steps of `Query` between the service's own), the
  classification (`Detect` on exactly the entries the query has read) and the two attempts, each
  with its time.  `caller = "console"` is the `shutdown-notice` command, which enters at `Load`.
  `elapsed` counts from StopPending; `taken` and `lost` are the server's side.
- **Config**: `ResolvePath` (the stats) and `Load` (the read and what follows), separate because the
  disk can change in between.  A file's kind says what a stat and a read of it answer, for the
  operator and for SYSTEM; a relative path leads each of them elsewhere.
- **InstallGate**: `checkInstallConfig` and `installGate` as operators on the observed facts.
- **Registration**: the operator's `install`, `uninstall`, `status` and `test` and SYSTEM's runs,
  one process at a time, each load in two steps, and an `Edit` of a file at any moment.  `fresh` and
  `intact` are history variables: whether a file has changed since the load began, or since install.
  `ToldToUse` is the file the process was told to use, by `-config` or by a variable it finds.
- **Services**: `install-service` and `uninstall-service` step by step against a service control
  manager in which a deleted registration stays marked until its process is gone and nobody holds a
  handle, services that never stop, and calls that fail.  A registration's `image` says whose
  executable it really runs, `line` which of the two texts that `serviceUsesBinary` looks for its command
  line holds, and `guarded` that it cannot be opened.  The two are independent: `IsOwn` sees the texts,
  `Ours` in the properties is the truth.  `Left` says what can be registered under each name when the
  command starts, registrations that an earlier command has marked for deletion included.
- **MC...** modules only define values for constants.

## 3. The runs

All constants with a name starting with `Max` are bounds of the instance.

| Run | Instance | Shows |
|---|---|---|
| `Notify` | 12 attempts, 15 s wait, 20 s timeout and ceiling, as `main.go:125-126` has them; an exchange takes 0 or 20 s; one status of each class (2xx, 3xx, 4xx, 429, 5xx); delays absent, NaN, negative, above the wait, above the ceiling | `WithinWorstCase`, `SuccessWasPosted`, `CopiesNeedLostAnswers`; a failure that may pass is returned only after all the waits (`OutlastsOutage`) and one that lasts costs nothing more (`LastingEndsIt`), both in terms of what a failure is and not of the code's own `Permanent`; and that the loop implements `SendCall` (`KeepsCall`) |
| `BootNotifyFaulty` | 2 boots, 2 runs, every fault at once | `TypeOK`, `RecordedIsSettled`, `LogIsTruthful`, and the refinement of `OncePerBoot` (`KeepsPromise`) |
| `BootNotifyLive` | 2 boots, 2 runs that may overlap; excluded categories, `-force`, failing saves, crashes while recording and power loss; nothing that ends a run early or hides the marker | `QuietRunMeansSettled`: a task run that did not fail means this boot was reported; `RecordMovesForward`: only a reboot takes the record back to an earlier boot; `OnlyThisBootIsTold`: no later boot makes up for a message or a record that was lost; `EveryBootReported` |
| `Sessions` | 3 sessions of at least 3.5 minutes, no clock step; a planned power-off by SYSTEM, a servicing restart, a planned restart by a person; stops that take half a minute; either or both stop records | `ReasonIsRight`, `DowntimeIsTrue`, `NoFalseAlarm`, and that a failure that is read is of this very boot (`FailureIsOfThisBoot`) |
| `SessionsClock` | 2 sessions of any length, clock steps of 10 minutes both ways at any moment; a stop takes half a minute or six, the machine stays off for half a minute or twelve | `PendingIsCurrent`, `PendingIsFound`; the boot that is classified is the running one and the boot just before it bounds its cycle, even when their stamps are the wrong way round (`CycleIsLast`), unless the running boot's own 6005 stands below its 12 in the log and is stamped before it |
| `BootRun` | 6 queries 5 s apart, the call above, 600 s; a query takes 0 or 19 s | `InsideTimeLimit`, `CleanExitIsRecorded`, `SentMeansAllOfIt`, and `DeliveredIsTold`: what has reached the channel, answered or not, is on record or told as a failure by one line and the exit code |
| `Service` | a limit of 3 in batches of 2 over logs of up to 5 entries, any of them damaged; the query may fail at any call; reading takes 0 or 7.5 s, an exchange 0 or 8 s; every control request at any moment | `EmptyIsTrue`, `InsideWaitHint`, `NoticeIsAccounted` (sent, declined or failed: what is said agrees with the gate, the configuration and the channel), `OneNotice`, `NamedIsTrue`, and `ShutdownIsNotHeldUp`: a shutdown signal ends with the service stopped |
| `Registration` | every kind of file in one of four places, a variable of the user's and of the machine's or neither, with and without `-config`, one edit at any moment | `VerdictIsSystems`: the gate's verdict is what SYSTEM will find; `NothingPassedOver`: a load uses the file named by flag or by variable, else the first that is there, edits during the load included |
| `Services` | the canonical name, one of an older version and one that only begins alike, each with what `MCLeft` lists: running, stopped, marked by an earlier command, held, guarded, of another program, with either text, both or none in its command line; two looks at a stopping service, two tries for a marked name | `OnlyClaimedTouched`, `InstalledIsAlone`, `UninstallIsComplete`, `CommandEnds` |

Each property of these runs is also shown to be able to fail: `PROJECT.json` lists for each a
mutant, a one-line change of a definition of the kind a bug would be, under which the run finds it
violated.  The mutants are the definitions whose comment begins with "Mutant".

Three runs state what a document or comment of the repository says and find a behaviour of the code
that does otherwise:

| Run | Stated in | Behaviour |
|---|---|---|
| `BootNotifyLateMarker` | `README.md:541`, `state.go:1-2`, `main.go:134-135` | This boot's marker is not in the log yet; `collect` stops at the previous boot's, which is on record, and the run logs `skipped-already-notified` though nothing was sent about this boot (`SkipMeansReported`). |
| `ServicesLookalike` | `service_windows.go:293-296`, `318-319` | Another program's service whose command line holds both texts is stopped and deleted (`ForeignUntouched`). |
| `InstallNote` | `main.go:532-533`, `main.go:536-537` | `RESTART_MESSAGE_CONFIG` is set for the whole machine; on a pass the note names, as a fact, the file the gate has read, and the registration reads the variable's (`NoteIsTrue`). |

Two more passages say what the code does not do, and the passing properties say what it does:

- `README.md:539`, `main.go:226-227` and `main.go:244` promise that after `sent-state-write-failed` the
  next boot notifies again.  The next boot's run finds its own marker and is about its own boot
  (`OnlyThisBootIsTold`); only another run in the same boot can repeat the message.
- `detect.go:151-153` says that a boot's own 6005 is stamped at or after the start that its 12 carries.
  When the clock is stepped back between the two, it is not; and if the log commits it first, it is
  taken for the previous boot and bounds the cycle.  `CycleIsLast` excepts that case by name
  (`OwnMarkerIsEarly`), and without the exception `SessionsClock` finds it violated.

### Bounds, and why they are enough

- *Notify* runs the real numbers.  Data is cut to classes: the code compares a status only with
  the ends of 2xx, 3xx, 4xx and with 429, and a delay only with 0, the wait and the ceiling.
- *BootNotify*: a duplicate, a stale state, a lost record and one that a power loss brings back each
  need two boots or two runs.  `MaxCopies = 2` lets every second message happen (3 in the liveness
  run, so that no send can be blocked by the bound); `MaxStarts` limits the runs by hand in a boot: one,
  besides the task's own, is enough for every overlap and every repetition of two.
- *Sessions*: half-minute units.  A classification looks at this boot, the previous one, and what
  could be mistaken for either, hence three sessions.  Lags of the log service are 0 and one
  minute, so a marker can be stamped with the kernel's time or after it.  `MinSession` is the
  shortest session: with 3.5 minutes the slack of `nearBoot` cannot reach the previous boot's
  records (the condition is `Separate`, and half a minute less makes it false: `MCSessions` has TLC evaluate
  it).  The 6008 of a shorter session can be nearer to the next boot than to its own, and is then
  counted there (`detect.go:192-197` has the rule that decides).
- *SessionsClock*: the sum of a session, a step back of 10 minutes and a downtime of 12 can fall on
  either side of zero, so a boot is stamped before or after the boot that preceded it.
- *Service*: the limit and the batch are 3 and 2 for the code's 50 and 16: a log of five entries is
  longer than the limit, needs two batches, and the second asks for less than a full one.  The logs
  have the request on top, below others, beyond the limit, of an earlier session, too old, and none;
  every subset of the entries is damaged in turn.  7.5 s for reading is what the WaitHint leaves:
  `InsideWaitHint` says so through `WorstNotice`.
- *Registration*: one edit separates a stat from its read, an install from its run, or two looks of
  one install; what two edits add, one process at a time cannot tell from another start.
- *Services*: `MaxPolls` stands for the ten seconds and `MaxTries` for the twenty-one calls of
  `CreateService`.  Three names are one of each kind that `findOwnServices` tells apart.  Of what can be registered,
  each name has the cases that matter to it; what is left out differs from one of them only in a state
  that `Stops`, `Hold` and `Vanish` reach anyway.
- *BootRun*: 19 s is the longest time six queries may take each (6 * 19 + 25 + 460 + 1 = 600); with
  20 s the limit can be passed, and `InsideTimeLimit` says so through `WorstRun`.

### Fairness

`BootNotify` has weak fairness of `Commit` (the Event Log service writes what it
was given), of `Trigger` (Task Scheduler fires the boot trigger; `StartWhenAvailable`), and of each
run's `Step` (a started process is scheduled; `SendWithRetry` and `collect` are bounded loops, as
`Notify` and `BootRun` show).  There is none on `Reboot`, `StartByHand` or `Kill`: the
property says that a boot is reported *or* the machine goes down first.  `EveryBootReported` is
checked only where no send, query or configuration fails, as otherwise the code rightly gives up.

`Service` has weak fairness of `Step`, the process's own steps: it is scheduled, and its calls
return, with an error or without.  Nobody has to send a control request, and the property speaks of
one that was sent.  `Services` has weak fairness of `Command`: the command's steps.  No service has to
stop, no handle has to be closed, and no state query has to fail, so `CommandEnds` rests on the
command's deadline and on its count of tries alone.  The other specifications state none; nothing
that is checked of them is about progress.

### Deadlock

Deadlock is checked in every run but `Services` and `ServicesLookalike`, whose command is over at `"end"` and whose world may
then have nothing left to do.  A machine at its last boot, a call that has returned and a run
that has exited stutter through actions of their own (`Rest`, `Over`, `Done`), so that any other
state without a successor would be reported.

## 4. The proofs

Eight modules hold theorems; all hold for every value of the constants that the named assumptions
allow.  `BudgetAssumption`, `EnvironmentAssumption`, `BoundAssumption`, `SetupAssumption`,
`RunAssumption`, `TimeAssumption`, `QueryAssumption` and `NoticeAssumption` say that numbers are
numbers, that the task is one of the runs, and that an exchange or a read lasts no longer than its
longest.  `RequestAssumption`: no request is `NoRequest`, and its real kind is a category.
`LogAssumption`: a log is a sequence.  `PathAssumption`: a path that somebody gives is neither of the
places that are searched (a file named *and* searched for would be used for the first reason, and
passed over nothing).  `NamesAssumption`: the canonical name has the prefix, as `service_windows.go:25`
has it, lookalikes have not, and `Left` gives every name a set of registrations.

**NotifyProofs.** The invariant `IInv` adds to the types how much time can have passed at each
control point, in full rounds of one exchange and one wait (`BudgetInv`; the bound itself is not
inductive, since it says nothing about where the loop is), and that while the loop runs every
taken post is a lost one and no hopeless error is pending (`DeliveryInv`); and that every attempt but
the first was waited for (`WaitedInv`).  From it: `RetryBudget`, `SuccessIsDelivery`, `CopiesBounded`,
`TransientIsSatOut`, `LastingIsFinal`, and `CallRefinement`: with at least one attempt `Notify` implements `SendCall`.  (With none,
`SendWithRetry` returns nil though nothing was sent; no caller passes 0.)

**BootNotifyProofs.** `IInv` has the types, what each run holds in each phase, and
- `SettledInv`: every boot that anything names (file, temporary file, what a power loss may bring back, a run's copy
  of the state) is settled, which is what makes `RecordedIsSettled` inductive;
- `LogInv` for the log;
- `NothingAhead`, `AloneInv`, `SameBootInv`: nothing names a boot the log does not show; a run that
  has not met another one still has the files to itself and a fresh copy of the state; two runs
  with the same boot have met;
- `OnceInv`: an unexcused boot is posted by the first run that sends it, and is then recorded or
  about to be recorded.

`NothingSilenced`, `HonestLog` and `DuplicatesExplained` follow, under *every* set of faults.  So
does `Refinement`: `BootNotify` implements `OncePerBoot`, whatever fails.  It needs one more
invariant, `StaleInv`: a run overtaken by a marker that was committed late knows of an older boot,
and whatever is newer than that boot is then about the current one.  A message about an older boot
after a newer one therefore takes two runs at once, which is an excuse for the current boot.
`PostIsReport` draws that conclusion, `StepSimulation` lifts it to every step.

`OncePerBootHolds` (`AtMostOnce`, which no run checks by itself) says when no excuse is needed: with only the faults in `Harmless` (late markers,
failing queries, configurations and sends, excluded categories) nothing ever enters `excused`, and
a boot is reported at most once, for any number of boots and of runs.

Three results need a hypothesis about the environment:
- `QuietMeansReported` (no marker is late): `Current` says that what a run has found, and what its log
  line is about, is the boot the machine is in.  That hypothesis cannot go: `BootNotifyLateMarker`
  is the counterexample.
- `OnlyItsOwnRunsTell` (no marker is late) follows from `Current` too: whatever is posted is about it.
- `RecordNeverGoesBack` (markers are in time, or runs do not overlap): a power loss may bring any older
  file back, and nothing but a reboot may.  With markers in time every run is about the current boot, and
  `Fresh` says that what the one temporary file holds once a run has truncated it is of this boot, so it
  does not matter whose bytes a run renames.  Without overlap `Solo` says that the boot a run is about to
  record is not older than the record, though it read that record long before.  With both, a run that
  found the previous boot may rename after one that found this boot.

**BootRunProofs.** `TimeInv` bounds the clock in each phase (while polling, by the number of polls
done), `RecordInv` ties what the run knows, says and returns to the file.  `NeverCutOff`: if
`WorstRun`, which is the sum of the constants, does not exceed the limit, the run ends in time,
against any log and any call that keeps `SendCall`; by `CallRefinement`, `Notify` is one.
`CleanMeansRecorded`, `SentIsTruthful` and `DeliveryIsTold`: exit, log line and file agree, the last
for every message that reached the channel, those included whose every answer was lost.  The types of
a run are part of the invariant (`TypeCorrect`); no run of TLC checks them apart.

**DetectProofs.** `PendingIsTop`: for every list of records `PendingShutdown` returns the one request
that no request and no boot marker precedes, if its stamp is plausible, and nothing otherwise.  It
rests on `MinIsLeast`, which gets the least element of a set of numbers from the well-foundedness of
`<`.  `AnchorIs`, `PreviousIs` and one lemma for each record `Latest` looks for (`RequestIs`, `CrashIs`,
`UnexpectedIs`, `CleanStopIs`) say what each search returns: a record that passes its test, and nothing
only when no record does.

**SessionsProofs**, for any number of sessions, has two halves.

*Whatever the clock does.*  Nothing about the stamps is invariant, so the argument goes by the order of
the log alone.  `IInv` is `Ordered` (the log is written session by session), `Single` (a session has one
request, above its markers, and the request comes when nothing is owed) and `Marked` (a session that no
longer owes a marker has written it).  `PendingNamesCurrent`: the marker of this session is below the
request that is found, so the request is of this session or a later one, and there is no later one.
`PendingIsAnnounced`: whatever is above a request of this session is of this session too, and neither
a request nor a marker.  `History` adds what each session leaves: one 12 (`StartUp`, `OneStart`), the
signs of a failure only after one (`Signs`), its request, its clean end, and how these tell the cause of
the session after it (`Caused`).  `CycleIsBounded` follows: the newest 12 is the running session's, a 12
of the session before is below it, and whatever marker comes between is of one of the two.  When it is the
running session's own it is its 6005 (`OneStart`), which is passed over unless it is stamped before the 12:
`OwnMarkerIsEarly`, the exception that `CycleIsLast` makes.

*When nothing steps the clock* (`Steps = {}`).  `Stamped(start)` relates every stamp to the times the
sessions started: sessions are `Spaced` at least `MinSession` apart, every record is `Placed` between the
start of its session and that of the next, the start-up records within the `Delays` of the log service,
and a session's markers are stamped before its request and its end (`Preceded`).  The start times are the
value of a bound variable: `Steady` says that some exist, and each step either keeps them or, at a boot,
adds one.  From it `Bounds` (the boot found starts when the session did, the previous one is the session
before, and the companion marker is passed over), `CycleIs` (a request or clean end is in the cycle if
and only if it is of the last session) and `NearIs` (a 6008 or a coded 41 near the boot is of this
boot).  Then:

| Theorem | Property | Besides a steady clock |
|---|---|---|
| `DowntimeHolds` | `DowntimeIsTrue` | nothing: sessions of any length |
| `FailureIsOwn` | `FailureIsOfThisBoot` | `Separate`: a session is long enough for its own 6008 to be nearer to its own start than to the next, or out of reach of the slack |
| `NoFailureInvented` | `NoFalseAlarm` | `Separate` |
| `CategoryIsCause` | `ReasonIsRight` | `Separate`; `Punctual`: the 6008 is written within `markerAfterBootWindow`; `Honest`: a request's real kind is what `RequestCategory` makes of it |

`Separate` is what the comment at `detect.go:192-201` assumes of two boots; with sessions of three
minutes instead of three and a half TLC finds `NoFalseAlarm` violated.  `Honest` leaves the texts of a
request out of the theorem: the run checks it on three, one of each kind.  The instance `Sessions` meets
all four hypotheses: it has no clock step, TLC evaluates `Separate` and `Punctual` (`SteadyAssumption` in
`MCSessions`), and its requests are `Honest`, or `ReasonIsRight` would not hold of the run.

**ServiceProofs.** `QueryInv` says where the loop of `Query` is: never more handles than records
wanted, and what was read is exactly the undamaged part of what was rendered.  From it `QueryIsNewest`
and `EmptyIsHonest`.  The notice's invariant adds how late it can be at each step, what has been
posted, and that `named` is what `PendingShutdown` said of the records read.  `NamesTheRequest` then
compares two lists: the request on top of the records read is on top of the whole log, because
positions are kept and what is missing above it is damaged and is neither request nor marker; and
when none is found though the log has one, fewer entries were read than it takes.
`NoticeIsBounded` counts the steps that are left: the stage, in it the calls the query can still make
(two for an entry not yet rendered, because a batch that is handed out has one to render: `Loop`), and
the attempts with the pause between them.  Every step of the service lessens that, the answer to a
request that is no shutdown apart; nobody else's step changes it; and a shutdown signal that waits is
taken by `Shutdown` and by nothing else.

**RegistrationProofs.** The invariant says that a load no edit disturbs is `Whole`, a function of the
files as they are.  `SameForBoth`: without private files, with a path that is not relative and without
variables, that function is the same for the operator and for SYSTEM; `VerdictHolds` follows.
`KeepsTo` holds under edits too: a process keeps to the file it was told to use, or to what its search
has found.  `NothingPassed` is about the search, `UsedDecides` about the read; `LoadEnds` puts them
together for a load that edits may disturb, and gives `NoneIsPassedOver`.

**ServicesProofs.** `ListIsClaimed`: what is on the list is claimed by a name or a command line, and
what is being removed has been opened as well.  `Cleared`: whatever else of ours is live is on the list,
being removed, among the failed, or was not to be told (`Hidden`), from the enumeration on.
`TouchesOnlyClaimed`, `InstallReplaces` and `UninstallRemovesAll` follow, for any number of names.  `CommandIsBounded`: every step of a command lessens the stage, the list or the polls and
tries that are left, however many services hang in their stop and whoever holds a handle.

*Only model-checked*: liveness (`EveryBootReported`, `ShutdownIsNotHeldUp`, `CommandEnds`), which is
out of the prover's reach.  Of the last two `NoticeIsBounded` and `CommandIsBounded` prove the part that is
safety, that there is no way to go on for ever, for finitely many names and any finite log; that the next
step is always enabled until the end, and what fairness adds, is left to TLC.  Every other property of the passing runs is stated by a theorem.  For some it
needs a hypothesis that the run's instance meets and that is named above: `QuietRunMeansSettled`,
`RecordMovesForward` and `OnlyThisBootIsTold` on the faults, the properties of `Latest` on the clock and on the
length of a session, `InsideTimeLimit` and `InsideWaitHint` on the sum of the constants.

## 5. What is not modelled

- Token redaction, rendering of messages and log lines, the fields of a record, decoding of the
  console's text, encoding of the task's XML: no state and no decision that the modelled parts depend
  on.  Settings that only shape a message, and the build and installation scripts, for the same reason.
- In `BootNotify` the retry loop is the actions `Send`, `SendLost` and `SendFailed`: that this is
  what a call does is what `Notify` shows.
- In `Registration` a run ends with its load; what it does with the configuration is `BootRun`'s.  One
  process at a time: a run that overlaps an install reads a registration or does not.
- In `Services`, somebody else who creates or deletes a registration while the command runs, and a crash
  of the command between two steps.  It leaves what a failed call at that step
  leaves, an error with some registrations gone, and nothing is claimed of that.
- A 2xx from somebody else than the webhook (a proxy's block page) is taken for the webhook's, as
  the code does.
- What `Latest` reads under a stepped clock.  That it compares the right two boots is checked and proved
  (`CycleIsLast`), a step between the running boot's own two markers excepted, but `inCycle` and `nearBoot` compare stamps, and `detect.go:138-140` concedes that a step
  between the two can mislead them; `Sessions` checks category and downtime with a steady clock.
- What `Latest` makes of a result that `Query` cut short: `Query` is composed with the notice only.  Nor
  does anything bound the time of a query, in the model or in the code: `InsideTimeLimit` and
  `InsideWaitHint` are for queries no longer than the 19 s and 7.5 s that the rest leaves them.
- Two boots with the same record id and start time, which `AlreadyNotified` could not tell apart.

## 6. The plan

The order in which the parts were built: the retry loop and its budget; the notifier over boots and
runs with its abstract promise; proofs of both; classification against a machine; one timed run and
its proof; the query and the notice before a shutdown; configuration, gate and registration; the
service's installation; proofs of these; `Latest` for any number of sessions, and the bounds on what the notice and the commands still have to do.  What would
come next:

1. `SuccessWasPosted` carried into `BootRun` through `SendCall`, as one theorem about both.
2. What a single step of the clock within a session can do to `Category`, and within which bound it can do
   nothing.
