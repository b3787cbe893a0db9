------------------------------ MODULE Sessions ------------------------------
(***************************************************************************)
(* A machine that boots, is asked to restart, stops or fails, and what its *)
(* System log shows: the records internal/detect reads, written when       *)
(* Windows writes them, in every order it may write them.  Detect is run   *)
(* on that log and compared with what really happened.                     *)
(*                                                                         *)
(* A starting session owes the log the records of its start-up.  The       *)
(* kernel's 12 carries the start time, the Event Log service's 6005 and    *)
(* 6008 the time they are written, and the 6005 may be committed before    *)
(* the 12.                                                                 *)
(***************************************************************************)
EXTENDS Detect

CONSTANTS
  MaxBoots,     \* bound: how many sessions there are
  Downtimes,    \* how long the machine can stay off
  Uptimes,      \* how long a session goes on before something happens
  Closings,     \* how long a requested stop can take
  Lags,         \* how long the Event Log service takes to write a record
  MinSession,   \* bound: how long every session lasts at least
  Steps,        \* the clock steps there can be (none when empty)
  MaxClock,     \* bound: where a step can take the clock
  Requests,     \* the shutdown requests there can be, each with its real kind
  StopRecords,  \* which of 13 and 6006 a clean stop leaves behind, newest first
  Recent        \* how old the request of a shutdown under way can be

ASSUME TimeAssumption ==
  /\ MaxBoots \in Nat \ {0} /\ MinSession \in Nat /\ MaxClock \in Nat /\ Recent \in Nat
  /\ Downtimes \subseteq Nat \ {0} /\ Lags \subseteq Nat
  /\ Uptimes \subseteq Nat \ {0} /\ Closings \subseteq Nat \ {0}
  /\ StopRecords \subseteq {<<13, 6006>>, <<13>>, <<6006>>}
  /\ Steps \subseteq Int
  /\ BeforeBoot \in Nat /\ AfterBoot \in Nat

VARIABLES
  clock,      \* the wall clock
  up,         \* whether a session is running
  session,    \* its number, or that of the last one
  started,    \* its start time, as the kernel records it
  began,      \* the same moment by the clock as it is set now
  owed,       \* the start-up records it has not written yet
  request,    \* the newest request of the session, NoRequest before any
  stopped,    \* when the last session wrote its clean end, 0 when it failed
  failed,     \* how the last session failed: "no", "power", "crash"
  cause,      \* history: what each session's boot was caused by
  log         \* the System log, newest record first, each with its session

vars ==
  <<clock, up, session, started, began, owed, request, stopped, failed, cause, log>>

NoRequest == [type |-> "none"]

ASSUME RequestAssumption ==
  NoRequest \notin Requests /\ \A r \in Requests : r.kind \in Categories

Sessions == 1 .. MaxBoots
Failures == {"crash", "unexpected"}

Record(event, at, data) ==
  [event |-> event, own |-> TRUE, at |-> at, data |-> data, of |-> session]

Code(flags) == [readable |-> TRUE, flags |-> flags]

Init ==
  /\ clock = 1 /\ up = FALSE /\ session = 0 /\ started = 0 /\ began = 0
  /\ owed = {} /\ request = NoRequest /\ stopped = 0 /\ failed = "no"
  /\ cause = [s \in Sessions |-> "unknown"]
  /\ log = <<>>

\* What the next boot will have been caused by.
Ended ==
  IF failed = "crash" THEN "crash"
  ELSE IF failed = "power" THEN "unexpected"
  ELSE IF request # NoRequest THEN request.kind
  ELSE IF session > 0 THEN "shutdown" ELSE "unknown"

\* Every session owes its two markers and a Kernel-Power 41; one that follows a
\* failure also owes the 6008.
Boot(d) ==
  /\ ~up
  /\ up' = TRUE /\ session' = session + 1
  /\ clock' = clock + d /\ started' = clock + d /\ began' = clock + d
  /\ owed' = {12, 6005, 41} \cup (IF failed = "no" THEN {} ELSE {6008})
  /\ cause' = [cause EXCEPT ![session + 1] = Ended]
  /\ request' = NoRequest
  /\ UNCHANGED <<stopped, failed, log>>

\* The kernel's records are committed: the 12, then the 41, both stamped with the
\* start.  Only after a bug check does the 41 carry a code.
WriteKernel(event) ==
  /\ up /\ event \in owed \cap {12, 41}
  /\ event = 41 => 12 \notin owed
  /\ owed' = owed \ {event}
  /\ LET code == Code(IF failed = "crash" THEN {"bugcheck"} ELSE {})
     IN  log' = <<Record(event, started, code)>> \o log
  /\ UNCHANGED <<clock, up, session, started, began, request, stopped, failed, cause>>

\* The Event Log service comes up: the 6005, then the 6008, stamped as they are
\* written.
WriteService(event, d) ==
  /\ up /\ event \in owed \cap {6005, 6008}
  /\ event = 6008 => 6005 \notin owed
  /\ clock' = clock + d
  /\ owed' = owed \ {event}
  /\ log' = <<Record(event, clock + d, Code({}))>> \o log
  /\ UNCHANGED <<up, session, started, began, request, stopped, failed, cause>>

\* How late it is when the session has gone on for d, and long enough to have
\* something happen to it; a requested stop has its own pace.
Later(d) == Max({clock + d, began + MinSession})

Goes(d) ==
  /\ up /\ owed = {}
  /\ d \in IF request = NoRequest THEN Uptimes ELSE Closings
  /\ clock' = Later(d)

\* Something asks Windows to restart or to power off: User32 writes a 1074.
Ask(r, d) ==
  /\ request = NoRequest
  /\ Goes(d)
  /\ request' = r
  /\ log' = <<Record(1074, Later(d), r)>> \o log
  /\ UNCHANGED <<up, session, started, began, owed, stopped, failed, cause>>

\* A clean stop: the Event Log service's 6006, then the kernel's 13, or one alone.
Stop(events, d) ==
  /\ session < MaxBoots
  /\ Goes(d)
  /\ up' = FALSE /\ failed' = "no" /\ stopped' = Later(d)
  /\ log' = [k \in DOMAIN events |-> Record(events[k], Later(d), Code({}))] \o log
  /\ UNCHANGED <<session, started, began, owed, request, cause>>

\* Power is lost, or Windows stops with a bug check: nothing is written.
Fail(how, d) ==
  /\ session < MaxBoots
  /\ Goes(d)
  /\ up' = FALSE /\ failed' = how /\ stopped' = 0
  /\ UNCHANGED <<session, started, began, owed, request, cause, log>>

\* The time service steps the clock, at any moment of a session.
StepClock(s) ==
  /\ up /\ clock + s \in 1 .. MaxClock
  /\ clock' = clock + s /\ began' = began + s
  /\ UNCHANGED <<up, session, started, owed, request, stopped, failed, cause, log>>

\* The last session just goes on.
Over == session = MaxBoots /\ owed = {} /\ UNCHANGED vars

Next ==
  \/ \E d \in Downtimes : Boot(d)
  \/ \E event \in {12, 41} : WriteKernel(event)
  \/ \E event \in {6005, 6008}, d \in Lags : WriteService(event, d)
  \/ \E d \in Uptimes \cup Closings :
       \/ \E r \in Requests : Ask(r, d)
       \/ \E events \in StopRecords : Stop(events, d)
       \/ \E how \in {"power", "crash"} : Fail(how, d)
  \/ \E s \in Steps : StepClock(s)
  \/ Over

Spec == Init /\ [][Next]_vars

-----------------------------------------------------------------------------
(* What the stamps can be trusted for, when nothing steps the clock.       *)

\* How long after the start the 6008 can be stamped: the Event Log service writes two
\* records, each after its own lag.
Delays == {l + m : l \in Lags, m \in Lags}

\* The 6008 is written within the window Latest looks for it in.
Punctual == \A d \in Delays : d <= AfterBoot

\* A session lasts long enough for its own 6008 to be nearer to its own start than to the
\* next, or out of reach of the slack before the next.
Separate == \A d \in Delays : d + d <= MinSession + 1 \/ d + BeforeBoot <= MinSession

\* A request says truly what it is for.
Honest == \A r \in Requests : r.kind = RequestCategory(r)

-----------------------------------------------------------------------------
\* The session's start-up is on the record.
SettledIn == up /\ owed = {}

TypeOK ==
  /\ clock \in Nat /\ started \in Nat /\ began \in Int /\ stopped \in Nat
  /\ up \in BOOLEAN
  /\ session \in 0 .. MaxBoots
  /\ owed \subseteq {12, 6005, 6008, 41}
  /\ request \in Requests \cup {NoRequest}
  /\ failed \in {"no", "power", "crash"}
  /\ cause \in [Sessions -> Categories]
  /\ Anchor(log) # 0 => Category(log) \in Categories
  /\ \A k \in DOMAIN log : log[k].of \in 1 .. session

\* Once its records are written, the boot gets the category of what caused it.
ReasonIsRight == SettledIn => Category(log) = cause[session]

\* The downtime reported is the time the machine was off, and none is reported
\* after a failure.
DowntimeIsTrue ==
  SettledIn => Downtime(log) = IF stopped = 0 THEN 0 ELSE started - stopped

\* A run that reads this boot's records too early can miss a failure but never
\* invents one.
NoFalseAlarm ==
  (up /\ Anchor(log) # 0 /\ log[Anchor(log)].of = session /\ Category(log) \in Failures)
    => cause[session] \in Failures

\* detect.go:192-198 -- the slack before a boot does not reach into the previous
\* session: the sign of a failure that is read is of this very boot.  It takes
\* sessions that last a few minutes: the 6008 of a shorter one can be nearer to the
\* next boot than to its own.
FailureIsOfThisBoot ==
  SettledIn =>
    \A k \in {Crash(log), Unexpected(log)} \ {0} : log[k].of = session

\* The clock was stepped back between the session's start and its 6005, which the log
\* nevertheless shows below the 12: the marker's stamp is before the boot it is of.
OwnMarkerIsEarly ==
  \E k \in DOMAIN log :
    /\ k > Anchor(log) /\ log[k].event = 6005 /\ log[k].of = session
    /\ log[k].at < BootTime(log)

\* detect.go:131-157 -- the boot that is reported is the one that is running, and the
\* session before it is bounded by the boot just before it: by the order of the log,
\* whatever the clock was stepped to between the two, and past this boot's own second
\* marker, unless that one is stamped before its own boot.
CycleIsLast ==
  SettledIn =>
    /\ Anchor(log) # 0 /\ log[Anchor(log)].of = session
    /\ session > 1 /\ ~OwnMarkerIsEarly =>
         PreviousBoot(log) # 0 /\ log[PreviousBoot(log)].of = session - 1

\* The shutdown notice names a request of this very session, whatever the clock
\* does, once one of the session's markers is in the log.
PendingIsCurrent ==
  (up /\ {12, 6005} \ owed # {} /\ PendingShutdown(log, clock, Recent) # 0)
    => log[PendingShutdown(log, clock, Recent)].of = session

\* A request under way whose stamp is plausible is announced as what it is: the
\* order of the log, not the stamps, says which session it belongs to.
PendingIsFound ==
  \A k \in DOMAIN log :
    (up /\ log[k].event = 1074 /\ log[k].of = session
       /\ clock - log[k].at \in -BeforeBoot .. Recent)
      => PendingShutdown(log, clock, Recent) = k
=============================================================================
