--------------------------- MODULE BootRunProofs ----------------------------
(***************************************************************************)
(* For every choice of the constants: a run that was given the time its    *)
(* constants ask for is never cut off, and what it exits with and logs     *)
(* agrees with what it delivered and recorded.                             *)
(***************************************************************************)
EXTENDS BootRun, TLAPS

\* One query and the sleep after it, and the whole of collect.
Poll == SlowestQuery + CollectWait
CollectBound == CollectAttempts * SlowestQuery + (CollectAttempts - 1) * CollectWait
SendBound == WorstCaseDuration(Attempts, Wait)

\* How late it can be in each phase.
TimeInv ==
  /\ phase = "load" => clock = 0 /\ attempt = 0
  /\ phase = "query" => clock <= attempt * Poll
  /\ phase \in {"decide", "send"} => clock <= CollectBound
  /\ phase \in {"failed", "save"} => clock <= CollectBound + SendBound
  /\ phase = "done" => clock <= CollectBound + SendBound + SaveTime

\* What the run knows is true, and what it says it did was done.
RecordInv ==
  /\ known => onDisk
  /\ phase \in {"load", "query", "decide"} => ~returned /\ ~ok /\ spent = 0
  /\ phase = "send" => ~returned /\ ~ok /\ spent = 0
  /\ ok => delivered
  /\ phase \in {"load", "query", "decide"} => ~delivered
  /\ phase = "save" /\ delivered => ok
  /\ phase \in {"send", "failed", "save"} => ~dryRun
  /\ phase = "failed" => ~ok
  /\ phase # "done" => exit = "running" /\ outcome = "none" /\ lines = 0
  /\ CleanExitIsRecorded /\ SentMeansAllOfIt /\ DeliveredIsTold

IInv == TypeOK /\ TimeInv /\ RecordInv

-----------------------------------------------------------------------------
(* The arithmetic.                                                         *)

LEMMA Bounds ==
  /\ Poll \in Nat /\ CollectBound \in Nat /\ SendBound \in Nat
  /\ CollectBound = (CollectAttempts - 1) * Poll + SlowestQuery
  /\ WorstRun = CollectBound + SendBound + SaveTime
<1>1. Poll \in Nat /\ SlowestQuery \in Nat /\ CollectWait \in Nat /\ SaveTime \in Nat
  BY RunAssumption DEF Poll
<1>2. PICK n \in Nat : CollectAttempts = n + 1
  <2>1. CollectAttempts - 1 \in Nat /\ CollectAttempts = (CollectAttempts - 1) + 1
    BY RunAssumption
  <2>2. QED
    BY <2>1
<1>3. /\ (n + 1) * SlowestQuery = n * SlowestQuery + SlowestQuery
      /\ n * (SlowestQuery + CollectWait) = n * SlowestQuery + n * CollectWait
      /\ n * SlowestQuery \in Nat /\ n * CollectWait \in Nat
  BY <1>1
<1>4. CollectBound \in Nat /\ CollectBound = (CollectAttempts - 1) * Poll + SlowestQuery
  BY <1>1, <1>2, <1>3 DEF CollectBound, Poll
<1>5. SendBound \in Nat
  <2>1. Max2(Wait, MaxRetryAfter) \in Nat
    BY BudgetAssumption DEF Max2
  <2>2. CASE Attempts <= 0
    BY <2>2 DEF SendBound, WorstCaseDuration
  <2>3. CASE Attempts > 0
    <3>1. Attempts - 1 \in Nat
      BY <2>3, BudgetAssumption
    <3>2. /\ Attempts * SendTimeout \in Nat
          /\ (Attempts - 1) * Max2(Wait, MaxRetryAfter) \in Nat
      BY <2>1, <3>1, BudgetAssumption
    <3>3. QED
      BY <2>3, <3>2, BudgetAssumption DEF SendBound, WorstCaseDuration
  <2>4. QED
    BY <2>2, <2>3, BudgetAssumption
<1>6. WorstRun = CollectBound + SendBound + SaveTime
  BY DEF WorstRun, CollectBound, SendBound
<1>7. QED
  BY <1>1, <1>4, <1>5, <1>6

\* The k-th poll starts in time for all of them to fit.
LEMMA PollsFit ==
  ASSUME NEW k \in 0 .. CollectAttempts - 1
  PROVE  /\ k * Poll \in Nat /\ (k + 1) * Poll = k * Poll + Poll
         /\ k * Poll + SlowestQuery <= CollectBound
<1>1. k \in Nat /\ CollectAttempts - 1 - k \in Nat /\ Poll \in Nat
  BY RunAssumption, Bounds
<1>2. k * Poll \in Nat /\ (k + 1) * Poll = k * Poll + Poll
  BY <1>1
<1>3. PICK m \in Nat : CollectAttempts - 1 = k + m
  <2>1. CollectAttempts - 1 = k + (CollectAttempts - 1 - k)
    BY <1>1, RunAssumption
  <2>2. QED
    BY <1>1, <2>1
<1>4. (k + m) * Poll = k * Poll + m * Poll /\ m * Poll \in Nat
  BY <1>1
<1>5. QED
  BY <1>2, <1>3, <1>4, Bounds, RunAssumption

-----------------------------------------------------------------------------
LEMMA InitInvariant == Init => IInv
<1> SUFFICES ASSUME Init PROVE IInv
  OBVIOUS
<1> USE DEF Init, Send!Init
<1>1. TypeOK
  <2>1. InputType /\ CallType
    BY DEF InputType, CallType
  <2>2. ProgressType
    <3>1. attempt \in 0 .. CollectAttempts - 1 /\ clock \in Nat
      BY RunAssumption
    <3>2. QED
      BY <3>1 DEF ProgressType
  <2>3. EndingType
    BY DEF EndingType, Outcomes
  <2>4. QED
    BY <2>1, <2>2, <2>3 DEF TypeOK
<1>2. TimeInv
  BY DEF TimeInv
<1>3. RecordInv
  BY DEF RecordInv, CleanExitIsRecorded, SentMeansAllOfIt, DeliveredIsTold
<1>4. QED
  BY <1>1, <1>2, <1>3 DEF IInv

LEMMA InputStep == InputType /\ [Next]_vars => InputType'
<1> SUFFICES ASSUME InputType, [Next]_vars PROVE InputType'
  OBVIOUS
<1>1. CASE UNCHANGED <<input, onDisk>>
  BY <1>1 DEF InputType, input
<1>2. CASE Load
  <2>1. known' \in BOOLEAN
    BY <1>2 DEF Load, InputType
  <2>2. QED
    BY <1>2, <2>1 DEF Load, InputType
<1>3. ASSUME NEW saved \in BOOLEAN, Save(saved) PROVE InputType'
  <2>1. onDisk' \in BOOLEAN
    BY <1>3 DEF Save
  <2>2. QED
    BY <1>3, <2>1 DEF Save, InputType, input
<1>4. QED
  BY <1>1, <1>2, <1>3
     DEF Next, ConfigError, Found, NotFound, Skip, Preview, Exclude, NoWebhook, Notify,
         Sending, SendFailed, Done, vars, input

LEMMA CallStep ==
  ASSUME CallType, [Next]_vars
  PROVE  /\ CallType'
         /\ UNCHANGED call \/ (Sending /\ Send!Next)
<1>1. UNCHANGED call \/ Sending
  BY DEF Next, ConfigError, Load, Found, NotFound, Skip, Preview, Exclude, NoWebhook, Notify,
         SendFailed, Save, Done, vars
<1>2. CASE UNCHANGED call
  BY <1>2 DEF CallType, call
<1>3. CASE Sending
  <2>1. Send!Next
    BY <1>3 DEF Sending
  <2>2. ASSUME Send!Arrive PROVE CallType'
    <3>1. delivered' \in BOOLEAN
      BY <2>2 DEF Send!Arrive
    <3>2. returned' = returned /\ ok' = ok /\ spent' = spent
      BY <2>2 DEF Send!Arrive
    <3>3. QED
      BY <3>1, <3>2 DEF CallType
  <2>3. ASSUME Send!Return PROVE CallType'
    <3>1. spent' \in Nat
      BY <2>3 DEF Send!Return
    <3>2. returned' \in BOOLEAN /\ ok' \in BOOLEAN
      BY <2>3 DEF Send!Return
    <3>4. delivered' \in BOOLEAN
      BY <2>3 DEF Send!Return, CallType
    <3>3. QED
      BY <3>1, <3>2, <3>4 DEF CallType
  <2>4. QED
    BY <1>3, <2>1, <2>2, <2>3 DEF Send!Next
<1>4. QED
  BY <1>1, <1>2, <1>3

\* What Send!Next says in the caller's terms.
LEMMA SendEffect ==
  ASSUME CallType, Send!Next, spent = 0
  PROVE  /\ ~returned
         /\ ~returned' => spent' = 0 /\ ok' = ok
         /\ returned' => spent' \in 0 .. SendBound /\ (ok' => delivered')
         /\ delivered => delivered'
<1>1. Send!WorstCaseDuration(Attempts, Wait) = SendBound
  BY DEF Send!WorstCaseDuration, SendBound, WorstCaseDuration, Send!Max2, Max2
<1>2. CASE Send!Arrive
  BY <1>2 DEF Send!Arrive, CallType
<1>3. CASE Send!Return
  <2>1. ~returned /\ returned' /\ spent' \in 0 .. SendBound /\ (ok' => delivered')
    BY <1>1, <1>3 DEF Send!Return
  <2>2. delivered => delivered'
    BY <1>3 DEF Send!Return
  <2>3. QED
    BY <2>1, <2>2
<1>4. QED
  BY <1>2, <1>3 DEF Send!Next

\* The clock runs for as long as the call does.
LEMMA SendClock ==
  ASSUME CallType, RecordInv, [Next]_vars, Sending
  PROVE  \E n \in Nat : spent' = n /\ clock' = clock + n
<1>1. spent = 0 /\ clock' = clock + (spent' - spent)
  BY DEF Sending, RecordInv
<1>2. PICK n \in Nat : spent' = n
  BY CallStep DEF CallType
<1>3. clock' = clock + (n - 0)
  BY <1>1, <1>2
<1>4. n - 0 = n
  OBVIOUS
<1>5. QED
  BY <1>2, <1>3, <1>4

LEMMA ProgressStep ==
  ASSUME TypeOK, RecordInv, [Next]_vars PROVE ProgressType' /\ EndingType'
<1> USE DEF TypeOK
<1>1. CASE ConfigError \/ Skip \/ NoWebhook \/ SendFailed
  <2>1. UNCHANGED <<clock, attempt, failing>> /\ phase # "done" /\ phase' = "done"
        /\ lines' = lines + 1 /\ outcome' \in Outcomes /\ exit' \in {"nil", "error"}
    BY <1>1 DEF ConfigError, Skip, NoWebhook, SendFailed, Leave, Outcomes
  <2>2. QED
    BY <2>1 DEF ProgressType, EndingType, RecordInv
<1>2. CASE Load \/ Preview \/ Exclude \/ Notify
  <2>1. UNCHANGED <<clock, attempt, failing, lines, outcome>>
        /\ phase' \in {"query", "done", "save", "send"} /\ exit' \in {exit, "nil"}
    BY <1>2 DEF Load, Preview, Exclude, Notify, ending
  <2>2. QED
    BY <2>1 DEF ProgressType, EndingType
<1>3. ASSUME NEW t \in QueryTimes, Found(t) PROVE ProgressType' /\ EndingType'
  <2>1. clock' \in Nat
    BY <1>3, RunAssumption DEF Found, ProgressType
  <2>2. QED
    BY <1>3, <2>1 DEF Found, ProgressType, EndingType, ending
<1>4. ASSUME NEW t \in QueryTimes, NotFound(t) PROVE ProgressType' /\ EndingType'
  <2>1. clock' \in Nat /\ attempt' \in 0 .. CollectAttempts - 1
    BY <1>4, RunAssumption DEF NotFound, ProgressType, LastAttempt
  <2>2. failing' \in BOOLEAN
    BY <1>4 DEF NotFound, ProgressType
  <2>3. CASE UNCHANGED <<phase, ending>>
    BY <2>1, <2>2, <2>3 DEF ProgressType, EndingType, ending
  <2>4. CASE Leave("detect-error", "error")
    <3>1. lines = 0
      BY <1>4 DEF NotFound, RecordInv
    <3>2. QED
      BY <2>1, <2>2, <2>4, <3>1 DEF ProgressType, EndingType, Leave, Outcomes
  <2>5. QED
    BY <1>4, <2>3, <2>4 DEF NotFound
<1>5. CASE Sending
  <2>1. PICK n \in Nat : clock' = clock + n
    BY <1>5, SendClock
  <2>2. clock \in Nat
    BY DEF ProgressType
  <2>3. clock' \in Nat
    BY <2>1, <2>2
  <2>4. phase' \in {"send", "save", "failed"} /\ UNCHANGED <<attempt, failing, ending>>
    BY <1>5 DEF Sending
  <2>5. QED
    BY <2>3, <2>4 DEF ProgressType, EndingType, ending
<1>6. ASSUME NEW saved \in BOOLEAN, Save(saved) PROVE ProgressType' /\ EndingType'
  <2>1. clock' \in Nat
    BY <1>6, RunAssumption DEF Save, ProgressType
  <2>2. lines' = 1 /\ phase' = "done"
    BY <1>6 DEF Save, Leave, RecordInv
  <2>3. outcome' \in Outcomes /\ exit' \in {"nil", "error"}
    BY <1>6 DEF Save, Leave, SavedWord, SavedExit, Outcomes
  <2>4. QED
    BY <1>6, <2>1, <2>2, <2>3 DEF Save, ProgressType, EndingType
<1>7. CASE Done \/ UNCHANGED vars
  BY <1>7 DEF Done, vars, ending, ProgressType, EndingType
<1>8. QED
  BY <1>1, <1>2, <1>3, <1>4, <1>5, <1>6, <1>7 DEF Next

LEMMA TimeStep == TypeOK /\ TimeInv /\ RecordInv /\ [Next]_vars => TimeInv'
<1> SUFFICES ASSUME TypeOK, TimeInv, RecordInv, [Next]_vars PROVE TimeInv'
  OBVIOUS
<1>0. /\ clock \in Nat /\ attempt \in 0 .. CollectAttempts - 1
      /\ CollectBound \in Nat /\ SendBound \in Nat /\ SaveTime \in Nat /\ Poll \in Nat
      /\ phase \in {"load", "query", "decide", "send", "failed", "save", "done"}
  BY Bounds, RunAssumption DEF TypeOK, ProgressType
<1>1. clock <= CollectBound + SendBound + SaveTime
  BY <1>0, PollsFit, RunAssumption DEF TimeInv
<1>2. CASE ConfigError \/ Skip \/ NoWebhook \/ SendFailed
  BY <1>1, <1>2 DEF ConfigError, Skip, NoWebhook, SendFailed, Leave, TimeInv
<1>3. CASE Load
  BY <1>0, <1>3 DEF Load, TimeInv
<1>4. ASSUME NEW t \in QueryTimes, Found(t) PROVE TimeInv'
  <2>1. clock + t <= CollectBound
    BY <1>0, <1>4, PollsFit, RunAssumption DEF Found, TimeInv
  <2>2. QED
    BY <1>4, <2>1 DEF Found, TimeInv
<1>5. ASSUME NEW t \in QueryTimes, NotFound(t) PROVE TimeInv'
  <2>1. t \in Nat /\ t <= SlowestQuery /\ clock <= attempt * Poll /\ attempt * Poll \in Nat
        /\ (attempt + 1) * Poll = attempt * Poll + Poll
        /\ attempt * Poll + SlowestQuery <= CollectBound
    BY <1>0, <1>5, PollsFit, RunAssumption DEF NotFound, TimeInv
  <2>2. CASE attempt' = attempt + 1 /\ clock' = clock + t + CollectWait /\ phase' = "query"
    <3>1. clock' <= (attempt + 1) * Poll
      BY <1>0, <2>1, <2>2, RunAssumption DEF Poll
    <3>2. QED
      BY <2>2, <3>1 DEF TimeInv
  <2>3. CASE phase' = "done" /\ clock' = clock + t
    BY <1>0, <2>1, <2>3, RunAssumption DEF TimeInv
  <2>4. QED
    BY <1>5, <2>2, <2>3 DEF NotFound, Leave
<1>6. CASE Preview \/ Exclude \/ Notify
  BY <1>0, <1>6 DEF Preview, Exclude, Notify, TimeInv
<1>7. CASE Sending
  <2>1. spent = 0 /\ clock <= CollectBound
    BY <1>7 DEF Sending, RecordInv, TimeInv
  <2>2. CASE ~returned'
    <3>1. phase' = "send" /\ spent' = 0
      BY <1>7, <2>1, <2>2, SendEffect DEF Sending, TypeOK
    <3>2. QED
      BY <1>0, <1>7, <2>1, <3>1 DEF Sending, TimeInv
  <2>3. CASE returned'
    <3>1. phase' \in {"save", "failed"} /\ spent' \in 0 .. SendBound
      BY <1>7, <2>1, <2>3, SendEffect DEF Sending, TypeOK
    <3>2. PICK n \in Nat : spent' = n /\ clock' = clock + n
      BY <1>7, SendClock DEF TypeOK
    <3>3. clock' <= CollectBound + SendBound
      <4>1. n <= SendBound
        BY <1>0, <3>1, <3>2
      <4>2. QED
        BY <1>0, <2>1, <3>2, <4>1
    <3>4. QED
      BY <3>1, <3>3 DEF TimeInv
  <2>4. QED
    BY <2>2, <2>3
<1>8. ASSUME NEW saved \in BOOLEAN, Save(saved) PROVE TimeInv'
  <2>1. clock' <= CollectBound + SendBound + SaveTime
    BY <1>0, <1>8 DEF Save, TimeInv
  <2>2. QED
    BY <1>8, <2>1 DEF Save, Leave, TimeInv
<1>9. CASE Done \/ UNCHANGED vars
  BY <1>9 DEF Done, vars, TimeInv
<1>10. QED
  BY <1>2, <1>3, <1>4, <1>5, <1>6, <1>7, <1>8, <1>9 DEF Next

\* Where a run ends with nothing sent yet: ConfigError, Skip, NoWebhook, and the last
\* query of collect.
Unsent == ~ok /\ exit' \in {"nil", "error"} /\ outcome' \notin {"sent", "none"}

LEMMA LeaveUnsent ==
  ASSUME RecordInv, Unsent, UNCHANGED <<dryRun, known, onDisk, call>>, phase' = "done",
         exit' = "nil" => onDisk,
         delivered => lines' = 1 /\ outcome' = "send-failed" /\ exit' = "error"
  PROVE  RecordInv'
<1>1. ~ok' /\ (known' => onDisk') /\ (exit' = "nil" => onDisk')
  BY DEF Unsent, RecordInv, call
<1>2. CleanExitIsRecorded' /\ SentMeansAllOfIt' /\ DeliveredIsTold'
  BY <1>1 DEF Unsent, CleanExitIsRecorded, SentMeansAllOfIt, DeliveredIsTold, call
<1>3. QED
  BY <1>1, <1>2 DEF RecordInv

\* A step that neither ends the run nor sends changes nothing that is on record.
LEMMA Undecided ==
  ASSUME RecordInv, UNCHANGED <<dryRun, onDisk, ending, call>>,
         known' => onDisk, phase # "done",
         phase' \in {"query", "decide", "send", "save"},
         phase' \in {"send", "save"} => ~dryRun,
         ~returned /\ ~ok /\ spent = 0 /\ ~delivered
  PROVE  RecordInv'
<1>1. exit' = "running" /\ outcome' = "none" /\ lines' = 0 /\ phase' # "done"
  BY DEF RecordInv, ending
<1>2. CleanExitIsRecorded' /\ SentMeansAllOfIt' /\ DeliveredIsTold'
  BY <1>1 DEF CleanExitIsRecorded, SentMeansAllOfIt, DeliveredIsTold
<1>3. QED
  BY <1>1, <1>2 DEF RecordInv, call

LEMMA RecordStep == TypeOK /\ RecordInv /\ [Next]_vars => RecordInv'
<1> SUFFICES ASSUME TypeOK, RecordInv, [Next]_vars PROVE RecordInv'
  OBVIOUS
<1>1. CASE ConfigError
  <2>1. Unsent /\ exit' = "error" /\ phase' = "done" /\ ~delivered
    BY <1>1 DEF ConfigError, Leave, Unsent, RecordInv
  <2>2. QED
    BY <1>1, <2>1, LeaveUnsent DEF ConfigError, input
<1>2. CASE Skip
  <2>1. Unsent /\ phase' = "done" /\ onDisk /\ ~delivered
    BY <1>2 DEF Skip, Leave, Unsent, RecordInv, AlreadyNotified
  <2>2. QED
    BY <1>2, <2>1, LeaveUnsent DEF Skip, input
<1>3. CASE NoWebhook
  <2>1. Unsent /\ exit' = "error" /\ phase' = "done" /\ ~delivered
    BY <1>3 DEF NoWebhook, Leave, Unsent, RecordInv
  <2>2. QED
    BY <1>3, <2>1, LeaveUnsent DEF NoWebhook, input
<1>4. CASE Load
  <2>1. known' => onDisk
    BY <1>4 DEF Load
  <2>2. QED
    BY <1>4, <2>1, Undecided DEF Load, RecordInv
<1>5. ASSUME NEW t \in QueryTimes, Found(t) PROVE RecordInv'
  BY <1>5, Undecided DEF Found, RecordInv, input
<1>6. ASSUME NEW t \in QueryTimes, NotFound(t) PROVE RecordInv'
  <2>1. CASE UNCHANGED <<phase, ending>>
    BY <1>6, <2>1, Undecided DEF NotFound, RecordInv, input
  <2>2. CASE Leave("detect-error", "error")
    <3>1. Unsent /\ exit' = "error" /\ phase' = "done" /\ ~delivered
      BY <1>6, <2>2 DEF NotFound, Leave, Unsent, RecordInv
    <3>2. QED
      BY <1>6, <3>1, LeaveUnsent DEF NotFound, input
  <2>3. QED
    BY <1>6, <2>1, <2>2 DEF NotFound
<1>7. CASE Preview
  <2>1. ~ok' /\ ~delivered' /\ dryRun' /\ outcome' = "none" /\ phase' = "done" /\ (known' => onDisk')
    BY <1>7 DEF Preview, RecordInv, input, call
  <2>2. CleanExitIsRecorded' /\ SentMeansAllOfIt' /\ DeliveredIsTold'
    BY <2>1 DEF CleanExitIsRecorded, SentMeansAllOfIt, DeliveredIsTold
  <2>3. QED
    BY <2>1, <2>2 DEF RecordInv
<1>8. CASE Exclude
  BY <1>8, Undecided DEF Exclude, RecordInv, input
<1>9. CASE Notify
  BY <1>9, Undecided DEF Notify, RecordInv, input
<1>10. CASE Sending
  <2>1. phase = "send" /\ spent = 0 /\ ~returned /\ ~ok /\ (known => onDisk)
        /\ exit = "running" /\ outcome = "none" /\ lines = 0
    BY <1>10 DEF Sending, RecordInv
  <2>2. UNCHANGED <<input, onDisk, ending>>
    BY <1>10 DEF Sending
  <2>3. exit' = "running" /\ outcome' = "none" /\ lines' = 0 /\ (known' => onDisk')
    BY <2>1, <2>2 DEF input, ending
  <2>4. phase' \in {"send", "save", "failed"} /\ (ok' => delivered')
        /\ (phase' = "send" => ~returned' /\ ~ok' /\ spent' = 0)
        /\ (phase' = "failed" => ~ok') /\ (phase' = "save" => ok')
    BY <1>10, <2>1, SendEffect DEF Sending, TypeOK
  <2>5. ~dryRun'
    BY <2>1, <2>2 DEF RecordInv, input
  <2>6. CleanExitIsRecorded' /\ SentMeansAllOfIt' /\ DeliveredIsTold'
    BY <2>3, <2>4 DEF CleanExitIsRecorded, SentMeansAllOfIt, DeliveredIsTold
  <2>7. QED
    BY <2>3, <2>4, <2>5, <2>6 DEF RecordInv
<1>11. CASE SendFailed
  <2>1. Unsent /\ exit' = "error" /\ phase' = "done" /\ lines' = 1 /\ outcome' = "send-failed"
    BY <1>11 DEF SendFailed, Leave, Unsent, RecordInv
  <2>2. QED
    BY <1>11, <2>1, LeaveUnsent DEF SendFailed, input
<1>12. ASSUME NEW saved \in BOOLEAN, Save(saved) PROVE RecordInv'
  <2>1. /\ UNCHANGED <<input, call>> /\ onDisk' = (saved \/ onDisk) /\ phase' = "done"
        /\ outcome' = SavedWord(saved) /\ exit' = SavedExit(saved) /\ lines' = 1
        /\ (delivered' => ok')
    BY <1>12 DEF Save, Leave, RecordInv, input, call
  <2>2. (known' => onDisk') /\ (ok' => delivered') /\ ok' = ok /\ delivered' = delivered
    BY <2>1 DEF RecordInv, input, call
  <2>3. CleanExitIsRecorded'
    BY <2>1 DEF CleanExitIsRecorded, SavedExit
  <2>4. SentMeansAllOfIt'
    BY <2>1, <2>2 DEF SentMeansAllOfIt, SavedWord, SavedExit
  <2>5. DeliveredIsTold'
    BY <2>1, <2>2 DEF DeliveredIsTold, SavedWord, SavedExit
  <2>6. QED
    BY <2>1, <2>2, <2>3, <2>4, <2>5 DEF RecordInv
<1>13. CASE Done \/ UNCHANGED vars
  BY <1>13 DEF Done, vars, input, ending, call, RecordInv,
       CleanExitIsRecorded, SentMeansAllOfIt, DeliveredIsTold
<1>14. QED
  BY <1>1, <1>2, <1>3, <1>4, <1>5, <1>6, <1>7, <1>8, <1>9, <1>10, <1>11, <1>12, <1>13 DEF Next

-----------------------------------------------------------------------------
\* Every reachable state has its types, is on time in its phase, and agrees with the
\* record.
THEOREM RunInvariant == Spec => []IInv
<1>1. Init => IInv
  BY InitInvariant
<1>2. IInv /\ [Next]_vars => IInv'
  <2> SUFFICES ASSUME IInv, [Next]_vars PROVE IInv'
    OBVIOUS
  <2>1. TypeOK /\ TimeInv /\ RecordInv
    BY DEF IInv
  <2>2. InputType' /\ CallType'
    BY <2>1, InputStep, CallStep DEF TypeOK
  <2>3. ProgressType' /\ EndingType'
    BY <2>1, ProgressStep
  <2>4. TimeInv' /\ RecordInv'
    BY <2>1, TimeStep, RecordStep
  <2>5. QED
    BY <2>2, <2>3, <2>4 DEF IInv, TypeOK
<1>3. QED
  BY <1>1, <1>2, PTL DEF Spec

\* The scheduled task's limit: a run whose constants add up to no more than TimeLimit
\* never reaches it, whichever way the log and the network behave.
THEOREM NeverCutOff == Spec => []InsideTimeLimit
<1>1. IInv => InsideTimeLimit
  <2> SUFFICES ASSUME IInv, WorstRun <= TimeLimit PROVE clock <= TimeLimit
    BY DEF InsideTimeLimit
  <2>1. /\ clock \in Nat /\ attempt \in 0 .. CollectAttempts - 1
        /\ CollectBound \in Nat /\ SendBound \in Nat /\ SaveTime \in Nat /\ TimeLimit \in Nat
        /\ phase \in {"load", "query", "decide", "send", "failed", "save", "done"}
    BY Bounds, RunAssumption DEF IInv, TypeOK, ProgressType
  <2>2. clock <= CollectBound + SendBound + SaveTime
    BY <2>1, PollsFit, RunAssumption DEF IInv, TimeInv
  <2>3. QED
    BY <2>1, <2>2, Bounds
<1>2. QED
  BY <1>1, RunInvariant, PTL

\* The types of the inputs, of the run's progress, of its ending and of its call.
THEOREM TypeCorrect == Spec => []TypeOK
<1>1. IInv => TypeOK
  BY DEF IInv
<1>2. QED
  BY <1>1, RunInvariant, PTL

\* Exit code 0 means that the boot is on the record: one that is not would be notified
\* again by every later run of the boot.
THEOREM CleanMeansRecorded == Spec => []CleanExitIsRecorded
<1>1. IInv => CleanExitIsRecorded
  BY DEF IInv, RecordInv
<1>2. QED
  BY <1>1, RunInvariant, PTL

\* The log line "sent" is written of a message that was delivered and recorded.
THEOREM SentIsTruthful == Spec => []SentMeansAllOfIt
<1>1. IInv => SentMeansAllOfIt
  BY DEF IInv, RecordInv
<1>2. QED
  BY <1>1, RunInvariant, PTL

\* A message that reached the channel is recorded, or a line and the exit code tell.
THEOREM DeliveryIsTold == Spec => []DeliveredIsTold
<1>1. IInv => DeliveredIsTold
  BY DEF IInv, RecordInv
<1>2. QED
  BY <1>1, RunInvariant, PTL
=============================================================================
