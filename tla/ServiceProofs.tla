--------------------------- MODULE ServiceProofs ----------------------------
(***************************************************************************)
(* The notice before a shutdown, for every log, every limit and batch, and *)
(* every choice of the times: what the query returns, what the notice      *)
(* says, how long it takes and what becomes of it.                         *)
(***************************************************************************)
EXTENDS Service, DetectProofs, FiniteSetTheorems, SequenceTheorems

\* Where the query is: it never holds more handles than it wants records, nor more
\* than there are.
Loop ==
  /\ qpc \in {"open", "next"} => Len(read) < Limit
  /\ qpc = "render" =>
       handles >= 1 /\ handles <= entries - pos /\ handles <= Limit - Len(read)

\* What it has to say for itself at its end.
Errors ==
  /\ ~firstErr => \A k \in damaged : k > pos
  /\ cut => firstErr
  /\ qpc = "done" /\ ~cut => pos = entries \/ Len(read) >= Limit

QueryInv == QueryTypeOK /\ Loop /\ ReadIsNewest /\ Errors

-----------------------------------------------------------------------------
(* The query.                                                              *)

LEMMA QueryStart ==
  ASSUME QueryInit, entries \in Nat, damaged \subseteq 1 .. entries
  PROVE  QueryInv
<1> USE QueryAssumption
<1>1. QueryTypeOK
  <2>1. <<>> \in Seq(1 .. entries) /\ 0 \in 0 .. entries
    OBVIOUS
  <2> QED
    BY <2>1 DEF QueryInit, QueryTypeOK
<1>2. Loop /\ Errors
  BY DEF QueryInit, Loop, Errors
<1>3. ReadIsNewest
  BY DEF QueryInit, ReadIsNewest
<1> QED
  BY <1>1, <1>2, <1>3 DEF QueryInv

\* A record that was read is appended: it is older than all that were read before.
LEMMA RenderReads == ASSUME QueryInv, Render PROVE QueryTypeOK' /\ ReadIsNewest'
<1> USE QueryAssumption
<1>1. /\ entries \in Nat /\ damaged \subseteq 1 .. entries /\ pos \in 0 .. entries
      /\ read \in Seq(1 .. entries) /\ handles \in Nat /\ pos + 1 <= entries
      /\ Len(read) \in Nat /\ Len(read) < Limit /\ handles >= 1
      /\ DOMAIN read = 1 .. Len(read)
  BY DEF QueryInv, QueryTypeOK, Loop, Render
<1>2. entries' = entries /\ damaged' = damaged /\ pos' = pos + 1 /\ handles' = handles - 1
  BY DEF Render
<1>3. /\ qpc' \in {"render", "next", "done"} /\ firstErr' \in BOOLEAN
      /\ cut' = cut /\ handles' \in Nat /\ pos' \in 0 .. entries
  BY <1>1, <1>2 DEF QueryInv, QueryTypeOK, Render, KeptError, AfterRender
<1>4. QueryTypeOK' <=> read' \in Seq(1 .. entries)
  BY <1>1, <1>2, <1>3 DEF QueryInv, QueryTypeOK
<1>5. {read[k] : k \in DOMAIN read} = (1 .. pos) \ damaged
  BY DEF QueryInv, ReadIsNewest
<1>6. CASE pos + 1 \in damaged
  <2>1. read' = read
    BY <1>6 DEF Render
  <2>2. (1 .. pos + 1) \ damaged = (1 .. pos) \ damaged
    BY <1>1, <1>6
  <2>3. ReadIsNewest'
    BY <1>1, <1>2, <2>1, <2>2 DEF QueryInv, ReadIsNewest
  <2>4. QueryTypeOK'
    BY <1>1, <1>4, <2>1
  <2> QED
    BY <2>3, <2>4
<1>7. CASE pos + 1 \notin damaged
  <2>1. read' = Append(read, pos + 1)
    BY <1>7 DEF Render
  <2>2. /\ read' \in Seq(1 .. entries) /\ Len(read') = Len(read) + 1
        /\ DOMAIN read' = 1 .. Len(read) + 1
        /\ \A k \in 1 .. Len(read) : read'[k] = read[k]
        /\ read'[Len(read) + 1] = pos + 1
    BY <1>1, <2>1
  <2>3. \A k \in 1 .. Len(read) : read[k] \in (1 .. pos) \ damaged
    BY <1>1, <1>5
  <2>4. \A j, k \in DOMAIN read' : j < k => read'[j] < read'[k]
    <3> SUFFICES ASSUME NEW j \in DOMAIN read', NEW k \in DOMAIN read', j < k
                 PROVE  read'[j] < read'[k]
      OBVIOUS
    <3>1. j \in 1 .. Len(read) /\ read'[j] = read[j] /\ read[j] \in 1 .. pos
      BY <1>1, <2>2, <2>3
    <3>2. CASE k = Len(read) + 1
      BY <1>1, <2>2, <3>1, <3>2
    <3>3. CASE k \in 1 .. Len(read)
      BY <1>1, <2>2, <3>1, <3>3 DEF QueryInv, ReadIsNewest
    <3> QED
      BY <1>1, <2>2, <3>2, <3>3
  <2>5. {read'[k] : k \in DOMAIN read'} = {read[k] : k \in DOMAIN read} \cup {pos + 1}
    <3>1. DOMAIN read' = DOMAIN read \cup {Len(read) + 1} /\ Len(read) + 1 \notin DOMAIN read
      BY <1>1, <2>2
    <3>2. \A k \in DOMAIN read : read'[k] = read[k]
      BY <1>1, <2>2
    <3>3. ASSUME NEW x \in {read'[k] : k \in DOMAIN read'}
          PROVE  x \in {read[k] : k \in DOMAIN read} \cup {pos + 1}
      <4>1. PICK k \in DOMAIN read' : x = read'[k]
        OBVIOUS
      <4>2. k \in DOMAIN read => x = read[k]
        BY <3>2, <4>1
      <4>3. k = Len(read) + 1 => x = pos + 1
        BY <2>2, <4>1
      <4> QED
        BY <3>1, <4>1, <4>2, <4>3
    <3>4. ASSUME NEW x \in {read[k] : k \in DOMAIN read} \cup {pos + 1}
          PROVE  x \in {read'[k] : k \in DOMAIN read'}
      <4>1. CASE x = pos + 1
        <5>1. Len(read) + 1 \in DOMAIN read' /\ x = read'[Len(read) + 1]
          BY <2>2, <3>1, <4>1
        <5> QED
          BY <5>1
      <4>2. ASSUME NEW k \in DOMAIN read, x = read[k] PROVE x \in {read'[j] : j \in DOMAIN read'}
        <5>1. k \in DOMAIN read' /\ x = read'[k]
          BY <3>1, <3>2, <4>2
        <5> QED
          BY <5>1
      <4> QED
        BY <4>1, <4>2
    <3> QED
      BY <3>3, <3>4
  <2>6. (1 .. pos + 1) \ damaged = ((1 .. pos) \ damaged) \cup {pos + 1}
    BY <1>1, <1>7
  <2>7. ReadIsNewest'
    <3>1. {read'[k] : k \in DOMAIN read'} = (1 .. pos') \ damaged'
      BY <1>2, <1>5, <2>5, <2>6
    <3>2. Len(read') <= Limit
      BY <1>1, <2>2
    <3> QED
      BY <2>4, <3>1, <3>2 DEF ReadIsNewest
  <2>8. QueryTypeOK'
    BY <1>4, <2>2
  <2> QED
    BY <2>7, <2>8
<1> QED
  BY <1>6, <1>7

LEMMA QuerySteps == ASSUME QueryInv, QueryNext PROVE QueryInv'
<1> USE QueryAssumption
<1>1. CASE Open
  BY <1>1 DEF Open, QueryInv, QueryTypeOK, Loop, ReadIsNewest, Errors
<1>2. CASE CallFails
  BY <1>2 DEF CallFails, QueryInv, QueryTypeOK, Loop, ReadIsNewest, Errors
<1>3. CASE NoMore
  BY <1>3 DEF NoMore, QueryInv, QueryTypeOK, Loop, ReadIsNewest, Errors
<1>4. CASE NextBatch
  <2>1. PICK n \in 1 .. Requested : n <= entries - pos /\ handles' = n
    BY <1>4 DEF NextBatch
  <2>2. Len(read) \in Nat /\ Len(read) < Limit
    BY <1>4 DEF NextBatch, QueryInv, QueryTypeOK, Loop
  <2>3. n \in Nat /\ n >= 1 /\ n <= Limit - Len(read)
    BY <2>1, <2>2 DEF Requested
  <2>4. Loop'
    BY <1>4, <2>1, <2>3 DEF NextBatch, Loop
  <2> QED
    BY <1>4, <2>1, <2>3, <2>4 DEF NextBatch, QueryInv, QueryTypeOK, ReadIsNewest, Errors
<1>5. CASE Render
  <2>1. /\ entries \in Nat /\ pos \in 0 .. entries /\ handles \in Nat /\ Len(read) \in Nat
        /\ handles >= 1 /\ handles <= entries - pos /\ handles <= Limit - Len(read)
        /\ damaged \subseteq 1 .. entries
    BY <1>5 DEF Render, QueryInv, QueryTypeOK, Loop
  <2>2. /\ Len(read') \in {Len(read), Len(read) + 1}
        /\ pos' = pos + 1 /\ handles' = handles - 1 /\ entries' = entries
        /\ damaged' = damaged /\ cut' = cut
    BY <1>5 DEF Render, QueryInv, QueryTypeOK
  <2>3. qpc' = IF handles > 1 THEN "render" ELSE IF Len(read') < Limit THEN "next" ELSE "done"
    BY <1>5 DEF Render, AfterRender
  <2>4. firstErr' = (firstErr \/ pos + 1 \in damaged)
    BY <1>5 DEF Render, KeptError
  <2>5. Loop'
    BY <2>1, <2>2, <2>3 DEF Loop
  <2>6. ~firstErr' => \A k \in damaged : k > pos + 1
    <3> SUFFICES ASSUME ~firstErr', NEW k \in damaged PROVE k > pos + 1
      OBVIOUS
    <3>1. ~firstErr /\ k # pos + 1
      BY <2>4
    <3>2. k > pos /\ k \in Int /\ pos \in Int
      BY <2>1, <3>1 DEF QueryInv, Errors
    <3> QED
      BY <3>1, <3>2
  <2>7. Errors'
    <3>1. cut' => firstErr'
      BY <2>2, <2>4 DEF QueryInv, Errors
    <3>2. qpc' = "done" => Len(read') >= Limit
      BY <2>1, <2>2, <2>3
    <3> QED
      BY <2>2, <2>6, <3>1, <3>2 DEF Errors
  <2> QED
    BY <1>5, <2>5, <2>7, RenderReads DEF QueryInv
<1> QED
  BY <1>1, <1>2, <1>3, <1>4, <1>5 DEF QueryNext

LEMMA QueryRests == ASSUME QueryInv, UNCHANGED queryVars PROVE QueryInv'
  BY DEF queryVars, progress, QueryInv, QueryTypeOK, Loop, ReadIsNewest, Errors

\* An empty result without an error: every entry was looked at and none was damaged.
LEMMA EmptyMeansEmpty == QueryInv => EmptyIsTrue
<1> SUFFICES ASSUME QueryInv, qpc = "done", read = <<>>, ~QueryFailed PROVE entries = 0
  BY DEF EmptyIsTrue
<1>1. ~firstErr /\ ~cut
  BY DEF QueryFailed, QueryInv, Errors
<1>2. pos = entries
  BY <1>1, QueryAssumption DEF QueryInv, Errors
<1>3. \A k \in damaged : k > entries
  BY <1>1, <1>2 DEF QueryInv, Errors
<1>4. (1 .. entries) \ damaged = {}
  BY <1>2 DEF QueryInv, ReadIsNewest
<1>5. entries \in Nat /\ damaged \subseteq 1 .. entries
  BY DEF QueryInv, QueryTypeOK
<1>6. ASSUME entries # 0 PROVE FALSE
  <2>1. 1 \in 1 .. entries
    BY <1>5, <1>6
  <2> QED
    BY <1>3, <1>4, <1>5, <2>1
<1> QED
  BY <1>6

-----------------------------------------------------------------------------
(* The notice.                                                             *)

\* How late it can be in each phase: nothing happens before the read, one attempt
\* before the pause, and the pause before the second attempt.
Time ==
  /\ pc \in {"start", "wait", "load", "query"} => elapsed = 0 /\ i = 0
  /\ pc = "send" => elapsed <= SlowestRead + IF i = 0 THEN 0 ELSE SendTimeout + Pause
  /\ pc = "pause" => i = 0 /\ elapsed <= SlowestRead + SendTimeout
  /\ elapsed <= WorstNotice

\* What has been asked, posted and said in each phase.
Account ==
  /\ pc \in {"start", "wait"} => ~asked
  /\ pc \in {"load", "query", "send", "pause"} => asked
  /\ pc \in {"start", "wait", "load", "query"} => taken = 0 /\ lost = 0
  /\ pc \in {"query", "send", "pause"} => config.loads /\ (config.on \/ force)
  /\ pc \in {"send", "pause"} => taken = lost
  /\ pc # "end" => said = "none"

IInv ==
  TypeOK /\ QueryInv /\ Time /\ Account /\ NoticeIsAccounted /\ OneNotice /\ NamedIsTrue

LEMMA Starts == Init => IInv
<1> SUFFICES ASSUME Init PROVE IInv
  OBVIOUS
<1>1. entries \in Nat /\ damaged \subseteq 1 .. entries
  <2>1. log \in Logs /\ entries = Len(log) /\ damaged \in SUBSET (1 .. entries)
    BY DEF Init
  <2> QED
    BY <2>1, LogAssumption
<1>2. QueryInv
  BY <1>1, QueryStart DEF Init
<1>3. /\ pc \in {"start", "load"} /\ caller \in {"service", "console"}
      /\ (pc = "start" => ~asked) /\ (pc = "load" => asked) /\ asked \in BOOLEAN
  BY DEF Init
<1>4. force \in BOOLEAN /\ config \in Configs /\ log \in Logs /\ entries = Len(log)
  BY DEF Init
<1>5. /\ elapsed = 0 /\ i = 0 /\ taken = 0 /\ lost = 0 /\ named = 0 /\ said = "none"
      /\ status = "starting" /\ control = "none"
  BY DEF Init
<1>6. TypeOK
  <2>1. named \in 0 .. entries /\ i \in 0 .. 1 /\ elapsed \in Nat /\ taken \in Nat /\ lost \in Nat
    BY <1>1, <1>5
  <2> QED
    BY <1>2, <1>3, <1>4, <1>5, <2>1 DEF TypeOK, QueryInv
<1>7. Time
  <2>1. elapsed <= WorstNotice
    BY <1>5, NoticeAssumption DEF WorstNotice
  <2>2. elapsed <= SlowestRead
    BY <1>5, NoticeAssumption
  <2> QED
    BY <1>3, <1>5, <2>1, <2>2 DEF Time
<1>8. Account
  BY <1>3, <1>5 DEF Account
<1>9. NoticeIsAccounted /\ OneNotice
  BY <1>3, <1>5 DEF NoticeIsAccounted, OneNotice
<1>10. NamedIsTrue
  BY <1>3 DEF NamedIsTrue
<1> QED
  BY <1>2, <1>6, <1>7, <1>8, <1>9, <1>10 DEF IInv

\* The query.
LEMMA QuerySide == ASSUME IInv, [Next]_vars PROVE QueryInv'
<1>1. CASE Querying
  BY <1>1, QuerySteps DEF IInv, Querying
<1>2. ASSUME UNCHANGED queryVars PROVE QueryInv'
  BY <1>2, QueryRests DEF IInv
<1> QED
  BY <1>1, <1>2
  DEF Next, Step, SendControl, Ended, Start, Answer, Stop, Shutdown, Load, Classify, SendInvalid,
      SendTransportError, SendAnswered, Sleep, vars

\* The records the notice is made from are entries of the log.
LEMMA ResultIsRead ==
  ASSUME QueryTypeOK
  PROVE  /\ DOMAIN Result = DOMAIN read /\ DOMAIN read = 1 .. Len(read) /\ Len(read) \in Nat
         /\ DOMAIN read \subseteq Nat \ {0}
         /\ \A k \in DOMAIN read : Result[k] = log[read[k]] /\ read[k] \in 1 .. entries
<1>1. read \in Seq(1 .. entries)
  BY DEF QueryTypeOK
<1>2. DOMAIN read = 1 .. Len(read) /\ Len(read) \in Nat
  BY <1>1
<1>3. ASSUME NEW k \in 1 .. Len(read) PROVE read[k] \in 1 .. entries
  BY <1>1, <1>3, ElementOfSeq, Zenon
<1> QED
  BY <1>2, <1>3 DEF Result

\* Types.
LEMMA Types == ASSUME IInv, [Next]_vars PROVE TypeOK'
<1> TypeOK /\ Time
  BY DEF IInv
<1> QueryTypeOK'
  BY QuerySide DEF QueryInv
<1>1. CASE Start
  BY <1>1 DEF Start, TypeOK, input, notice, channel, queryVars
<1>2. ASSUME NEW c \in Controls, SendControl(c) PROVE TypeOK'
  BY <1>2 DEF SendControl, TypeOK, input, notice, channel, queryVars
<1>3. CASE Answer \/ Stop \/ Shutdown
  BY <1>3 DEF Answer, Stop, Shutdown, Take, TypeOK, input, notice, channel, queryVars
<1>4. CASE Load
  BY <1>4 DEF Load, Refusal, Return, TypeOK, scm, input, channel, queryVars
<1>5. CASE Querying
  BY <1>5 DEF Querying, QueryNext, Open, CallFails, NextBatch, NoMore, Render, TypeOK, scm, input,
              notice, channel
<1>6. ASSUME NEW t \in ReadTimes, Classify(t) PROVE TypeOK'
  <2>1. named' \in 0 .. entries
    <3> DEFINE e == PendingShutdown(Result, Now, Recent)
    <3>1. named' = IF QueryFailed \/ e = 0 THEN 0 ELSE read[e]
      BY <1>6 DEF Classify
    <3>2. /\ DOMAIN Result = DOMAIN read /\ DOMAIN read \subseteq Nat \ {0}
          /\ \A k \in DOMAIN read : read[k] \in 1 .. entries
      BY ResultIsRead DEF TypeOK
    <3>3. e # 0 => e \in DOMAIN read
      BY <3>2, PendingIsTop DEF IsTop
    <3>4. entries \in Nat
      BY DEF TypeOK, QueryTypeOK
    <3> HIDE DEF e
    <3> QED
      BY <3>1, <3>2, <3>3, <3>4
  <2>2. elapsed' \in Nat
    <3>1. t \in 0 .. SlowestRead /\ SlowestRead \in Nat /\ elapsed \in Nat
      BY NoticeAssumption DEF TypeOK
    <3> QED
      BY <1>6, <3>1 DEF Classify
  <2>3. UNCHANGED <<scm, input, i, said, channel, entries>> /\ pc' = "send"
    BY <1>6 DEF Classify, queryVars
  <2> QED
    BY <2>1, <2>2, <2>3 DEF TypeOK, scm, input, channel
<1>7. CASE SendInvalid
  BY <1>7 DEF SendInvalid, Return, TypeOK, scm, input, notice, channel, queryVars
<1>8. ASSUME NEW t \in SendTimes,
             SendTransportError(t) \/ \E answer \in Statuses : SendAnswered(t, answer)
      PROVE TypeOK'
  <2>1. elapsed' \in Nat
    <3>1. t \in 0 .. SendTimeout /\ SendTimeout \in Nat /\ elapsed \in Nat
      BY NoticeAssumption DEF TypeOK
    <3>2. elapsed' = elapsed + t
      BY <1>8 DEF SendTransportError, SendAnswered
    <3> QED
      BY <3>1, <3>2
  <2>2. taken' \in Nat /\ lost' \in Nat
    <3>1. taken \in Nat /\ lost \in Nat
      BY DEF TypeOK
    <3>2. \E reached \in {0, 1} : taken' = taken + reached /\ lost' \in {lost, lost + reached}
      BY <1>8 DEF SendTransportError, SendAnswered
    <3> QED
      BY <3>1, <3>2
  <2>3. /\ pc' \in {"pause", "end"} /\ said' \in {"none", "sent", "disabled", "error"}
        /\ status' \in {status, "stopped"} /\ control' = control /\ asked' = asked
    BY <1>8 DEF SendTransportError, SendAnswered, Return, Retry, TypeOK, scm
  <2>4. UNCHANGED <<input, named, i, entries>>
    BY <1>8 DEF SendTransportError, SendAnswered, queryVars
  <2> QED
    BY <2>1, <2>2, <2>3, <2>4 DEF TypeOK, input
<1>9. CASE Sleep
  <2>1. i' \in 0 .. 1 /\ elapsed' \in Nat
    <3>1. /\ i = 0 /\ elapsed \in Nat /\ Pause \in Nat
          /\ i' = i + 1 /\ elapsed' = elapsed + Pause
      BY <1>9, NoticeAssumption DEF Sleep, TypeOK, Time
    <3> QED
      BY <3>1
  <2> QED
    BY <1>9, <2>1 DEF Sleep, TypeOK, scm, input, channel, queryVars
<1>10. CASE UNCHANGED vars
  BY <1>10 DEF vars, TypeOK, scm, input, notice, channel, queryVars
<1> QED
  BY <1>1, <1>2, <1>3, <1>4, <1>5, <1>6, <1>7, <1>8, <1>9, <1>10 DEF Next, Step, Ended


\* Steps that are not about the time leave it alone.
LEMMA Times == ASSUME IInv, [Next]_vars PROVE Time'
<1> TypeOK /\ Time
  BY DEF IInv
<1>1. /\ SlowestRead \in Nat /\ SendTimeout \in Nat /\ Pause \in Nat
      /\ elapsed \in Nat /\ i \in 0 .. 1
  BY NoticeAssumption DEF TypeOK
<1>2. WorstNotice = SlowestRead + 2 * SendTimeout + Pause
  BY DEF WorstNotice
<1>3. ASSUME elapsed' = elapsed, i' = i,
             \/ pc' = pc
             \/ pc' = "end"
             \/ {pc, pc'} \subseteq {"start", "wait", "load", "query"}
      PROVE Time'
  BY <1>3 DEF Time, WorstNotice
<1>4. ASSUME NEW t \in ReadTimes, Classify(t) PROVE Time'
  <2>1. /\ t \in 0 .. SlowestRead /\ elapsed = 0 /\ i = 0
        /\ elapsed' = elapsed + t /\ i' = i /\ pc' = "send"
    BY <1>4, NoticeAssumption DEF Classify, Time
  <2>2. elapsed' <= SlowestRead /\ elapsed' <= SlowestRead + 2 * SendTimeout + Pause
    BY <1>1, <2>1
  <2> QED
    BY <1>1, <1>2, <2>1, <2>2 DEF Time, WorstNotice
<1>5. ASSUME NEW t \in SendTimes,
             SendTransportError(t) \/ \E answer \in Statuses : SendAnswered(t, answer)
      PROVE Time'
  <2>1. /\ pc = "send" /\ elapsed' = elapsed + t /\ i' = i
        /\ pc' \in {"pause", "end"} /\ (pc' = "pause" => i # 1)
    BY <1>5 DEF SendTransportError, SendAnswered, Return, Retry, Ends, LastTry
  <2>2. t \in 0 .. SendTimeout
    BY NoticeAssumption
  <2>3. CASE i = 0
    <3>1. elapsed' <= SlowestRead + SendTimeout
      BY <1>1, <2>1, <2>2, <2>3 DEF Time
    <3>2. elapsed' <= WorstNotice
      BY <1>1, <1>2, <2>1, <2>2, <3>1
    <3> QED
      BY <2>1, <2>3, <3>1, <3>2 DEF Time, WorstNotice
  <2>4. CASE i = 1
    <3>1. elapsed <= SlowestRead + (SendTimeout + Pause)
      BY <2>1, <2>4 DEF Time
    <3>2. elapsed' <= WorstNotice
      BY <1>1, <1>2, <2>1, <2>2, <3>1
    <3> QED
      BY <2>1, <2>4, <3>2 DEF Time, WorstNotice
  <2> QED
    BY <1>1, <2>3, <2>4
<1>6. CASE Sleep
  <2>1. /\ pc = "pause" /\ i = 0 /\ elapsed <= SlowestRead + SendTimeout
        /\ elapsed' = elapsed + Pause /\ i' = 1 /\ pc' = "send"
    BY <1>6 DEF Sleep, Time
  <2>2. /\ elapsed' <= SlowestRead + (SendTimeout + Pause)
        /\ elapsed' <= SlowestRead + 2 * SendTimeout + Pause
    BY <1>1, <2>1
  <2> QED
    BY <1>2, <2>1, <2>2 DEF Time, WorstNotice
<1>7. CASE Start \/ Answer \/ Stop \/ Shutdown \/ Load \/ Querying \/ SendInvalid \/ Ended
  BY <1>3, <1>7
  DEF Start, Answer, Stop, Shutdown, Take, Load, Querying, SendInvalid, Ended, Return, notice, vars
<1>8. ASSUME NEW c \in Controls, SendControl(c) PROVE Time'
  BY <1>3, <1>8 DEF SendControl, notice
<1>9. CASE UNCHANGED vars
  BY <1>3, <1>9 DEF vars, notice
<1> QED
  BY <1>4, <1>5, <1>6, <1>7, <1>8, <1>9 DEF Next, Step

\* The books are kept.
LEMMA Accounts ==
  ASSUME IInv, [Next]_vars PROVE Account' /\ NoticeIsAccounted' /\ OneNotice'
<1> TypeOK /\ Account /\ NoticeIsAccounted /\ OneNotice
  BY DEF IInv
<1> DEFINE Goal == Account' /\ NoticeIsAccounted' /\ OneNotice'
<1>1. ASSUME UNCHANGED <<asked, config, force, taken, lost, said>>,
             \/ pc' = pc
             \/ pc = "start" /\ pc' = "wait"
             \/ pc = "query" /\ pc' = "send"
             \/ pc = "pause" /\ pc' = "send"
      PROVE Goal
  BY <1>1 DEF Account, NoticeIsAccounted, OneNotice
<1>2. CASE Start \/ Querying \/ Sleep \/ Answer
  BY <1>1, <1>2 DEF Start, Querying, Sleep, Answer, Take, input, notice, channel, scm
<1>3. ASSUME NEW t \in ReadTimes, Classify(t) PROVE Goal
  BY <1>1, <1>3 DEF Classify, input, channel, scm
<1>4. ASSUME NEW c \in Controls, SendControl(c) PROVE Goal
  BY <1>1, <1>4 DEF SendControl, input, notice, channel
<1>5. CASE Stop \/ Shutdown
  BY <1>5 DEF Stop, Shutdown, Take, input, notice, channel, Account, NoticeIsAccounted, OneNotice
<1>6. CASE Load
  BY <1>6 DEF Load, Refusal, Return, ShutdownNoticeGate, input, channel, scm, Account,
              NoticeIsAccounted, OneNotice
<1>7. CASE SendInvalid
  BY <1>7 DEF SendInvalid, Return, input, channel, Account, NoticeIsAccounted, OneNotice, TypeOK
<1>8. ASSUME pc = "send", said = "none", UNCHANGED <<asked, config, force>>,
              taken' = lost', taken' \in Nat,
              \/ pc' = "pause" /\ said' = said
              \/ pc' = "end" /\ said' = "error"
       PROVE Goal
  <2>1. asked' /\ config'.loads /\ (config'.on \/ force')
    BY <1>8 DEF Account
  <2>2. Account'
    BY <1>8, <2>1 DEF Account
  <2>3. NoticeIsAccounted'
    BY <1>8, <2>1 DEF NoticeIsAccounted
  <2>4. OneNotice'
    <3>1. PICK n \in Nat : taken' = n /\ lost' = n
      BY <1>8
    <3> QED
      BY <3>1 DEF OneNotice
  <2> QED
    BY <2>2, <2>3, <2>4
<1>9. ASSUME NEW t \in SendTimes, SendTransportError(t) PROVE Goal
  <2>1. pc = "send" /\ taken = lost /\ lost \in Nat /\ said = "none"
    BY <1>9 DEF SendTransportError, Account, TypeOK
  <2>2. UNCHANGED <<asked, config, force>>
    BY <1>9 DEF SendTransportError, Return, Retry, scm, input
  <2>3. \E reached \in {0, 1} : taken' = taken + reached /\ lost' = lost + reached
    BY <1>9 DEF SendTransportError
  <2>4. taken' = lost' /\ taken' \in Nat
    BY <2>1, <2>3
  <2>5. \/ pc' = "pause" /\ said' = said
        \/ pc' = "end" /\ said' = "error"
    <3>1. IF LastTry THEN Return("error") ELSE Retry
      BY <1>9 DEF SendTransportError
    <3> QED
      BY <3>1 DEF Return, Retry
  <2> QED
    BY <1>8, <2>1, <2>2, <2>4, <2>5
<1>10. ASSUME NEW t \in SendTimes, NEW answer \in Statuses, SendAnswered(t, answer) PROVE Goal
  <2>1. /\ pc = "send" /\ UNCHANGED <<asked, config, force>> /\ taken = lost /\ lost \in Nat
        /\ said = "none"
    BY <1>10 DEF SendAnswered, Return, Retry, Account, TypeOK, scm, input
  <2>2. PICK reached \in {0, 1} :
          /\ Success(answer) => reached = 1
          /\ taken' = taken + reached
          /\ lost' = IF Success(answer) THEN lost ELSE lost + reached
    BY <1>10 DEF SendAnswered
  <2>3. CASE Success(answer)
    <3>1. taken' = lost + 1 /\ lost' = lost
      BY <2>1, <2>2, <2>3
    <3>2. pc' = "end" /\ said' = "sent"
      BY <1>10, <2>3 DEF SendAnswered, Ends, Seen, Return
    <3> QED
      BY <2>1, <3>1, <3>2 DEF Account, NoticeIsAccounted, OneNotice
  <2>4. CASE ~Success(answer)
    <3>1. taken' = lost' /\ taken' \in Nat
      BY <2>1, <2>2, <2>4
    <3>2. \/ pc' = "pause" /\ said' = said
          \/ pc' = "end" /\ said' = "error"
      <4>1. IF Ends(answer) THEN Return("error") ELSE Retry
        BY <1>10, <2>4 DEF SendAnswered, Seen
      <4> QED
        BY <4>1 DEF Return, Retry
    <3> QED
      BY <1>8, <2>1, <3>1, <3>2
  <2> QED
    BY <2>3, <2>4
<1>11. CASE UNCHANGED vars
  BY <1>1, <1>11 DEF vars, scm, input, notice, channel
<1> QED
  BY <1>2, <1>3, <1>4, <1>5, <1>6, <1>7, <1>9, <1>10, <1>11 DEF Next, Step, Ended


-----------------------------------------------------------------------------
(* What the notice names.                                                  *)

\* Every entry the query passed is in its result unless it was damaged, in its order.
LEMMA ReadIsInOrder ==
  ASSUME QueryInv
  PROVE  /\ \A k \in DOMAIN read : read[k] \in (1 .. pos) \ damaged
         /\ \A e \in (1 .. pos) \ damaged : \E k \in DOMAIN read : read[k] = e
         /\ \A j, k \in DOMAIN read : read[j] < read[k] => j < k
<1>1. {read[k] : k \in DOMAIN read} = (1 .. pos) \ damaged
  BY DEF QueryInv, ReadIsNewest
<1>2. DOMAIN read = 1 .. Len(read) /\ Len(read) \in Nat
  BY ResultIsRead DEF QueryInv
<1>3. \A k \in DOMAIN read : read[k] \in (1 .. pos) \ damaged
  BY <1>1
<1>4. ASSUME NEW j \in DOMAIN read, NEW k \in DOMAIN read, read[j] < read[k] PROVE j < k
  <2>1. \/ j < k
        \/ j = k
        \/ k < j
    BY <1>2
  <2>2. read[j] \in 1 .. pos /\ read[k] \in 1 .. pos
    BY <1>3
  <2>3. k < j => read[k] < read[j]
    BY DEF QueryInv, ReadIsNewest
  <2> QED
    BY <1>4, <2>1, <2>2, <2>3
<1> QED
  BY <1>1, <1>3, <1>4

\* No marker and no request of the log was lost to damage.
Legible == \A k \in damaged : ~IsBootMarker(log[k]) /\ ~IsShutdownRequest(log[k])

\* What is on top of the result is on top of the log, and the other way round as far
\* as the query got.
LEMMA SameTop ==
  ASSUME QueryInv, TypeOK, Legible
  PROVE  /\ \A k \in DOMAIN read : IsTop(Result, k) => IsTop(log, read[k])
         /\ \A k \in DOMAIN read : IsTop(log, read[k]) => IsTop(Result, k)
<1>1. /\ entries \in Nat /\ DOMAIN log = 1 .. entries /\ pos \in 0 .. entries
      /\ damaged \subseteq 1 .. entries
  BY LogAssumption DEF TypeOK, QueryTypeOK
<1>2. /\ DOMAIN Result = DOMAIN read
      /\ \A k \in DOMAIN read : Result[k] = log[read[k]] /\ read[k] \in 1 .. entries
  BY ResultIsRead DEF QueryInv
<1>3. ASSUME NEW k \in DOMAIN read, IsTop(Result, k) PROVE IsTop(log, read[k])
  <2>1. read[k] \in DOMAIN log /\ IsShutdownRequest(log[read[k]])
    BY <1>1, <1>2, <1>3 DEF IsTop
  <2>2. ASSUME NEW e \in DOMAIN log, e < read[k]
        PROVE ~IsShutdownRequest(log[e]) /\ ~IsBootMarker(log[e])
    <3>1. CASE e \in damaged
      BY <3>1 DEF Legible
    <3>2. CASE e \notin damaged
      <4>1. read[k] \in 1 .. pos
        BY ReadIsInOrder
      <4>2. e \in (1 .. pos) \ damaged
        BY <1>1, <2>2, <3>2, <4>1
      <4>3. PICK j \in DOMAIN read : read[j] = e
        BY <4>2, ReadIsInOrder
      <4>4. j < k
        BY <2>2, <4>3, ReadIsInOrder
      <4> QED
        BY <1>2, <1>3, <4>3, <4>4 DEF IsTop
    <3> QED
      BY <3>1, <3>2
  <2> QED
    BY <2>1, <2>2 DEF IsTop
<1>4. ASSUME NEW k \in DOMAIN read, IsTop(log, read[k]) PROVE IsTop(Result, k)
  <2>1. IsShutdownRequest(Result[k])
    BY <1>2, <1>4 DEF IsTop
  <2>2. ASSUME NEW j \in DOMAIN read, j < k
        PROVE ~IsShutdownRequest(Result[j]) /\ ~IsBootMarker(Result[j])
    <3>1. read[j] < read[k]
      BY <2>2 DEF QueryInv, ReadIsNewest
    <3>2. read[j] \in DOMAIN log
      BY <1>1, <1>2
    <3> QED
      BY <1>2, <1>4, <3>1, <3>2 DEF IsTop
  <2> QED
    BY <1>2, <2>1, <2>2 DEF IsTop
<1> QED
  BY <1>3, <1>4


\* A request above which no more than Limit entries are legible is within the reach of
\* a query that nothing cut short.
LEMMA WithinReach ==
  ASSUME QueryInv, qpc = "done", ~cut, NEW e \in (1 .. entries) \ damaged,
         Cardinality({k \in 1 .. e : k \notin damaged}) <= Limit
  PROVE  e <= pos
<1> DEFINE newer == {k \in 1 .. e : k \notin damaged}
<1> SUFFICES ASSUME e > pos PROVE FALSE
  <2>1. e \in Int /\ pos \in Int
    BY DEF QueryInv, QueryTypeOK
  <2> QED
    BY <2>1
<1>1. /\ entries \in Nat /\ pos \in 0 .. entries /\ e \in 1 .. entries
      /\ DOMAIN read = 1 .. Len(read) /\ Len(read) \in Nat
  BY ResultIsRead DEF QueryInv, QueryTypeOK
<1>2. Len(read) >= Limit
  BY <1>1 DEF QueryInv, Errors
<1>3. IsFiniteSet(newer) /\ Cardinality(newer) \in Nat
  <2>1. IsFiniteSet(1 .. e)
    BY <1>1, FS_Interval
  <2>2. newer \subseteq 1 .. e
    OBVIOUS
  <2> HIDE DEF newer
  <2> QED
    BY <2>1, <2>2, FS_Subset, FS_CardinalityType
<1>4. e \in newer
  BY <1>1
<1>5. Cardinality(newer \ {e}) = Cardinality(newer) - 1 /\ IsFiniteSet(newer \ {e})
  <2> HIDE DEF newer
  <2> QED
    BY <1>3, <1>4, FS_RemoveElement
<1>6. \A k \in 1 .. Len(read) : read[k] \in newer \ {e}
  <2> SUFFICES ASSUME NEW k \in 1 .. Len(read) PROVE read[k] \in newer \ {e}
    OBVIOUS
  <2>1. read[k] \in (1 .. pos) \ damaged
    BY <1>1, ReadIsInOrder
  <2> QED
    BY <1>1, <2>1
<1> DEFINE f == [k \in 1 .. Len(read) |-> read[k]]
<1>7. \A j, k \in 1 .. Len(read) : read[j] = read[k] => j = k
  <2> SUFFICES ASSUME NEW j \in 1 .. Len(read), NEW k \in 1 .. Len(read), read[j] = read[k],
                      j < k
               PROVE  FALSE
    BY <1>1
  <2>1. read[j] < read[k]
    BY <1>1 DEF QueryInv, ReadIsNewest
  <2>2. read[k] \in 1 .. pos
    BY <1>1, ReadIsInOrder
  <2> QED
    BY <2>1, <2>2
<1>8. f \in Injection(1 .. Len(read), newer \ {e})
  <2>1. f \in [1 .. Len(read) -> newer \ {e}]
    BY <1>6
  <2> QED
    BY <1>7, <2>1 DEF Injection, IsInjective
<1>9. Cardinality(1 .. Len(read)) <= Cardinality(newer \ {e})
  <2> HIDE DEF newer, f
  <2> QED
    BY <1>5, <1>8, FS_Injection
<1>10. Cardinality(1 .. Len(read)) = Len(read)
  <2> DEFINE n == Len(read)
  <2>1. n \in Nat
    BY <1>1
  <2> HIDE DEF n
  <2>2. Cardinality(1 .. n) = IF 1 > n THEN 0 ELSE n - 1 + 1
    BY <2>1, FS_Interval
  <2>3. Cardinality(1 .. n) = n
    BY <2>1, <2>2
  <2> QED
    BY <2>3 DEF n
<1> HIDE DEF newer
<1>11. Cardinality(newer) <= Limit
  BY DEF newer
<1> QED
  BY <1>1, <1>2, <1>3, <1>5, <1>9, <1>10, <1>11, QueryAssumption

\* The notice is made from a result on whose top is what is on top of the log.
LEMMA ClassifyNames ==
  ASSUME IInv, NEW t \in ReadTimes, Classify(t) PROVE NamedIsTrue'
<1> TypeOK /\ QueryInv
  BY DEF IInv
<1> DEFINE whole == PendingShutdown(log, Now, Recent)
           e == PendingShutdown(Result, Now, Recent)
<1>1. /\ qpc = "done" /\ log' = log /\ damaged' = damaged /\ cut' = cut
      /\ named' = IF QueryFailed \/ e = 0 THEN 0 ELSE read[e]
  BY DEF Classify, input, queryVars, progress
<1> SUFFICES ASSUME Legible
             PROVE  /\ named' \in {0, whole}
                    /\ ~cut /\ Cardinality({k \in 1 .. whole : k \notin damaged}) <= Limit
                         => named' = whole
  BY <1>1 DEF NamedIsTrue, Legible
<1>2. /\ DOMAIN log = 1 .. entries /\ entries \in Nat /\ DOMAIN log \subseteq Nat \ {0}
      /\ DOMAIN Result = DOMAIN read /\ DOMAIN Result \subseteq Nat \ {0}
      /\ \A k \in DOMAIN read : Result[k] = log[read[k]] /\ read[k] \in 1 .. entries
  BY ResultIsRead, LogAssumption DEF TypeOK, QueryInv, QueryTypeOK
<1>3. /\ e # 0 => IsTop(Result, e) /\ IsPlausible(Result[e], Now, Recent)
      /\ \A k \in DOMAIN Result :
           IsTop(Result, k) /\ IsPlausible(Result[k], Now, Recent) => e = k
  BY <1>2, PendingIsTop
<1>4. /\ whole # 0 => IsTop(log, whole) /\ IsPlausible(log[whole], Now, Recent)
      /\ \A k \in DOMAIN log : IsTop(log, k) /\ IsPlausible(log[k], Now, Recent) => whole = k
  BY <1>2, PendingIsTop
<1> HIDE DEF whole, e
<1>5. e # 0 => e \in DOMAIN read /\ read[e] = whole
  BY <1>2, <1>3, <1>4, SameTop DEF IsTop
<1>6. ASSUME ~cut, Cardinality({k \in 1 .. whole : k \notin damaged}) <= Limit, whole # 0
      PROVE ~QueryFailed /\ e # 0
  <2>1. IsTop(log, whole) /\ whole \in 1 .. entries /\ whole \notin damaged
    BY <1>2, <1>4, <1>6 DEF IsTop, Legible
  <2>2. whole <= pos
    BY <1>1, <1>6, <2>1, WithinReach
  <2>3. whole \in (1 .. pos) \ damaged
    BY <1>2, <2>1, <2>2 DEF QueryInv, QueryTypeOK
  <2>4. PICK k \in DOMAIN read : read[k] = whole
    BY <2>3, ReadIsInOrder
  <2>5. IsTop(Result, k) /\ IsPlausible(Result[k], Now, Recent)
    BY <1>2, <1>4, <1>6, <2>1, <2>4, SameTop
  <2>6. e = k /\ k # 0
    BY <1>2, <1>3, <2>5
  <2>7. read # <<>>
    BY <2>4
  <2> QED
    BY <2>6, <2>7 DEF QueryFailed
<1> QED
  BY <1>1, <1>5, <1>6

LEMMA Names == ASSUME IInv, [Next]_vars PROVE NamedIsTrue'
<1> NamedIsTrue
  BY DEF IInv
<1>1. ASSUME UNCHANGED <<log, damaged, named, cut>>, pc' \in {"send", "pause"} => pc \in {"send", "pause"}
      PROVE NamedIsTrue'
  BY <1>1 DEF NamedIsTrue
<1>2. ASSUME NEW t \in ReadTimes, Classify(t) PROVE NamedIsTrue'
  BY <1>2, ClassifyNames
<1>3. CASE Querying
  BY <1>3 DEF Querying, NamedIsTrue
<1>4. CASE Start \/ Answer \/ Stop \/ Shutdown \/ Load \/ SendInvalid \/ Sleep \/ Ended
  BY <1>1, <1>4 DEF Start, Answer, Stop, Shutdown, Take, Load, SendInvalid, Sleep, Ended, Return,
                    vars, input, notice, queryVars, progress
<1>5. ASSUME NEW c \in Controls, SendControl(c) PROVE NamedIsTrue'
  BY <1>1, <1>5 DEF SendControl, input, notice, queryVars, progress
<1>6. ASSUME NEW t \in SendTimes,
             SendTransportError(t) \/ \E answer \in Statuses : SendAnswered(t, answer)
      PROVE NamedIsTrue'
  BY <1>1, <1>6 DEF SendTransportError, SendAnswered, input, queryVars, progress
<1>7. CASE UNCHANGED vars
  BY <1>1, <1>7 DEF vars, input, notice, queryVars, progress
<1> QED
  BY <1>2, <1>3, <1>4, <1>5, <1>6, <1>7 DEF Next, Step

-----------------------------------------------------------------------------
(* The theorems.                                                           *)

\* The inductive invariant.
THEOREM Invariant == Spec => []IInv
<1>1. IInv /\ [Next]_vars => IInv'
  BY QuerySide, Types, Times, Accounts, Names DEF IInv
<1> QED
  BY Starts, <1>1, PTL DEF Spec

\* Types.
THEOREM TypeCorrect == Spec => []TypeOK
<1>1. IInv => TypeOK
  BY DEF IInv
<1> QED
  BY Invariant, <1>1, PTL

\* Whatever the batches, the limit and the damage, the query's result is the newest
\* readable entries in their order.
THEOREM QueryIsNewest == Spec => []ReadIsNewest
<1>1. IInv => ReadIsNewest
  BY DEF IInv, QueryInv
<1> QED
  BY Invariant, <1>1, PTL

\* An empty result without an error means that no entry matches.
THEOREM EmptyIsHonest == Spec => []EmptyIsTrue
<1>1. IInv => EmptyIsTrue
  BY EmptyMeansEmpty DEF IInv
<1> QED
  BY Invariant, <1>1, PTL

\* Where the worst case of two attempts fits into the announced time, the notice does.
THEOREM NoticeInTime == Spec => []InsideWaitHint
<1>1. IInv => InsideWaitHint
  <2> SUFFICES ASSUME IInv, WorstNotice <= WaitHint PROVE elapsed <= WaitHint
    BY DEF InsideWaitHint
  <2>1. elapsed <= WorstNotice /\ elapsed \in Nat
    BY DEF IInv, Time, TypeOK
  <2>2. WorstNotice \in Nat /\ WaitHint \in Nat
    BY NoticeAssumption DEF WorstNotice
  <2> QED
    BY <2>1, <2>2
<1> QED
  BY Invariant, <1>1, PTL

\* What the service or the command says of the notice is what became of it.
THEOREM NoticeIsHonest == Spec => []NoticeIsAccounted
<1>1. IInv => NoticeIsAccounted
  BY DEF IInv
<1> QED
  BY Invariant, <1>1, PTL

\* A shutdown is announced at most once more than answers were lost.
THEOREM AnnouncedOnce == Spec => []OneNotice
<1>1. IInv => OneNotice
  BY DEF IInv
<1> QED
  BY Invariant, <1>1, PTL

\* For every log, the notice names the request under way or none, and none only when
\* the query could not reach it.
THEOREM NamesTheRequest == Spec => []NamedIsTrue
<1>1. IInv => NamedIsTrue
  BY DEF IInv
<1> QED
  BY Invariant, <1>1, PTL


-----------------------------------------------------------------------------
(* That the notice is bounded: every step lessens what is ahead.           *)

\* The stages still ahead.
Stage ==
  CASE pc = "start" -> 5 [] pc = "wait" -> 4 [] pc = "load" -> 3 [] pc = "query" -> 2
    [] pc \in {"send", "pause"} -> 1 [] OTHER -> 0

\* The calls the query can still make: two for an entry, and those that frame them.
Calls ==
  CASE qpc = "open" -> 2 * entries + 3
    [] qpc = "next" -> 2 * (entries - pos) + 2
    [] qpc = "render" -> 2 * (entries - pos) + 1
    [] OTHER -> 0

\* The attempts and the pause between them.
Tries == CASE pc = "send" -> 3 - 2 * i [] pc = "pause" -> 2 [] OTHER -> 0

\* Stage and steps within it as one order.
Nearer ==
  \/ Stage' < Stage
  \/ Stage' = Stage /\ pc = "query" /\ pc' = "query" /\ Calls' < Calls
  \/ Stage' = Stage /\ pc \in {"send", "pause"} /\ Tries' < Tries

\* Nothing is counted below zero.
LEMMA Counted == ASSUME TypeOK PROVE Stage \in Nat /\ Calls \in Nat /\ Tries \in Nat
<1>1. Stage \in Nat
  BY DEF Stage
<1>2. entries \in Nat /\ pos \in 0 .. entries
  BY DEF TypeOK, QueryTypeOK
<1>3. Calls \in Nat
  BY <1>2 DEF Calls
<1>4. Tries \in Nat
  BY DEF Tries, TypeOK
<1> QED
  BY <1>1, <1>3, <1>4

\* Each step of the query lessens it: no batch is asked for without an entry to render.
LEMMA QueryAdvances == ASSUME QueryInv, QueryNext PROVE Calls' < Calls
<1>1. entries \in Nat /\ pos \in 0 .. entries /\ handles \in Nat
  BY DEF QueryInv, QueryTypeOK
<1>2. CASE Open
  BY <1>1, <1>2 DEF Open, Calls
<1>3. CASE CallFails
  BY <1>1, <1>3 DEF CallFails, Calls
<1>4. CASE NextBatch
  BY <1>1, <1>4 DEF NextBatch, Calls
<1>5. CASE NoMore
  BY <1>1, <1>5 DEF NoMore, Calls
<1>6. CASE Render
  <2>1. handles >= 1 /\ handles <= entries - pos
    BY <1>6 DEF Render, QueryInv, Loop
  <2>2. /\ qpc = "render" /\ qpc' \in {"render", "next", "done"}
        /\ pos' = pos + 1 /\ entries' = entries
    BY <1>6 DEF Render, AfterRender
  <2> QED
    BY <1>1, <2>1, <2>2 DEF Calls
<1> QED
  BY <1>2, <1>3, <1>4, <1>5, <1>6 DEF QueryNext

\* Each step of the handler and of the notice does, the answer to a request that is no
\* shutdown apart.
LEMMA StepAdvances == ASSUME IInv, Step, ~Answer PROVE Nearer
<1> TypeOK /\ QueryInv
  BY DEF IInv
<1>1. CASE Start \/ Stop \/ Shutdown
  BY <1>1 DEF Start, Stop, Shutdown, Take, Nearer, Stage
<1>2. CASE Load
  <2>1. pc = "load" /\ pc' \in {"query", "end"}
    BY <1>2 DEF Load, Return
  <2> QED
    BY <2>1 DEF Nearer, Stage
<1>3. CASE Querying
  BY <1>3, QueryAdvances DEF Querying, Nearer, Stage
<1>4. ASSUME NEW t \in ReadTimes, Classify(t) PROVE Nearer
  BY <1>4 DEF Classify, Nearer, Stage
<1>5. CASE SendInvalid
  BY <1>5 DEF SendInvalid, Return, Nearer, Stage
<1>6. ASSUME pc = "send", pc' = "end" \/ (~LastTry /\ i' = i /\ pc' = "pause") PROVE Nearer
  <2>1. i \in 0 .. 1
    BY DEF TypeOK
  <2> QED
    BY <1>6, <2>1 DEF Nearer, Stage, Tries, LastTry
<1>7. ASSUME NEW t \in SendTimes, SendTransportError(t) PROVE Nearer
  <2>1. pc = "send" /\ i' = i
    BY <1>7 DEF SendTransportError
  <2>2. IF LastTry THEN pc' = "end" ELSE pc' = "pause"
    BY <1>7 DEF SendTransportError, Return, Retry
  <2> QED
    BY <1>6, <2>1, <2>2
<1>8. ASSUME NEW t \in SendTimes, NEW answer \in Statuses, SendAnswered(t, answer) PROVE Nearer
  <2>1. pc = "send" /\ i' = i
    BY <1>8 DEF SendAnswered
  <2>2. pc' = "end" \/ (~LastTry /\ pc' = "pause")
    BY <1>8 DEF SendAnswered, Ends, Return, Retry
  <2> QED
    BY <1>6, <2>1, <2>2
<1>9. CASE Sleep
  <2>1. i \in 0 .. 1 /\ i' = i + 1 /\ pc = "pause" /\ pc' = "send"
    BY <1>9 DEF Sleep, TypeOK
  <2> QED
    BY <2>1 DEF Nearer, Stage, Tries
<1> QED
  BY <1>1, <1>2, <1>3, <1>4, <1>5, <1>7, <1>8, <1>9 DEF Step

\* From the service's start to its end every step of it takes it nearer to its end,
\* except the answer to a request that is no shutdown; a shutdown signal that waits is
\* taken by Shutdown and by nothing else, and a new request takes nothing back.  It is
\* what ShutdownIsNotHeldUp needs besides that the service goes on, for every log and
\* every batch.
THEOREM NoticeIsBounded ==
  Spec => [][/\ Step /\ ~Answer => Nearer
             /\ control \in ShutdownControls => Shutdown \/ control' = control
             /\ ~Step => UNCHANGED <<pc, notice, queryVars>>]_vars
<1> DEFINE Bounded ==
      /\ Step /\ ~Answer => Nearer
      /\ control \in ShutdownControls => Shutdown \/ control' = control
      /\ ~Step => UNCHANGED <<pc, notice, queryVars>>
<1>1. ASSUME IInv, [Next]_vars PROVE [Bounded]_vars
  <2>1. CASE Step
    <3>1. ~Answer => Nearer
      BY <1>1, <2>1, StepAdvances
    <3>2. control \in ShutdownControls => Shutdown \/ control' = control
      BY <2>1 DEF Step, Start, Answer, Stop, Load, Querying, Classify, SendInvalid,
                  SendTransportError, SendAnswered, Sleep, Take, Return, Retry, scm,
                  NoticeControls, ShutdownControls
    <3> QED
      BY <2>1, <3>1, <3>2
  <2>2. ASSUME NEW c \in Controls, SendControl(c), ~Step PROVE Bounded
    BY <2>2 DEF SendControl, ShutdownControls
  <2>3. CASE Ended
    BY <2>3 DEF Ended
  <2> HIDE DEF Bounded
  <2> QED
    BY <1>1, <2>1, <2>2, <2>3 DEF Next
<1> HIDE DEF Bounded
<1>2. Spec => [][Bounded]_vars
  BY <1>1, Invariant, PTL DEF Spec
<1> QED
  BY <1>2 DEF Bounded

=============================================================================
