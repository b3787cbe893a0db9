--------------------------- MODULE SessionsProofs ---------------------------
(***************************************************************************)
(* The machine's log and what internal/detect says of it, for any number   *)
(* of sessions.                                                            *)
(*                                                                         *)
(* Whatever the clock is set to, PendingShutdown goes by the order of the  *)
(* log and names the request of the session that is running, and Latest    *)
(* measures the session before it between the right two boots, unless a    *)
(* boot's own 6005 is stamped before the boot.  As long as nothing steps   *)
(* the clock, the category, the downtime and the failure that Latest       *)
(* reports are those of the session that has just ended.                   *)
(***************************************************************************)
EXTENDS Sessions, DetectProofs, SequenceTheorems

Events == {12, 13, 41, 1074, 6005, 6006, 6008}
Data == Requests \cup {Code({}), Code({"bugcheck"})}
Records == [event : Events, own : {TRUE}, at : Nat, data : Data, of : Sessions]

\* Types, and what the log and the session have in common.
Types ==
  /\ clock \in Nat /\ started \in Nat /\ began \in Int /\ stopped \in Nat
  /\ up \in BOOLEAN /\ session \in 0 .. MaxBoots 
  /\ up => session > 0
  /\ ~up => session < MaxBoots
  /\ owed \subseteq {12, 6005, 6008, 41}
  /\ request \in Requests \cup {NoRequest}
  /\ failed \in {"no", "power", "crash"}
  /\ cause \in [Sessions -> Categories]
  /\ log \in Seq(Records)

IsAsked(r) == r.event = 1074

\* The log is written session by session.
Ordered ==
  /\ \A k \in DOMAIN log : log[k].of <= session
  /\ \A j, k \in DOMAIN log : j < k => log[k].of <= log[j].of

\* A session's request is its only one and is above its markers; one that is running
\* has paid what it owed before it was asked.
Single ==
  /\ \A j, k \in DOMAIN log :
       IsAsked(log[j]) /\ IsAsked(log[k]) /\ log[j].of = log[k].of => j = k
  /\ \A j, k \in DOMAIN log :
       IsBootMarker(log[j]) /\ IsAsked(log[k]) /\ log[j].of = log[k].of => k < j
  /\ \A k \in DOMAIN log :
       IsAsked(log[k]) /\ log[k].of = session => owed = {} /\ request # NoRequest

\* A session that no longer owes a marker has written it.
Marked ==
  up /\ {12, 6005} \ owed # {} =>
    \E k \in DOMAIN log : log[k].of = session /\ IsBootMarker(log[k])

IInv == Types /\ Ordered /\ Single /\ Marked

-----------------------------------------------------------------------------
\* The later of two moments is one of them and before neither.
LEMMA LaterIs ==
  ASSUME Types, NEW d \in Nat
  PROVE  Later(d) \in Nat /\ Later(d) >= clock + d /\ Later(d) >= began + MinSession
<1>1. clock + d \in Nat /\ began + MinSession \in Int
  BY TimeAssumption DEF Types
<1> DEFINE a == clock + d
           b == began + MinSession
<1>2. \E x \in {a, b} : \A y \in {a, b} : x >= y
  BY <1>1
<1>3. Later(d) = CHOOSE x \in {a, b} : \A y \in {a, b} : x >= y
  BY DEF Later, Max
<1> HIDE DEF a, b
<1>4. Later(d) \in {a, b} /\ Later(d) >= a /\ Later(d) >= b
  BY <1>2, <1>3
<1> QED
  BY <1>1, <1>4 DEF a, b

\* What is written goes on top of the log.
LEMMA OnTop ==
  ASSUME Types, NEW new \in Seq(Records), log' = new \o log
  PROVE  /\ log' \in Seq(Records)
         /\ Len(new) \in Nat /\ DOMAIN new = 1 .. Len(new)
         /\ Len(log) \in Nat /\ DOMAIN log = 1 .. Len(log)
         /\ DOMAIN log' = 1 .. (Len(new) + Len(log))
         /\ \A k \in DOMAIN new : log'[k] = new[k]
         /\ \A k \in DOMAIN log' : k > Len(new) =>
              k - Len(new) \in DOMAIN log /\ log'[k] = log[k - Len(new)]
<1>1. log \in Seq(Records)
  BY DEF Types
<1>2. Len(new) \in Nat /\ DOMAIN new = 1 .. Len(new) /\ Len(log) \in Nat /\ DOMAIN log = 1 .. Len(log)
  BY <1>1
<1>3. log' \in Seq(Records) /\ Len(log') = Len(new) + Len(log)
      /\ \A k \in 1 .. Len(new) + Len(log) :
           log'[k] = IF k <= Len(new) THEN new[k] ELSE log[k - Len(new)]
  BY <1>1, ConcatProperties
<1>4. DOMAIN log' = 1 .. (Len(new) + Len(log))
  BY <1>3
<1> QED
  BY <1>2, <1>3, <1>4

\* A session's records go on top of what it and the earlier ones have written.
LEMMA OrderedOnTop ==
  ASSUME Types, Ordered, NEW new \in Seq(Records), log' = new \o log, session' = session,
         \A k \in DOMAIN new : new[k].of = session
  PROVE  Ordered'
<1>1. /\ Len(new) \in Nat /\ DOMAIN new = 1 .. Len(new)
      /\ Len(log) \in Nat /\ DOMAIN log = 1 .. Len(log)
      /\ DOMAIN log' = 1 .. (Len(new) + Len(log))
      /\ \A k \in DOMAIN new : log'[k] = new[k]
      /\ \A k \in DOMAIN log' : k > Len(new) =>
           k - Len(new) \in DOMAIN log /\ log'[k] = log[k - Len(new)]
  BY OnTop
<1>2. session \in Nat
  BY TimeAssumption DEF Types
<1>3. \A k \in DOMAIN log' : log'[k].of <= session /\ (k <= Len(new) => log'[k].of = session)
  <2> SUFFICES ASSUME NEW k \in DOMAIN log'
               PROVE log'[k].of <= session /\ (k <= Len(new) => log'[k].of = session)
    OBVIOUS
  <2>1. CASE k <= Len(new)
    <3>1. k \in DOMAIN new
      BY <1>1, <2>1
    <3>2. log'[k].of = session
      BY <1>1, <3>1
    <3> QED
      BY <1>2, <3>2
  <2>2. CASE k > Len(new)
    BY <1>1, <2>2 DEF Ordered
  <2> QED
    BY <1>1, <2>1, <2>2
<1>4. ASSUME NEW j \in DOMAIN log', NEW k \in DOMAIN log', j < k PROVE log'[k].of <= log'[j].of
  <2>1. CASE j <= Len(new)
    BY <1>3, <2>1
  <2>2. CASE j > Len(new)
    <3>1. k > Len(new) /\ j - Len(new) < k - Len(new)
      BY <1>1, <1>4, <2>2
    <3> QED
      BY <1>1, <2>2, <3>1 DEF Ordered
  <2> QED
    BY <1>1, <2>1, <2>2
<1> QED
  BY <1>3, <1>4 DEF Ordered

\* New records keep a session's request single and above its markers: a request is
\* written alone, and neither it nor a marker follows a request of the session.
LEMMA SingleOnTop ==
  ASSUME Types, Ordered, Single, NEW new \in Seq(Records), log' = new \o log, session' = session,
         \A k \in DOMAIN new : new[k].of = session,
         \A k \in DOMAIN new : IsAsked(new[k]) => Len(new) = 1 /\ owed' = {} /\ request' # NoRequest,
         \A k \in DOMAIN new, j \in DOMAIN log :
           IsAsked(new[k]) \/ IsBootMarker(new[k]) => ~(IsAsked(log[j]) /\ log[j].of = session),
         \A j \in DOMAIN log :
           IsAsked(log[j]) /\ log[j].of = session => owed' = owed /\ request' = request
  PROVE  Single'
<1> DEFINE n == Len(new)
<1>1. /\ n \in Nat /\ DOMAIN new = 1 .. n
      /\ Len(log) \in Nat /\ DOMAIN log = 1 .. Len(log)
      /\ DOMAIN log' = 1 .. (n + Len(log))
      /\ \A k \in DOMAIN new : log'[k] = new[k]
      /\ \A k \in DOMAIN log' : k > n => k - n \in DOMAIN log /\ log'[k] = log[k - n]
  BY OnTop
<1>2. \A k \in DOMAIN log' : k <= n => k \in DOMAIN new
  BY <1>1
<1> HIDE DEF n
<1>3. ASSUME NEW k \in DOMAIN log', IsAsked(log'[k]), log'[k].of = session
      PROVE owed' = {} /\ request' # NoRequest
  <2>1. CASE k <= n
    BY <1>1, <1>2, <1>3, <2>1
  <2>2. CASE k > n
    <3>1. k - n \in DOMAIN log /\ IsAsked(log[k - n]) /\ log[k - n].of = session
      BY <1>1, <1>3, <2>2
    <3> QED
      BY <3>1 DEF Single
  <2> QED
    BY <1>1, <2>1, <2>2
<1>4. ASSUME NEW j \in DOMAIN log', NEW k \in DOMAIN log', j > n, k <= n,
             IsAsked(log'[j]), IsAsked(log'[k]) \/ IsBootMarker(log'[k]),
             log'[j].of = log'[k].of
      PROVE FALSE
  <2>1. k \in DOMAIN new /\ log'[k] = new[k] /\ j - n \in DOMAIN log /\ log'[j] = log[j - n]
    BY <1>1, <1>2, <1>4
  <2> QED
    BY <1>4, <2>1
<1>5. ASSUME NEW j \in DOMAIN log', NEW k \in DOMAIN log',
             IsAsked(log'[j]), IsAsked(log'[k]), log'[j].of = log'[k].of
      PROVE j = k
  <2>1. CASE j > n /\ k > n
    <3>1. j - n = k - n
      BY <1>1, <1>5, <2>1 DEF Single
    <3> QED
      BY <1>1, <2>1, <3>1
  <2>2. CASE j <= n /\ k <= n
    <3>1. n = 1
      BY <1>1, <1>2, <1>5, <2>2 DEF n
    <3> QED
      BY <1>1, <2>2, <3>1
  <2> QED
    BY <1>1, <1>4, <1>5, <2>1, <2>2
<1>6. ASSUME NEW j \in DOMAIN log', NEW k \in DOMAIN log',
             IsBootMarker(log'[j]), IsAsked(log'[k]), log'[j].of = log'[k].of
      PROVE k < j
  <2>1. CASE j > n /\ k > n
    <3>1. k - n < j - n
      BY <1>1, <1>6, <2>1 DEF Single
    <3> QED
      BY <1>1, <2>1, <3>1
  <2>2. CASE j <= n /\ k <= n
    <3>1. n = 1
      BY <1>1, <1>2, <1>6, <2>2 DEF n
    <3>2. j = k
      BY <1>1, <2>2, <3>1
    <3> QED
      BY <1>6, <3>2 DEF IsAsked, IsBootMarker, IsOsStart, IsLogStart
  <2>3. CASE j > n /\ k <= n
    BY <1>1, <2>3
  <2> QED
    BY <1>1, <1>4, <1>6, <2>1, <2>2, <2>3
<1> QED
  BY <1>3, <1>5, <1>6 DEF Single

\* A marker stays, and what is no longer owed has just been written.
LEMMA MarkedOnTop ==
  ASSUME Types, Marked, NEW new \in Seq(Records), log' = new \o log, session' = session,
         up' => up,
         {12, 6005} \ owed' # {} =>
           \/ {12, 6005} \ owed # {}
           \/ \E k \in DOMAIN new : new[k].of = session /\ IsBootMarker(new[k])
  PROVE  Marked'
<1>1. /\ Len(new) \in Nat /\ DOMAIN new = 1 .. Len(new)
      /\ Len(log) \in Nat /\ DOMAIN log = 1 .. Len(log)
      /\ DOMAIN log' = 1 .. (Len(new) + Len(log))
      /\ \A k \in DOMAIN new : log'[k] = new[k]
      /\ \A k \in DOMAIN log' : k > Len(new) =>
           k - Len(new) \in DOMAIN log /\ log'[k] = log[k - Len(new)]
  BY OnTop
<1> SUFFICES ASSUME up', {12, 6005} \ owed' # {}
             PROVE  \E k \in DOMAIN log' : log'[k].of = session /\ IsBootMarker(log'[k])
  BY DEF Marked
<1>2. CASE \E k \in DOMAIN new : new[k].of = session /\ IsBootMarker(new[k])
  <2>1. PICK k \in DOMAIN new : new[k].of = session /\ IsBootMarker(new[k])
    BY <1>2
  <2>2. k \in DOMAIN log' /\ log'[k] = new[k]
    BY <1>1
  <2> QED
    BY <2>1, <2>2
<1>3. CASE {12, 6005} \ owed # {}
  <2>1. PICK k \in DOMAIN log : log[k].of = session /\ IsBootMarker(log[k])
    BY <1>3 DEF Marked
  <2>2. k + Len(new) \in DOMAIN log' /\ k + Len(new) > Len(new) /\ k + Len(new) - Len(new) = k
    BY <1>1
  <2>3. log'[k + Len(new)] = log[k]
    BY <1>1, <2>2
  <2> QED
    BY <2>1, <2>2, <2>3
<1> QED
  BY <1>2, <1>3


-----------------------------------------------------------------------------
(* The steps.                                                              *)

LEMMA Starts == Init => IInv
<1> SUFFICES ASSUME Init PROVE IInv
  OBVIOUS
<1>1. log = <<>> /\ DOMAIN log = {} /\ <<>> \in Seq(Records)
  BY DEF Init
<1>2. Types
  <2>1. cause \in [Sessions -> Categories]
    BY DEF Init, Categories
  <2>2. session \in 0 .. MaxBoots /\ session < MaxBoots /\ ~up
    BY TimeAssumption DEF Init
  <2>3. log \in Seq(Records)
    BY <1>1
  <2>4. clock \in Nat /\ started \in Nat /\ began \in Int /\ stopped \in Nat
    BY DEF Init
  <2>7. up \in BOOLEAN
    BY DEF Init
  <2>5. owed \subseteq {12, 6005, 6008, 41} /\ failed \in {"no", "power", "crash"}
    BY DEF Init
  <2>6. request \in Requests \cup {NoRequest}
    <3>1. request = NoRequest
      BY DEF Init
    <3> QED
      BY <3>1
  <2> QED
    BY <2>1, <2>2, <2>3, <2>4, <2>5, <2>6, <2>7 DEF Types
<1>3. Ordered /\ Single
  BY <1>1 DEF Ordered, Single
<1>4. Marked
  BY DEF Init, Marked
<1> QED
  BY <1>2, <1>3, <1>4 DEF IInv

\* The start of a session.
LEMMA BootKeeps == ASSUME IInv, NEW d \in Downtimes, Boot(d) PROVE IInv'
<1>1. session \in 0 .. MaxBoots /\ session < MaxBoots /\ session + 1 \in Sessions
      /\ session' = session + 1 /\ up' = TRUE /\ log' = log
  BY TimeAssumption DEF IInv, Types, Boot, Sessions
<1>2. Ended \in Categories
  BY RequestAssumption DEF IInv, Types, Ended, Categories
<1>3. Types'
  <2>1. cause' \in [Sessions -> Categories]
    <3>1. cause \in [Sessions -> Categories] /\ cause' = [cause EXCEPT ![session + 1] = Ended]
      BY DEF Boot, IInv, Types
    <3>2. session + 1 \in Sessions
      BY <1>1
    <3> HIDE DEF IInv, Boot
    <3> QED
      BY <1>2, <3>1, <3>2
  <2>2. clock' \in Nat /\ started' \in Nat /\ began' \in Int
    BY TimeAssumption DEF Boot, IInv, Types
  <2>3. owed' \subseteq {12, 6005, 6008, 41}
    BY DEF Boot
  <2>4. UNCHANGED <<stopped, failed, log>> /\ request' = NoRequest
    BY DEF Boot
  <2>5. session' \in 0 .. MaxBoots /\ session' > 0
    BY <1>1, TimeAssumption
  <2> QED
    BY <1>1, <2>1, <2>2, <2>3, <2>4, <2>5 DEF IInv, Types
<1>4. \A k \in DOMAIN log : log[k].of \in Nat /\ log[k].of <= session
  <2> TAKE k \in DOMAIN log
  <2>1. log[k] \in Records
    <3>1. log \in Seq(Records)
      BY DEF IInv, Types
    <3> QED
      BY <3>1
  <2>2. log[k].of \in 1 .. MaxBoots
    BY <2>1 DEF Records, Sessions
  <2>3. log[k].of <= session
    BY DEF IInv, Ordered
  <2> QED
    BY <2>2, <2>3, TimeAssumption
<1>5. Ordered'
  <2>1. \A k \in DOMAIN log : log[k].of <= session + 1
    BY <1>1, <1>4
  <2> QED
    BY <1>1, <2>1 DEF IInv, Ordered
<1>6. Single'
  <2>1. \A k \in DOMAIN log : log[k].of # session + 1
    BY <1>1, <1>4
  <2> QED
    BY <1>1, <2>1 DEF IInv, Single
<1>7. Marked'
  <2>1. {12, 6005} \ owed' = {}
    BY DEF Boot
  <2> QED
    BY <2>1 DEF Marked
<1> QED
  BY <1>3, <1>5, <1>6, <1>7 DEF IInv

\* A list of one record of the running session.
LEMMA OneRecord ==
  ASSUME Types, up, NEW event \in Events, NEW at \in Nat, NEW data \in Data,
         NEW r, r = Record(event, at, data)
  PROVE  /\ r.event = event /\ r.own /\ r.of = session
         /\ <<r>> \in Seq(Records) /\ Len(<<r>>) = 1
         /\ DOMAIN <<r>> = {1} /\ <<r>>[1] = r
<1>1. r \in Records /\ r.event = event /\ r.own /\ r.of = session
  BY DEF Types, Record, Records, Sessions
<1> QED
  BY <1>1

\* The records of a start-up: no request has been written yet.
LEMMA StartUpKeeps ==
  ASSUME IInv, up, NEW event \in {12, 41, 6005, 6008}, event \in owed, NEW at \in Nat,
         NEW data \in Data, log' = <<Record(event, at, data)>> \o log, owed' = owed \ {event},
         clock' \in Nat,
         UNCHANGED <<up, session, started, began, request, stopped, failed, cause>>
  PROVE  IInv'
<1>a. PICK r \in {Record(event, at, data)} : r = Record(event, at, data)
  OBVIOUS
<1>b. PICK new : new = <<r>>
  OBVIOUS
<1>0. Types /\ Ordered /\ Single /\ Marked
  BY DEF IInv
<1>1. event \in Events
  BY DEF Events
<1>2. r.event = event /\ r.of = session /\ new \in Seq(Records) /\ Len(new) = 1
      /\ DOMAIN new = {1} /\ new[1] = r
  BY <1>a, <1>b, <1>0, <1>1, OneRecord
<1>3. log' = new \o log /\ session' = session /\ up' = up /\ request' = request
  BY <1>a, <1>b
<1>4. \A k \in DOMAIN new : new[k].of = session /\ new[k].event = event
  BY <1>2
<1>5. log' \in Seq(Records)
  <2>1. log \in Seq(Records)
    BY <1>0 DEF Types
  <2>2. new \o log \in Seq(Records)
    BY <1>2, <2>1, ConcatProperties
  <2> QED
    BY <1>3, <2>2
<1>6. Types'
  BY <1>0, <1>5 DEF Types
<1>7. Ordered'
  BY <1>0, <1>2, <1>3, <1>4, OrderedOnTop
<1>8. Single'
  <2>1. \A j \in DOMAIN log : ~(IsAsked(log[j]) /\ log[j].of = session)
    BY <1>0 DEF Single
  <2>2. \A k \in DOMAIN new : ~IsAsked(new[k])
    BY <1>4 DEF IsAsked
  <2>3. /\ Types /\ Ordered /\ Single /\ new \in Seq(Records) /\ log' = new \o log
        /\ session' = session /\ \A k \in DOMAIN new : new[k].of = session
    BY <1>0, <1>2, <1>3, <1>4
  <2>4. \A k \in DOMAIN new : IsAsked(new[k]) => Len(new) = 1 /\ owed' = {} /\ request' # NoRequest
    BY <2>2
  <2>5. \A k \in DOMAIN new, j \in DOMAIN log :
          IsAsked(new[k]) \/ IsBootMarker(new[k]) => ~(IsAsked(log[j]) /\ log[j].of = session)
    BY <2>1
  <2>6. \A j \in DOMAIN log :
          IsAsked(log[j]) /\ log[j].of = session => owed' = owed /\ request' = request
    BY <2>1
  <2> QED
    BY <2>3, <2>4, <2>5, <2>6, SingleOnTop, SMTT(60)
<1>9. {12, 6005} \ owed' # {} =>
        \/ {12, 6005} \ owed # {}
        \/ \E k \in DOMAIN new : new[k].of = session /\ IsBootMarker(new[k])
  <2>1. CASE event \in {12, 6005}
    <3>1. r.own
      BY <1>a DEF Record
    <3>2. IsBootMarker(new[1]) /\ new[1].of = session
      BY <1>2, <2>1, <3>1 DEF IsBootMarker, IsOsStart, IsLogStart
    <3> QED
      BY <1>2, <3>2
  <2>2. CASE event \notin {12, 6005}
    BY <2>2
  <2> QED
    BY <2>1, <2>2
<1>10. Marked'
  BY <1>0, <1>2, <1>3, <1>9, MarkedOnTop
<1> QED
  BY <1>6, <1>7, <1>8, <1>10 DEF IInv

LEMMA WriteKernelKeeps == ASSUME IInv, NEW event \in {12, 41}, WriteKernel(event) PROVE IInv'
<1>1. PICK data \in Data : log' = <<Record(event, started, data)>> \o log
  BY DEF WriteKernel, Data
<1>2. started \in Nat /\ clock' \in Nat /\ up /\ event \in owed /\ event \in {12, 41, 6005, 6008}
      /\ owed' = owed \ {event}
      /\ UNCHANGED <<up, session, started, began, request, stopped, failed, cause>>
  BY DEF WriteKernel, IInv, Types
<1>3. PICK at \in Nat : at = started
  BY <1>2
<1>4. log' = <<Record(event, at, data)>> \o log
  BY <1>1, <1>3
<1> QED
  BY <1>2, <1>4, StartUpKeeps, SMTT(60)

LEMMA WriteServiceKeeps ==
  ASSUME IInv, NEW event \in {6005, 6008}, NEW d \in Lags, WriteService(event, d) PROVE IInv'
<1>1. Code({}) \in Data
  BY DEF Data
<1>2. clock + d \in Nat
  BY TimeAssumption DEF IInv, Types
<1>3. log' = <<Record(event, clock + d, Code({}))>> \o log /\ clock' \in Nat /\ up /\ event \in owed
      /\ event \in {12, 41, 6005, 6008} /\ owed' = owed \ {event}
      /\ UNCHANGED <<up, session, started, began, request, stopped, failed, cause>>
  BY <1>2 DEF WriteService
<1>4. PICK at \in Nat : at = clock + d
  BY <1>2
<1>5. PICK data \in Data : data = Code({})
  BY <1>1
<1>6. log' = <<Record(event, at, data)>> \o log
  BY <1>3, <1>4, <1>5
<1> QED
  BY <1>3, <1>6, StartUpKeeps, SMTT(60)

\* The request is the session's first and everything owed is written.
LEMMA AskKeeps ==
  ASSUME IInv, NEW q \in Requests, NEW d \in Uptimes \cup Closings, Ask(q, d) PROVE IInv'
<1>0. Types /\ Ordered /\ Single /\ Marked
  BY DEF IInv
<1>1. Later(d) \in Nat
  BY <1>0, LaterIs, TimeAssumption
<1>2. PICK at \in Nat : at = Later(d)
  BY <1>1
<1>3. /\ up /\ owed = {} /\ request = NoRequest /\ clock' = at /\ request' = q
      /\ log' = <<Record(1074, at, q)>> \o log
      /\ UNCHANGED <<up, session, started, began, owed, stopped, failed, cause>>
  BY <1>2 DEF Ask, Goes
<1>4. q \in Data /\ 1074 \in Events /\ q # NoRequest
  BY RequestAssumption DEF Data, Events
<1>5. PICK r \in {Record(1074, at, q)} : r = Record(1074, at, q)
  OBVIOUS
<1>6. PICK new : new = <<r>>
  OBVIOUS
<1>7. r.event = 1074 /\ r.of = session /\ new \in Seq(Records) /\ Len(new) = 1
      /\ DOMAIN new = {1} /\ new[1] = r
  BY <1>0, <1>3, <1>4, <1>5, <1>6, OneRecord
<1>8. log' = new \o log /\ session' = session /\ up' = up
  BY <1>3, <1>5, <1>6
<1>9. Types'
  <2>1. new \o log \in Seq(Records)
    BY <1>0, <1>7, ConcatProperties DEF Types
  <2>2. log' \in Seq(Records)
    BY <1>8, <2>1
  <2> QED
    BY <1>0, <1>2, <1>3, <2>2 DEF Types
<1>10. \A k \in DOMAIN new : new[k].of = session
  BY <1>7
<1>11. Ordered'
  BY <1>0, <1>7, <1>8, <1>10, OrderedOnTop, SMTT(60)
<1>12. Single'
  <2>1. \A j \in DOMAIN log : ~(IsAsked(log[j]) /\ log[j].of = session)
    BY <1>0, <1>3 DEF Single
  <2>2. \A k \in DOMAIN new : IsAsked(new[k]) => Len(new) = 1 /\ owed' = {} /\ request' # NoRequest
    BY <1>3, <1>4, <1>7
  <2>3. \A k \in DOMAIN new, j \in DOMAIN log :
          IsAsked(new[k]) \/ IsBootMarker(new[k]) => ~(IsAsked(log[j]) /\ log[j].of = session)
    BY <2>1
  <2>4. \A j \in DOMAIN log :
          IsAsked(log[j]) /\ log[j].of = session => owed' = owed /\ request' = request
    BY <2>1
  <2> QED
    BY <1>0, <1>7, <1>8, <1>10, <2>2, <2>3, <2>4, SingleOnTop, SMTT(60)
<1>13. Marked'
  BY <1>0, <1>3, <1>7, <1>8, MarkedOnTop, SMTT(60)
<1> QED
  BY <1>9, <1>11, <1>12, <1>13 DEF IInv

\* The records of a clean stop.
LEMMA StopKeeps ==
  ASSUME IInv, NEW events \in StopRecords, NEW d \in Uptimes \cup Closings, Stop(events, d)
  PROVE  IInv'
<1>0. Types /\ Ordered /\ Single /\ Marked
  BY DEF IInv
<1>1. Later(d) \in Nat
  BY <1>0, LaterIs, TimeAssumption
<1>2. PICK at \in Nat : at = Later(d)
  BY <1>1
<1>3. /\ up /\ up' = FALSE /\ owed = {} /\ session < MaxBoots /\ clock' = at /\ stopped' = at /\ failed' = "no"
      /\ log' = [k \in DOMAIN events |-> Record(events[k], at, Code({}))] \o log
      /\ UNCHANGED <<session, started, began, owed, request, cause>>
  BY <1>2 DEF Stop, Goes
<1>4. PICK new \in {[k \in DOMAIN events |-> Record(events[k], at, Code({}))]} :
        new = [k \in DOMAIN events |-> Record(events[k], at, Code({}))]
  OBVIOUS
<1>5. Len(events) \in Nat /\ DOMAIN events = 1 .. Len(events)
      /\ \A k \in DOMAIN events : events[k] \in {13, 6006}
  <2>1. events \in {<<13, 6006>>, <<13>>, <<6006>>}
    BY TimeAssumption
  <2> QED
    BY <2>1
<1>6. \A k \in DOMAIN events : Record(events[k], at, Code({})) \in Records
  <2> TAKE k \in DOMAIN events
  <2>1. PICK event \in Events : event = events[k]
    BY <1>5 DEF Events
  <2>2. Code({}) \in Data
    BY DEF Data
  <2>3. PICK data \in Data : data = Code({})
    BY <2>2
  <2>4. Record(event, at, data) \in Records
    BY <1>0, <1>3 DEF Types, Record, Records, Sessions
  <2> QED
    BY <2>1, <2>3, <2>4
<1>7. new \in Seq(Records)
  BY <1>4, <1>5, <1>6
<1>8. \A k \in DOMAIN new : new[k].of = session /\ new[k].event \in {13, 6006}
  BY <1>4, <1>5 DEF Record
<1>9. log' = new \o log /\ session' = session
  BY <1>3, <1>4
<1>10. Types'
  <2>1. new \o log \in Seq(Records)
    BY <1>0, <1>7, ConcatProperties DEF Types
  <2>2. log' \in Seq(Records)
    BY <1>9, <2>1
  <2>3. clock' \in Nat /\ stopped' \in Nat /\ failed' \in {"no", "power", "crash"}
    BY <1>2, <1>3
  <2>4. UNCHANGED <<session, started, began, owed, request, cause>> /\ session < MaxBoots /\ up' = FALSE
    BY <1>3
  <2>5. up' \in BOOLEAN /\ (up' => session' > 0) /\ (~up' => session' < MaxBoots)
    <3>1. up' = FALSE /\ session' < MaxBoots
      BY <2>4
    <3> QED
      BY <3>1, Zenon
  <2>6. /\ started' \in Nat /\ began' \in Int /\ session' \in 0 .. MaxBoots /\ owed' \subseteq {12, 6005, 6008, 41}
        /\ request' \in Requests \cup {NoRequest} /\ cause' \in [Sessions -> Categories]
    BY <1>0, <2>4 DEF Types
  <2> QED
    BY <2>2, <2>3, <2>5, <2>6 DEF Types
<1>11. Ordered'
  <2>1. \A k \in DOMAIN new : new[k].of = session
    BY <1>8
  <2> QED
    BY <1>0, <1>7, <1>9, <2>1, OrderedOnTop, SMTT(60)
<1>12. Single'
  <2>1. \A k \in DOMAIN new : ~IsAsked(new[k]) /\ ~IsBootMarker(new[k])
    BY <1>8 DEF IsAsked, IsBootMarker, IsOsStart, IsLogStart
  <2>2. \A k \in DOMAIN new : new[k].of = session
    BY <1>8
  <2>3. \A k \in DOMAIN new : IsAsked(new[k]) => Len(new) = 1 /\ owed' = {} /\ request' # NoRequest
    BY <2>1
  <2>4. \A k \in DOMAIN new, j \in DOMAIN log :
          IsAsked(new[k]) \/ IsBootMarker(new[k]) => ~(IsAsked(log[j]) /\ log[j].of = session)
    BY <2>1
  <2>5. \A j \in DOMAIN log :
          IsAsked(log[j]) /\ log[j].of = session => owed' = owed /\ request' = request
    BY <1>3
  <2> QED
    BY <1>0, <1>7, <1>9, <2>2, <2>3, <2>4, <2>5, SingleOnTop, SMTT(60)
<1>13. Marked'
  BY <1>3 DEF Marked
<1> QED
  BY <1>10, <1>11, <1>12, <1>13 DEF IInv

-----------------------------------------------------------------------------
(* The theorems.                                                           *)

LEMMA StepKeeps == ASSUME IInv, [Next]_vars PROVE IInv'
<1>1. ASSUME IInv, Next PROVE IInv'
  <2>1. ASSUME NEW d \in Downtimes, Boot(d) PROVE IInv'
    BY <1>1, <2>1, BootKeeps
  <2>2. ASSUME NEW event \in {12, 41}, WriteKernel(event) PROVE IInv'
    BY <1>1, <2>2, WriteKernelKeeps
  <2>3. ASSUME NEW event \in {6005, 6008}, NEW d \in Lags, WriteService(event, d) PROVE IInv'
    BY <1>1, <2>3, WriteServiceKeeps
  <2>4. ASSUME NEW d \in Uptimes \cup Closings, NEW r \in Requests, Ask(r, d) PROVE IInv'
    BY <1>1, <2>4, AskKeeps
  <2>5. ASSUME NEW d \in Uptimes \cup Closings, NEW events \in StopRecords, Stop(events, d)
        PROVE IInv'
    BY <1>1, <2>5, StopKeeps
  <2>6. ASSUME NEW d \in Uptimes \cup Closings, NEW how \in {"power", "crash"}, Fail(how, d)
        PROVE IInv'
    <3>1. Later(d) \in Nat
      BY <1>1, LaterIs, TimeAssumption DEF IInv
    <3>2. /\ up' = FALSE /\ session < MaxBoots /\ clock' = Later(d) /\ stopped' = 0 /\ failed' = how
          /\ UNCHANGED <<session, started, began, owed, request, cause, log>>
      BY <2>6 DEF Fail, Goes
    <3>3. clock' \in Nat /\ stopped' \in Nat /\ failed' \in {"no", "power", "crash"}
      BY <3>1, <3>2
    <3>4. Types'
      <4>1. up' \in BOOLEAN /\ (up' => session' > 0) /\ (~up' => session' < MaxBoots)
        <5>1. up' = FALSE /\ session' < MaxBoots
          BY <3>2
        <5> QED
          BY <5>1, Zenon
      <4>2. /\ started' \in Nat /\ began' \in Int /\ session' \in 0 .. MaxBoots /\ owed' \subseteq {12, 6005, 6008, 41}
            /\ request' \in Requests \cup {NoRequest} /\ cause' \in [Sessions -> Categories]
            /\ log' \in Seq(Records)
        BY <1>1, <3>2 DEF IInv, Types
      <4> QED
        BY <3>3, <4>1, <4>2 DEF Types
    <3> QED
      BY <1>1, <3>2, <3>4 DEF IInv, Ordered, Single, Marked
  <2>7. ASSUME NEW s \in Steps, StepClock(s) PROVE IInv'
    <3>1. clock' \in Nat /\ began' \in Int
      BY <1>1, <2>7, TimeAssumption DEF StepClock, IInv, Types
    <3>2. UNCHANGED <<up, session, started, owed, request, stopped, failed, cause, log>>
      BY <2>7 DEF StepClock
    <3>3. Types'
      BY <1>1, <3>1, <3>2 DEF IInv, Types
    <3> QED
      BY <1>1, <3>2, <3>3 DEF IInv, Ordered, Single, Marked
  <2>8. ASSUME Over PROVE IInv'
    BY <1>1, <2>8 DEF Over, vars, IInv, Types, Ordered, Single, Marked
  <2> QED
    BY <1>1, <2>1, <2>2, <2>3, <2>4, <2>5, <2>6, <2>7, <2>8 DEF Next
<1>2. ASSUME IInv, UNCHANGED vars PROVE IInv'
  BY <1>2 DEF vars, IInv, Types, Ordered, Single, Marked
<1> QED
  BY <1>1, <1>2

\* Sessions, their requests and their markers are in order, whatever the clock shows.
THEOREM Invariant == Spec => []IInv
<1> QED
  BY Starts, StepKeeps, PTL DEF Spec

\* Every record is one of Windows' and a boot's category is one of the notify_on
\* vocabulary, whatever is in the log.
THEOREM TypeCorrect == Spec => []TypeOK
<1>1. ASSUME IInv PROVE TypeOK
  <2>1. \A k \in DOMAIN log : log[k].of \in 1 .. session
    <3> TAKE k \in DOMAIN log
    <3>1. log[k] \in Records
      BY <1>1, ElementOfSeq DEF IInv, Types
    <3>2. log[k].of \in 1 .. MaxBoots /\ log[k].of <= session
      BY <1>1, <3>1 DEF IInv, Ordered, Records, Sessions
    <3> QED
      BY <1>1, <3>2, TimeAssumption DEF IInv, Types
  <2>2. Category(log) \in Categories
    <3>1. \A r : RequestCategory(r) \in Categories
      BY DEF RequestCategory, Categories
    <3> QED
      BY <3>1 DEF Category, Categories
  <2> QED
    BY <1>1, <2>1, <2>2 DEF IInv, Types, TypeOK
<1> QED
  BY <1>1, Invariant, PTL

\* A log's indices and what its requests are.
LEMMA Asked ==
  ASSUME Types
  PROVE  /\ DOMAIN log \subseteq Nat \ {0}
         /\ \A k \in DOMAIN log : /\ log[k].of \in Nat /\ log[k].at \in Nat
                                  /\ IsShutdownRequest(log[k]) <=> IsAsked(log[k])
<1>1. log \in Seq(Records)
  BY DEF Types
<1>2. DOMAIN log \subseteq Nat \ {0}
  BY <1>1
<1>3. ASSUME NEW k \in DOMAIN log
      PROVE  /\ log[k].of \in Nat /\ log[k].at \in Nat
             /\ IsShutdownRequest(log[k]) <=> IsAsked(log[k])
  <2>1. log[k] \in Records
    BY <1>1, <1>3
  <2> QED
    <3>1. log[k].of \in 1 .. MaxBoots /\ log[k].at \in Nat
      BY <2>1 DEF Records, Sessions
    <3>2. log[k].own = TRUE
      BY <2>1 DEF Records
    <3>3. IsShutdownRequest(log[k]) <=> IsAsked(log[k])
      BY <3>2 DEF IsShutdownRequest, IsAsked
    <3> QED
      BY <3>1, <3>3, TimeAssumption
<1> QED
  BY <1>2, <1>3

\* The shutdown notice never names the request of an earlier session once a marker of
\* this one is in the log: the marker separates the two, whatever the clock shows.
THEOREM PendingNamesCurrent == Spec => []PendingIsCurrent
<1>1. ASSUME IInv PROVE PendingIsCurrent
  <2> DEFINE p == PendingShutdown(log, clock, Recent)
  <2> SUFFICES ASSUME up, {12, 6005} \ owed # {}, p # 0 PROVE log[p].of = session
    BY DEF PendingIsCurrent
  <2>1. DOMAIN log \subseteq Nat \ {0} /\ \A k \in DOMAIN log : log[k].of \in Nat
    BY <1>1, Asked DEF IInv
  <2>2. IsTop(log, p)
    BY <2>1, PendingIsTop
  <2>3. PICK m \in DOMAIN log : log[m].of = session /\ IsBootMarker(log[m])
    BY <1>1 DEF IInv, Marked
  <2> HIDE DEF p
  <2>4. p \in DOMAIN log /\ p \in Nat /\ m \in Nat /\ p # m /\ ~(m < p)
    BY <2>1, <2>2, <2>3, Apart DEF IsTop
  <2>5. p < m
    BY <2>4
  <2>6. log[m].of <= log[p].of /\ log[p].of <= session
    BY <1>1, <2>4, <2>5 DEF IInv, Ordered
  <2> QED
    BY <2>1, <2>3, <2>4, <2>6
<1> QED
  BY <1>1, Invariant, PTL

\* A request of this session whose stamp is plausible is the one that is named: nothing
\* of this session that hides it is written after it.
THEOREM PendingIsAnnounced == Spec => []PendingIsFound
<1>1. ASSUME IInv PROVE PendingIsFound
  <2> SUFFICES ASSUME NEW k \in DOMAIN log, up, IsAsked(log[k]), log[k].of = session,
                      clock - log[k].at \in -BeforeBoot .. Recent
               PROVE  PendingShutdown(log, clock, Recent) = k
    BY DEF PendingIsFound, IsAsked
  <2>1. /\ DOMAIN log \subseteq Nat \ {0}
        /\ \A j \in DOMAIN log : /\ log[j].of \in Nat /\ log[j].at \in Nat
                                 /\ IsShutdownRequest(log[j]) <=> IsAsked(log[j])
    BY <1>1, Asked DEF IInv
  <2>2. ASSUME NEW j \in DOMAIN log, j < k
        PROVE ~IsShutdownRequest(log[j]) /\ ~IsBootMarker(log[j])
    <3>1. log[k].of <= log[j].of /\ log[j].of <= session
      BY <1>1, <2>2 DEF IInv, Ordered
    <3>2. log[j].of = log[k].of
      BY <2>1, <3>1
    <3>3. ~IsAsked(log[j])
      BY <1>1, <2>1, <2>2, <3>2 DEF IInv, Single
    <3>4. ~IsBootMarker(log[j])
      BY <1>1, <2>1, <2>2, <3>2 DEF IInv, Single
    <3> QED
      BY <2>1, <3>3, <3>4
  <2>3. IsTop(log, k)
    BY <2>1, <2>2 DEF IsTop
  <2>4. IsPlausible(log[k], clock, Recent)
    <3>1. clock \in Nat /\ log[k].at \in Nat /\ BeforeBoot \in Nat /\ Recent \in Nat
      BY <1>1, <2>1, TimeAssumption DEF IInv, Types
    <3> QED
      BY <3>1 DEF IsPlausible
  <2> QED
    BY <2>1, <2>3, <2>4, PendingIsTop
<1> QED
  BY <1>1, Invariant, PTL

-----------------------------------------------------------------------------
(* What a session leaves in the log, whatever the clock shows.  From here   *)
(* on most facts are about the set of records, not about their places.      *)

Entries == {log[k] : k \in DOMAIN log}

\* The last session that has ended.
Last == IF up THEN session - 1 ELSE session

\* What a session owes is not in the log, what it does not owe is: every session
\* that is over has its kernel's 12, and each has one only.
StartUp ==
  /\ ~up => owed = {}
  /\ \A r \in Entries : r.of = session => r.event \notin owed
  /\ \A s \in 1 .. session :
       s < session \/ 12 \notin owed => \E r \in Entries : r.of = s /\ r.event = 12

OneStart ==
  \A j, k \in DOMAIN log :
    log[j].event = 12 /\ log[k].event = 12 /\ log[j].of = log[k].of => j = k

\* The signs of a failure: none without one, and each once it is no longer owed.
Signs ==
  up =>
    /\ 6008 \in owed => failed # "no"
    /\ \A r \in Entries : r.of = session =>
         /\ r.event = 6008 => failed # "no"
         /\ IsCoded(r) => failed = "crash"
    /\ failed # "no" /\ 6008 \notin owed => \E r \in Entries : r.of = session /\ r.event = 6008
    /\ failed = "crash" /\ 41 \notin owed => \E r \in Entries : r.of = session /\ IsCoded(r)

\* The request of the session that is running, or was the last to.
Requested ==
  /\ \A r \in Entries :
       IsAsked(r) /\ r.of = session => r.data = request /\ request # NoRequest
  /\ request # NoRequest => \E r \in Entries : IsAsked(r) /\ r.of = session
  /\ \A r \in Entries : IsAsked(r) => r.data \in Requests

\* The clean end of the last session, if it had one.
Stopped ==
  /\ \A r \in Entries : IsClean(r) =>
       r.of <= Last /\ (r.of = Last => r.at = stopped /\ stopped # 0)
  /\ stopped # 0 => \E r \in Entries : IsClean(r) /\ r.of = Last
  /\ failed # "no" => stopped = 0 /\ Last > 0
  /\ failed = "no" /\ Last > 0 => stopped # 0

\* What this session was caused by, as the last one's end and request tell it.
Caused ==
  up =>
    /\ failed = "crash" => cause[session] = "crash"
    /\ failed = "power" => cause[session] = "unexpected"
    /\ failed = "no" /\ session = 1 => cause[session] = "unknown"
    /\ failed = "no" /\ session > 1 =>
         /\ \A r \in Entries : IsAsked(r) /\ r.of = session - 1 => cause[session] = r.data.kind
         /\ \/ cause[session] = "shutdown"
            \/ \E r \in Entries : IsAsked(r) /\ r.of = session - 1

History == IInv /\ StartUp /\ OneStart /\ Signs /\ Requested /\ Stopped /\ Caused

-----------------------------------------------------------------------------
(* What each step adds to the log.                                         *)

LEMMA EntriesOnTop ==
  ASSUME Types, NEW new \in Seq(Records), log' = new \o log
  PROVE  Entries' = Entries \cup {new[k] : k \in DOMAIN new}
<1> DEFINE n == Len(new)
<1>1. /\ n \in Nat /\ DOMAIN new = 1 .. n
      /\ Len(log) \in Nat /\ DOMAIN log = 1 .. Len(log)
      /\ DOMAIN log' = 1 .. (n + Len(log))
      /\ \A k \in DOMAIN new : log'[k] = new[k]
      /\ \A k \in DOMAIN log' : k > n => k - n \in DOMAIN log /\ log'[k] = log[k - n]
  BY OnTop
<1> HIDE DEF n
<1>2. ASSUME NEW r \in Entries' PROVE r \in Entries \cup {new[k] : k \in DOMAIN new}
  <2>1. PICK k \in DOMAIN log' : r = log'[k]
    BY <1>2 DEF Entries
  <2>2. k \in DOMAIN new \/ k > n
    BY <1>1
  <2> QED
    BY <1>1, <2>1, <2>2 DEF Entries
<1>3. ASSUME NEW k \in DOMAIN new PROVE new[k] \in Entries'
  <2>1. k \in DOMAIN log'
    BY <1>1
  <2> QED
    BY <1>1, <2>1 DEF Entries
<1>4. ASSUME NEW k \in DOMAIN log PROVE log[k] \in Entries'
  <2>1. k + n \in DOMAIN log' /\ k + n > n /\ (k + n) - n = k
    BY <1>1
  <2>2. log'[k + n] = log[k]
    BY <1>1, <2>1
  <2> QED
    BY <2>1, <2>2 DEF Entries
<1> QED
  BY <1>2, <1>3, <1>4 DEF Entries

LEMMA EntriesAre ==
  ASSUME Types
  PROVE  \A r \in Entries : r \in Records /\ r.own = TRUE /\ r.of \in Nat \ {0} /\ r.at \in Nat
<1> SUFFICES ASSUME NEW r \in Entries
             PROVE  r \in Records /\ r.own = TRUE /\ r.of \in Nat \ {0} /\ r.at \in Nat
  OBVIOUS
<1>1. PICK k \in DOMAIN log : r = log[k]
  BY DEF Entries
<1>2. r \in Records
  BY <1>1, ElementOfSeq DEF Types
<1>3. r.own = TRUE /\ r.of \in 1 .. MaxBoots /\ r.at \in Nat
  BY <1>2 DEF Records, Sessions
<1> QED
  BY <1>2, <1>3, TimeAssumption

\* One record of the running session goes on top.
OnePut(r) ==
  /\ r \in Records /\ r.of = session
  /\ <<r>> \in Seq(Records) /\ log' = <<r>> \o log
  /\ Entries' = Entries \cup {r}

LEMMA OneAdds ==
  ASSUME Types, up, NEW event \in Events, NEW at \in Nat, NEW data \in Data,
         log' = <<Record(event, at, data)>> \o log
  PROVE  \E r : OnePut(r) /\ r.event = event /\ r.at = at /\ r.data = data /\ r.own
<1>1. PICK r \in {Record(event, at, data)} : r = Record(event, at, data)
  OBVIOUS
<1>2. r \in Records /\ r.event = event /\ r.own /\ r.of = session /\ r.at = at /\ r.data = data
  BY <1>1 DEF Types, Record, Records, Sessions
<1>3. PICK new : new = <<r>>
  OBVIOUS
<1>4. new \in Seq(Records) /\ log' = new \o log /\ {new[k] : k \in DOMAIN new} = {r}
  BY <1>1, <1>2, <1>3
<1>5. Entries' = Entries \cup {r}
  BY <1>4, EntriesOnTop
<1> QED
  BY <1>2, <1>3, <1>4, <1>5 DEF OnePut

LEMMA KernelAdds ==
  ASSUME Types, NEW event \in {12, 41}, WriteKernel(event)
  PROVE  \E r : /\ OnePut(r) /\ r.event = event /\ r.at = started
                /\ IsCoded(r) <=> event = 41 /\ failed = "crash"
<1>1. PICK flags \in {{}, {"bugcheck"}} : flags = IF failed = "crash" THEN {"bugcheck"} ELSE {}
  OBVIOUS
<1>2. log' = <<Record(event, started, Code(flags))>> \o log /\ up
  BY <1>1 DEF WriteKernel
<1>3. Code(flags) \in Data
  BY <1>1 DEF Data
<1>4. PICK data \in Data : data = Code(flags)
  BY <1>3
<1>5. started \in Nat /\ event \in Events
  BY DEF Types, Events
<1>6. PICK at \in Nat : at = started
  BY <1>5
<1>7. log' = <<Record(event, at, data)>> \o log
  BY <1>2, <1>4, <1>6
<1>8. PICK r : OnePut(r) /\ r.event = event /\ r.at = at /\ r.data = data /\ r.own
  BY <1>2, <1>5, <1>7, OneAdds
<1>9. ParseHex(data) = flags
  BY <1>4 DEF ParseHex, Code
<1> QED
  BY <1>1, <1>6, <1>8, <1>9 DEF IsCoded

LEMMA ServiceAdds ==
  ASSUME Types, NEW event \in {6005, 6008}, NEW d \in Lags, WriteService(event, d)
  PROVE  \E r : OnePut(r) /\ r.event = event /\ r.at = clock + d
<1>1. Code({}) \in Data
  BY DEF Data
<1>2. PICK data \in Data : data = Code({})
  BY <1>1
<1>3. clock + d \in Nat /\ event \in Events
  BY TimeAssumption DEF Types, Events
<1>4. PICK at \in Nat : at = clock + d
  BY <1>3
<1>5. log' = <<Record(event, at, data)>> \o log /\ up
  BY <1>2, <1>4 DEF WriteService
<1> QED
  BY <1>3, <1>4, <1>5, OneAdds

LEMMA AskAdds ==
  ASSUME Types, NEW q \in Requests, NEW d \in Nat, Ask(q, d)
  PROVE  \E r : OnePut(r) /\ r.event = 1074 /\ r.at = Later(d) /\ r.data = q
<1>1. Later(d) \in Nat
  BY LaterIs
<1>2. PICK at \in Nat : at = Later(d)
  BY <1>1
<1>3. q \in Data /\ 1074 \in Events
  BY DEF Data, Events
<1>4. log' = <<Record(1074, at, q)>> \o log /\ up
  BY <1>2 DEF Ask, Goes
<1> QED
  BY <1>2, <1>3, <1>4, OneAdds

\* One or two records of a clean end.
EndPut(new, at) ==
  /\ new \in Seq(Records) /\ log' = new \o log
  /\ \A k \in DOMAIN new : /\ IsClean(new[k]) /\ new[k].event \in {13, 6006}
                           /\ new[k].of = session /\ new[k].at = at
  /\ \E k \in DOMAIN new : TRUE
  /\ Entries' = Entries \cup {new[k] : k \in DOMAIN new}

LEMMA StopAdds ==
  ASSUME Types, NEW events \in StopRecords, NEW d \in Nat, Stop(events, d)
  PROVE  \E new : EndPut(new, Later(d))
<1>1. Later(d) \in Nat
  BY LaterIs
<1>2. PICK at \in Nat : at = Later(d)
  BY <1>1
<1>3. PICK new : new = [k \in DOMAIN events |-> Record(events[k], at, Code({}))]
  OBVIOUS
<1>4. log' = new \o log /\ up
  BY <1>2, <1>3 DEF Stop, Goes
<1>5. /\ Len(events) \in Nat /\ DOMAIN events = 1 .. Len(events) /\ 1 \in DOMAIN events
      /\ \A k \in DOMAIN events : events[k] \in {13, 6006}
  <2>1. events \in {<<13, 6006>>, <<13>>, <<6006>>}
    BY TimeAssumption
  <2> QED
    BY <2>1
<1>6. ASSUME NEW k \in DOMAIN events
      PROVE  /\ new[k] \in Records /\ IsClean(new[k]) /\ new[k].event \in {13, 6006}
             /\ new[k].of = session /\ new[k].at = at
  <2>1. PICK event \in {13, 6006} : event = events[k]
    BY <1>5, <1>6
  <2>2. Code({}) \in Data
    BY DEF Data
  <2>3. PICK data \in Data : data = Code({})
    BY <2>2
  <2>4. PICK r \in {Record(event, at, data)} : r = Record(event, at, data)
    OBVIOUS
  <2>5. r \in Records /\ r.event = event /\ r.own /\ r.of = session /\ r.at = at
    BY <1>4, <2>4 DEF Types, Record, Records, Sessions, Events
  <2>6. new[k] = r
    BY <1>3, <1>6, <2>1, <2>3, <2>4
  <2> QED
    BY <2>1, <2>5, <2>6 DEF IsClean
<1>7. new \in Seq(Records) /\ DOMAIN new = DOMAIN events
  <2>1. DOMAIN new = DOMAIN events /\ new = [k \in DOMAIN new |-> new[k]]
    BY <1>3
  <2>2. \A k \in 1 .. Len(events) : new[k] \in Records
    BY <1>5, <1>6
  <2> QED
    BY <1>5, <2>1, <2>2
<1>8. Entries' = Entries \cup {new[k] : k \in DOMAIN new}
  BY <1>4, <1>7, EntriesOnTop
<1>9. EndPut(new, at)
  BY <1>4, <1>5, <1>6, <1>7, <1>8 DEF EndPut
<1> QED
  BY <1>2, <1>9

-----------------------------------------------------------------------------
(* Every step keeps the history.                                           *)

LEMMA OneStartOnTop ==
  ASSUME Types, OneStart, NEW new \in Seq(Records), log' = new \o log,
         \/ \A k \in DOMAIN new : new[k].event # 12
         \/ /\ Len(new) = 1
            /\ \A q \in Entries : q.event = 12 => q.of # new[1].of
  PROVE  OneStart'
<1> DEFINE n == Len(new)
<1>1. /\ n \in Nat /\ DOMAIN new = 1 .. n
      /\ Len(log) \in Nat /\ DOMAIN log = 1 .. Len(log)
      /\ DOMAIN log' = 1 .. (n + Len(log))
      /\ \A k \in DOMAIN new : log'[k] = new[k]
      /\ \A k \in DOMAIN log' : k > n => k - n \in DOMAIN log /\ log'[k] = log[k - n]
  BY OnTop
<1>2. n = 1 => \A k \in DOMAIN new : k = 1
  BY <1>1
<1>3. (\A k \in DOMAIN new : new[k].event # 12) \/ (n = 1 /\ \A q \in Entries : q.event = 12 => q.of # new[1].of)
  OBVIOUS
<1> HIDE DEF n
<1>4. ASSUME NEW j \in DOMAIN log', NEW k \in DOMAIN log', log'[j].event = 12, log'[k].event = 12,
             log'[j].of = log'[k].of, j <= n
      PROVE  j = k
  <2>1. j \in DOMAIN new /\ log'[j] = new[j]
    BY <1>1, <1>4
  <2>2. n = 1 /\ j = 1 /\ \A q \in Entries : q.event = 12 => q.of # new[1].of
    BY <1>1, <1>2, <1>3, <1>4, <2>1
  <2>3. CASE k <= n
    BY <1>1, <1>2, <2>2, <2>3
  <2>4. CASE k > n
    <3>1. log'[k] \in Entries
      BY <1>1, <2>4 DEF Entries
    <3> QED
      BY <1>4, <2>1, <2>2, <3>1
  <2> QED
    BY <1>1, <2>3, <2>4
<1>5. ASSUME NEW j \in DOMAIN log', NEW k \in DOMAIN log', log'[j].event = 12, log'[k].event = 12,
             log'[j].of = log'[k].of, j > n, k > n
      PROVE  j = k
  <2>1. j - n = k - n
    BY <1>1, <1>5 DEF OneStart
  <2> QED
    BY <1>1, <2>1
<1>6. \A j \in DOMAIN log' : j <= n \/ j > n
  BY <1>1
<1> QED
  BY <1>4, <1>5, <1>6 DEF OneStart

LEMMA EntriesOf ==
  ASSUME IInv
  PROVE  \A r \in Entries : r \in Records /\ r.own = TRUE /\ r.of \in 1 .. session /\ r.at \in Nat
<1> SUFFICES ASSUME NEW r \in Entries
             PROVE  r \in Records /\ r.own = TRUE /\ r.of \in 1 .. session /\ r.at \in Nat
  OBVIOUS
<1>1. r.of <= session
  BY DEF Entries, IInv, Ordered
<1>2. session \in Nat
  BY TimeAssumption DEF IInv, Types
<1>3. r \in Records /\ r.own = TRUE /\ r.of \in Nat \ {0} /\ r.at \in Nat
  BY EntriesAre DEF IInv
<1> QED
  BY <1>1, <1>2, <1>3

LEMMA OfSession ==
  ASSUME IInv, NEW r \in Entries PROVE r.of \in 1 .. session /\ r.at \in Nat
  BY EntriesOf

LEMMA HistoryStarts == Init => History
<1> SUFFICES ASSUME Init PROVE History
  OBVIOUS
<1>1. Entries = {} /\ DOMAIN log = {}
  BY DEF Init, Entries
<1>2. StartUp /\ OneStart /\ Signs /\ Requested /\ Caused
  BY <1>1 DEF Init, StartUp, OneStart, Signs, Requested, Caused
<1>3. Stopped
  BY <1>1 DEF Init, Stopped, Last
<1> QED
  BY <1>2, <1>3, Starts DEF History

LEMMA BootRemembers ==
  ASSUME History, NEW d \in Downtimes, Boot(d) PROVE History'
<1>1. /\ ~up /\ session \in Nat /\ session' = session + 1 /\ up' = TRUE /\ log' = log
      /\ request' = NoRequest /\ UNCHANGED <<stopped, failed>>
      /\ owed' = {12, 6005, 41} \cup (IF failed = "no" THEN {} ELSE {6008})
      /\ cause' = [cause EXCEPT ![session + 1] = Ended]
  BY TimeAssumption DEF Boot, History, IInv, Types
<1>2. IInv'
  BY BootKeeps DEF History
<1>3. Entries' = Entries /\ Last' = session /\ Last = session
  BY <1>1 DEF Entries, Last
<1>4. \A r \in Entries : r.of \in 1 .. session
  BY EntriesOf DEF History
<1>5. StartUp'
  BY <1>1, <1>3, <1>4 DEF History, StartUp
<1>6. OneStart'
  BY <1>1 DEF History, OneStart
<1>7. Signs' /\ Requested'
  <2>1. \A r \in Entries : IsAsked(r) => r.data \in Requests
    BY DEF History, Requested
  <2> QED
    BY <1>1, <1>3, <1>4, <2>1 DEF Signs, Requested
<1>8. Stopped'
  BY <1>1, <1>3 DEF History, Stopped
<1>9. Caused'
  <2>1. cause'[session'] = Ended
    <3>1. session + 1 \in Sessions /\ cause \in [Sessions -> Categories]
      BY <1>1, TimeAssumption DEF History, IInv, Types, Sessions
    <3> QED
      BY <1>1, <3>1
  <2>2. failed \in {"no", "power", "crash"} /\ session' - 1 = session
    BY <1>1 DEF History, IInv, Types
  <2>3. failed = "crash" => Ended = "crash"
    BY DEF Ended
  <2>4. failed = "power" => Ended = "unexpected"
    BY DEF Ended
  <2>5. failed = "no" /\ session' = 1 => Ended = "unknown"
    <3>1. session = 0 => request = NoRequest
      BY <1>4 DEF History, Requested
    <3> QED
      BY <1>1, <3>1 DEF Ended
  <2>6. ASSUME failed = "no", session' > 1
        PROVE  /\ \A r \in Entries : IsAsked(r) /\ r.of = session => Ended = r.data.kind
               /\ Ended = "shutdown" \/ \E r \in Entries : IsAsked(r) /\ r.of = session
    <3>1. Ended = IF request # NoRequest THEN request.kind ELSE "shutdown"
      BY <1>1, <2>6 DEF Ended
    <3> QED
      BY <3>1 DEF History, Requested
  <2> QED
    BY <1>1, <1>3, <2>1, <2>2, <2>3, <2>4, <2>5, <2>6 DEF Caused
<1> QED
  BY <1>2, <1>5, <1>6, <1>7, <1>8, <1>9 DEF History

\* A start-up record, of the kernel or of the service.
LEMMA StartUpRemembers ==
  ASSUME History, IInv', up, NEW event \in owed, NEW r, OnePut(r), r.event = event,
         event \in {12, 41, 6005, 6008},
         IsCoded(r) <=> event = 41 /\ failed = "crash",
         owed' = owed \ {event}, UNCHANGED <<up, session, request, stopped, failed, cause>>
  PROVE  History'
<1>1. session \in Nat /\ session > 0 /\ Last' = Last /\ Last = session - 1
  BY TimeAssumption DEF History, IInv, Types, Last
<1>2. Entries' = Entries \cup {r} /\ r.of = session
  BY DEF OnePut
<1>3. ~IsAsked(r) /\ ~IsClean(r)
  BY DEF IsAsked, IsClean
<1>4. StartUp'
  BY <1>1, <1>2 DEF History, StartUp
<1>5. OneStart'
  <2>1. PICK new \in {<<r>>} : new = <<r>>
    OBVIOUS
  <2>2. new \in Seq(Records) /\ log' = new \o log /\ Len(new) = 1 /\ DOMAIN new = {1} /\ new[1] = r
    BY <2>1 DEF OnePut
  <2>3. event = 12 => \A q \in Entries : q.event = 12 => q.of # r.of
    BY <1>2 DEF History, StartUp
  <2> QED
    BY <2>2, <2>3, OneStartOnTop DEF History, IInv
<1>6. Signs'
  BY <1>2 DEF History, Signs
<1>7. Requested'
  BY <1>2, <1>3 DEF History, Requested
<1>8. Stopped'
  BY <1>1, <1>2, <1>3 DEF History, Stopped
<1>9. Caused'
  BY <1>1, <1>2, <1>3 DEF History, Caused
<1> QED
  BY <1>4, <1>5, <1>6, <1>7, <1>8, <1>9 DEF History

LEMMA AskRemembers ==
  ASSUME History, NEW q \in Requests, NEW d \in Uptimes \cup Closings, Ask(q, d) PROVE History'
<1>1. /\ up /\ owed = {} /\ request = NoRequest /\ request' = q /\ q # NoRequest
      /\ UNCHANGED <<up, session, owed, stopped, failed, cause>>
  BY RequestAssumption DEF Ask, Goes
<1>2. IInv'
  BY AskKeeps DEF History
<1>3. d \in Nat
  BY TimeAssumption
<1>4. PICK r : OnePut(r) /\ r.event = 1074 /\ r.at = Later(d) /\ r.data = q
  BY <1>3, AskAdds DEF History, IInv
<1>5. session \in Nat /\ session > 0 /\ Last' = Last /\ Last = session - 1
  BY <1>1, TimeAssumption DEF History, IInv, Types, Last
<1>6. Entries' = Entries \cup {r} /\ r.of = session /\ IsAsked(r) /\ ~IsClean(r) /\ ~IsCoded(r)
  BY <1>4 DEF OnePut, IsAsked, IsClean, IsCoded
<1>7. StartUp'
  BY <1>1, <1>5, <1>6 DEF History, StartUp
<1>8. OneStart'
  <2>1. PICK new \in {<<r>>} : new = <<r>>
    OBVIOUS
  <2>2. new \in Seq(Records) /\ log' = new \o log /\ DOMAIN new = {1} /\ new[1] = r
    BY <1>4, <2>1 DEF OnePut
  <2> QED
    BY <1>4, <2>2, OneStartOnTop DEF History, IInv
<1>9. Signs'
  BY <1>1, <1>4, <1>6 DEF History, Signs
<1>10. Requested'
  BY <1>1, <1>4, <1>6 DEF History, Requested
<1>11. Stopped'
  BY <1>1, <1>5, <1>6 DEF History, Stopped
<1>12. Caused'
  BY <1>1, <1>5, <1>6 DEF History, Caused
<1> QED
  BY <1>2, <1>7, <1>8, <1>9, <1>10, <1>11, <1>12 DEF History

LEMMA StopRemembers ==
  ASSUME History, NEW events \in StopRecords, NEW d \in Uptimes \cup Closings, Stop(events, d)
  PROVE  History'
<1>1. /\ up /\ owed = {} /\ up' = FALSE /\ failed' = "no" /\ stopped' = Later(d)
      /\ UNCHANGED <<session, owed, request, cause>>
  BY DEF Stop, Goes
<1>2. IInv'
  BY StopKeeps DEF History
<1>3. d \in Nat /\ d > 0 /\ clock \in Nat
  BY TimeAssumption DEF History, IInv, Types
<1>4. Later(d) \in Nat /\ Later(d) > 0
  BY <1>3, LaterIs DEF History, IInv
<1>5. PICK new : EndPut(new, Later(d))
  BY <1>3, StopAdds DEF History, IInv
<1>6. session \in Nat /\ session > 0 /\ Last' = session /\ Last = session - 1
  BY <1>1, TimeAssumption DEF History, IInv, Types, Last
<1>7. /\ Entries' = Entries \cup {new[k] : k \in DOMAIN new}
      /\ \E r \in Entries' : IsClean(r) /\ r.of = session
      /\ \A r \in Entries' : \/ r \in Entries
                             \/ /\ IsClean(r) /\ r.event \in {13, 6006}
                                /\ r.of = session /\ r.at = Later(d)
  BY <1>5 DEF EndPut
<1>8. \A r \in Entries' \ Entries : ~IsAsked(r) /\ r.event # 12
  BY <1>7 DEF IsAsked
<1>9. StartUp'
  BY <1>1, <1>6, <1>7 DEF History, StartUp
<1>10. OneStart'
  <2>1. new \in Seq(Records) /\ log' = new \o log /\ \A k \in DOMAIN new : new[k].event # 12
    BY <1>5 DEF EndPut
  <2> QED
    BY <2>1, OneStartOnTop DEF History, IInv
<1>11. Signs' /\ Caused'
  BY <1>1 DEF Signs, Caused
<1>12. Requested'
  BY <1>1, <1>7, <1>8 DEF History, Requested
<1>13. Stopped'
  <2>1. \A r \in Entries : r.of \in 1 .. session /\ (IsClean(r) => r.of <= session - 1)
    BY <1>6, EntriesOf DEF History, Stopped
  <2>2. \A r \in Entries' : IsClean(r) => r.of <= session /\ (r.of = session => r.at = Later(d))
    BY <1>6, <1>7, <2>1
  <2> QED
    BY <1>1, <1>4, <1>6, <1>7, <2>2 DEF Stopped
<1> QED
  BY <1>2, <1>9, <1>10, <1>11, <1>12, <1>13 DEF History

LEMMA FailRemembers ==
  ASSUME History, IInv', NEW how \in {"power", "crash"}, NEW d \in Uptimes \cup Closings, Fail(how, d)
  PROVE  History'
<1>1. /\ up /\ owed = {} /\ up' = FALSE /\ failed' = how /\ how # "no" /\ stopped' = 0
      /\ UNCHANGED <<session, owed, request, cause, log>>
  BY DEF Fail, Goes
<1>2. session \in Nat /\ session > 0 /\ Last' = session /\ Last = session - 1
  BY <1>1, TimeAssumption DEF History, IInv, Types, Last
<1>3. Entries' = Entries
  BY <1>1 DEF Entries
<1>4. StartUp' /\ OneStart' /\ Signs' /\ Requested' /\ Caused'
  BY <1>1, <1>3 DEF History, StartUp, OneStart, Signs, Requested, Caused
<1>5. Stopped'
  <2>0. \A r \in Entries : r.of \in 1 .. session
    BY EntriesOf DEF History
  <2>1. \A r \in Entries : r.of \in Nat /\ (IsClean(r) => r.of <= session - 1)
    BY <1>2, <2>0 DEF History, Stopped
  <2>2. \A r \in Entries : IsClean(r) => r.of <= session /\ r.of # session
    BY <1>2, <2>1
  <2> QED
    BY <1>1, <1>2, <1>3, <2>2 DEF Stopped
<1> QED
  BY <1>4, <1>5 DEF History

\* Nothing is written, stopped or started.
LEMMA IdleRemembers ==
  ASSUME History, IInv', UNCHANGED <<up, session, owed, request, stopped, failed, cause, log>>
  PROVE  History'
<1>1. Entries' = Entries /\ Last' = Last
  BY DEF Entries, Last
<1> QED
  BY <1>1 DEF History, StartUp, OneStart, Signs, Requested, Stopped, Caused

\* The log tells what each session was, for any number of sessions and any clock step.
THEOREM HistoryHolds == Spec => []History
<1>1. ASSUME History, [Next]_vars PROVE History'
  <2>0. IInv /\ IInv'
    BY <1>1, StepKeeps DEF History
  <2>1. ASSUME NEW d \in Downtimes, Boot(d) PROVE History'
    BY <1>1, <2>1, BootRemembers
  <2>2. ASSUME NEW event \in {12, 41}, WriteKernel(event) PROVE History'
    <3>1. PICK r : OnePut(r) /\ r.event = event /\ (IsCoded(r) <=> event = 41 /\ failed = "crash")
      BY <2>0, <2>2, KernelAdds DEF IInv
    <3> QED
      BY <1>1, <2>0, <2>2, <3>1, StartUpRemembers DEF WriteKernel
  <2>3. ASSUME NEW event \in {6005, 6008}, NEW d \in Lags, WriteService(event, d) PROVE History'
    <3>1. PICK r : OnePut(r) /\ r.event = event
      BY <2>0, <2>3, ServiceAdds DEF IInv
    <3>2. ~IsCoded(r)
      BY <3>1 DEF IsCoded
    <3> QED
      BY <1>1, <2>0, <2>3, <3>1, <3>2, StartUpRemembers DEF WriteService
  <2>4. ASSUME NEW d \in Uptimes \cup Closings, NEW r \in Requests, Ask(r, d) PROVE History'
    BY <1>1, <2>4, AskRemembers
  <2>5. ASSUME NEW d \in Uptimes \cup Closings, NEW events \in StopRecords, Stop(events, d)
        PROVE  History'
    BY <1>1, <2>5, StopRemembers
  <2>6. ASSUME NEW d \in Uptimes \cup Closings, NEW how \in {"power", "crash"}, Fail(how, d)
        PROVE  History'
    BY <1>1, <2>0, <2>6, FailRemembers
  <2>7. CASE Over \/ UNCHANGED vars \/ \E s \in Steps : StepClock(s)
    BY <1>1, <2>0, <2>7, IdleRemembers DEF Over, vars, StepClock
  <2> QED
    BY <1>1, <2>1, <2>2, <2>3, <2>4, <2>5, <2>6, <2>7 DEF Next
<1> QED
  BY HistoryStarts, <1>1, PTL DEF Spec

-----------------------------------------------------------------------------
(* The two markers Latest goes by, whatever the clock shows.               *)

LEMMA Places ==
  ASSUME IInv
  PROVE  /\ DOMAIN log \subseteq Nat \ {0} /\ session \in Nat
         /\ \A k \in DOMAIN log : /\ log[k] \in Entries /\ log[k].of \in 1 .. session
                                  /\ log[k].own = TRUE /\ log[k].at \in Nat
         /\ \A r \in Entries : \E k \in DOMAIN log : r = log[k]
<1>1. DOMAIN log \subseteq Nat \ {0}
  BY Asked DEF IInv
<1>2. session \in Nat
  BY TimeAssumption DEF IInv, Types
<1>3. \A k \in DOMAIN log : log[k] \in Entries
  BY DEF Entries
<1>4. \A r \in Entries : \E k \in DOMAIN log : r = log[k]
  BY DEF Entries
<1> QED
  BY <1>1, <1>2, <1>3, <1>4, EntriesOf

\* The anchor is the start of the boot that is running.
LEMMA AnchorIsThisBoot ==
  ASSUME History, up, 12 \notin owed
  PROVE  /\ Anchor(log) \in DOMAIN log /\ Anchor(log) \in Nat \ {0}
         /\ log[Anchor(log)].event = 12 /\ log[Anchor(log)].of = session
<1> DEFINE a == Anchor(log)
<1>0. IInv /\ session > 0
  BY DEF History, IInv, Types
<1>1. /\ DOMAIN log \subseteq Nat \ {0} /\ session \in Nat
      /\ \A k \in DOMAIN log : log[k].of \in 1 .. session /\ log[k].own = TRUE
  BY <1>0, Places
<1>2. PICK r \in Entries : r.of = session /\ r.event = 12
  <2>1. session \in 1 .. session
    BY <1>0, <1>1
  <2> QED
    BY <2>1 DEF History, StartUp
<1>3. PICK k \in DOMAIN log : r = log[k]
  BY <1>0, <1>2, Places
<1>4. IsOsStart(log[k])
  BY <1>1, <1>2, <1>3 DEF IsOsStart
<1>5. a \in DOMAIN log /\ IsOsStart(log[a]) /\ a <= k
  BY <1>1, <1>4, AnchorIs
<1> HIDE DEF a
<1>6. a \in Nat /\ k \in Nat /\ log[a].of \in 1 .. session
  BY <1>1, <1>5
<1>7. log[k].of <= log[a].of
  <2>1. CASE a = k
    BY <1>6, <2>1
  <2>2. CASE a < k
    BY <1>0, <1>5, <2>2 DEF IInv, Ordered
  <2> QED
    BY <1>5, <1>6, <2>1, <2>2
<1>8. log[a].of = session
  BY <1>1, <1>2, <1>3, <1>6, <1>7
<1> QED
  BY <1>1, <1>5, <1>8 DEF a, IsOsStart

\* The other end of the session is a marker of this boot's own or of the one before it,
\* and the first boot has no older one.
LEMMA BoundaryIsNext ==
  ASSUME History, up, 12 \notin owed
  PROVE  LET p == PreviousBoot(log)
         IN  /\ session > 1 => p # 0
             /\ p # 0 => /\ p \in DOMAIN log /\ IsBoundary(log, p)
                         /\ log[p].of \in {session - 1, session}
                         /\ log[p].of = session => OwnMarkerIsEarly
<1> DEFINE a == Anchor(log)
           p == PreviousBoot(log)
<1>0. IInv /\ session > 0
  BY DEF History, IInv, Types
<1>1. /\ DOMAIN log \subseteq Nat \ {0} /\ session \in Nat
      /\ \A k \in DOMAIN log : log[k].of \in 1 .. session /\ log[k].own = TRUE
  BY <1>0, Places
<1>2. a \in DOMAIN log /\ a \in Nat \ {0} /\ log[a].event = 12 /\ log[a].of = session
  BY AnchorIsThisBoot
<1>3. /\ p = 0 => \A k \in DOMAIN log : ~IsBoundary(log, k)
      /\ p # 0 => p \in DOMAIN log /\ IsBoundary(log, p)
                  /\ \A k \in DOMAIN log : IsBoundary(log, k) => p <= k
  BY <1>1, PreviousIs
<1>4. ASSUME session > 1
      PROVE  \E k \in DOMAIN log : IsBoundary(log, k) /\ log[k].of = session - 1
  <2>1. session - 1 \in 1 .. session /\ session - 1 < session
    BY <1>1, <1>4
  <2>2. PICK r \in Entries : r.of = session - 1 /\ r.event = 12
    BY <2>1 DEF History, StartUp
  <2>3. PICK k \in DOMAIN log : r = log[k]
    BY <1>0, <2>2, Places
  <2>4. a < k
    <3>1. k \in Nat /\ k # a
      BY <1>1, <1>2, <2>2, <2>3
    <3>2. ~(k < a)
      BY <1>0, <1>1, <1>2, <2>2, <2>3 DEF IInv, Ordered
    <3> HIDE DEF a
    <3> QED
      BY <1>2, <3>1, <3>2
  <2>5. IsBootMarker(log[k])
    BY <1>1, <2>2, <2>3 DEF IsBootMarker, IsOsStart
  <2>6. k \in Nat
    BY <1>1
  <2>7. IsBoundary(log, k)
    BY <1>2, <2>2, <2>3, <2>4, <2>5, <2>6 DEF IsBoundary
  <2> QED
    BY <2>2, <2>3, <2>7
<1> HIDE DEF a, p
<1>5. session > 1 => p # 0
  BY <1>3, <1>4
<1>6. ASSUME p # 0 PROVE log[p].of \in {session - 1, session}
  <2>1. CASE session = 1
    BY <1>1, <1>3, <1>6, <2>1
  <2>2. CASE session > 1
    <3>1. PICK k \in DOMAIN log : IsBoundary(log, k) /\ log[k].of = session - 1
      BY <1>4, <2>2
    <3>2. p <= k /\ p \in Nat /\ k \in Nat /\ p \in DOMAIN log
      BY <1>1, <1>3, <1>6, <3>1
    <3>3. log[k].of <= log[p].of
      <4>1. CASE p = k
        BY <1>1, <4>1
      <4>2. CASE p < k
        BY <1>0, <3>2, <4>2 DEF IInv, Ordered
      <4> QED
        BY <3>2, <4>1, <4>2
    <3>4. log[p].of \in 1 .. session
      BY <1>1, <3>2
    <3> QED
      BY <1>1, <3>1, <3>3, <3>4
  <2> QED
    BY <1>0, <1>1, <2>1, <2>2
<1>7. ASSUME p # 0, log[p].of = session PROVE OwnMarkerIsEarly
  <2>1. p \in DOMAIN log /\ IsBoundary(log, p) /\ p \in Nat
    BY <1>1, <1>3, <1>7
  <2>2. p > a /\ (log[p].event = log[a].event \/ log[p].at < log[a].at)
    BY <2>1 DEF IsBoundary, a
  <2>3. log[p].event \in {12, 6005}
    BY <2>1 DEF IsBoundary, IsBootMarker, IsOsStart, IsLogStart
  <2>4. log[p].event # 12
    <3>1. p # a
      BY <1>2, <2>1, <2>2
    <3>2. OneStart
      BY DEF History
    <3> QED
      BY <1>2, <1>7, <2>1, <3>1, <3>2 DEF OneStart
  <2> QED
    BY <1>2, <1>7, <2>1, <2>2, <2>3, <2>4 DEF OwnMarkerIsEarly, BootTime, a
<1> QED
  BY <1>3, <1>5, <1>6, <1>7 DEF p

\* However the clock is stepped between two boots, the session that ended is measured
\* between the boot that is running and the boot just before it, never by a marker of the
\* running boot, unless that is stamped before its own boot and lies below the 12.
THEOREM CycleIsBounded == Spec => []CycleIsLast
<1>1. ASSUME History PROVE CycleIsLast
  <2> SUFFICES ASSUME up, owed = {}
               PROVE  /\ Anchor(log) # 0 /\ log[Anchor(log)].of = session
                      /\ session > 1 /\ ~OwnMarkerIsEarly =>
                           PreviousBoot(log) # 0 /\ log[PreviousBoot(log)].of = session - 1
    BY DEF CycleIsLast, SettledIn
  <2>1. 12 \notin owed /\ session \in Nat
    BY <1>1, TimeAssumption DEF History, IInv, Types
  <2>2. Anchor(log) # 0 /\ log[Anchor(log)].of = session
    BY <1>1, <2>1, AnchorIsThisBoot
  <2>3. /\ session > 1 => PreviousBoot(log) # 0
        /\ PreviousBoot(log) # 0 =>
             /\ log[PreviousBoot(log)].of \in {session - 1, session}
             /\ log[PreviousBoot(log)].of = session => OwnMarkerIsEarly
    BY <1>1, <2>1, BoundaryIsNext
  <2> QED
    BY <2>1, <2>2, <2>3
<1> QED
  BY HistoryHolds, <1>1, PTL

-----------------------------------------------------------------------------
(* The stamps, when nothing sets the clock while the machine runs.         *)

\* When each session started.
Spaced(start) ==
  /\ began = started /\ started <= clock
  /\ session > 0 => start[session] = started
  /\ \A s, t \in 1 .. session : s < t => start[s] + MinSession < start[t]
  /\ ~up /\ session > 0 => started + MinSession <= clock

\* A record is stamped within its session, and the start-up records near its start.
Placed(start) ==
  \A r \in Entries :
    /\ start[r.of] <= r.at /\ r.at <= clock
    /\ r.of < session => r.at < start[r.of + 1]
    /\ r.event \in {12, 41} => r.at = start[r.of]
    /\ r.event = 6008 => r.at - start[r.of] \in Delays

\* A session's markers are stamped before its request and its clean end.
Preceded ==
  \A q, r \in Entries :
    q.of = r.of /\ q.event \in {12, 6005} /\ (IsAsked(r) \/ IsClean(r)) => q.at < r.at

\* How far the start-up has come.
Clocked ==
  /\ 6005 \in owed => clock = started
  /\ 6008 \in owed /\ 6005 \notin owed => clock - started \in Lags

Stamped(start) == Spaced(start) /\ Placed(start) /\ Preceded /\ Clocked

Steady == History /\ \E start \in [Sessions -> Nat] : Stamped(start)

\* The start times are numbers.
LEMMA StartsAre ==
  ASSUME IInv, NEW start \in [Sessions -> Nat]
  PROVE  /\ \A s \in 1 .. session : s \in Sessions /\ s \in Nat /\ start[s] \in Nat
         /\ \A r \in Entries : start[r.of] \in Nat /\ r.of \in Nat /\ r.at \in Nat
         /\ session \in Nat /\ clock \in Nat /\ started \in Nat /\ began \in Int
<1>1. /\ session \in 0 .. MaxBoots /\ MaxBoots \in Nat /\ clock \in Nat /\ started \in Nat
      /\ began \in Int
  BY TimeAssumption DEF IInv, Types
<1>2. \A s \in 1 .. session : s \in Sessions /\ s \in Nat
  BY <1>1 DEF Sessions
<1>3. \A s \in 1 .. session : start[s] \in Nat
  BY <1>2
<1>4. \A r \in Entries : r.of \in 1 .. session /\ r.at \in Nat
  BY EntriesOf
<1> QED
  BY <1>1, <1>2, <1>3, <1>4

\* What the running session writes is stamped between its start and now.
LEMMA PlacedOnTop ==
  ASSUME IInv, NEW start \in [Sessions -> Nat], Spaced(start), Placed(start), up,
         NEW E, Entries' = Entries \cup E, session' = session,
         clock' \in Nat, clock <= clock',
         \A r \in E : /\ r.of = session /\ r.at \in Nat /\ started <= r.at /\ r.at <= clock'
                      /\ r.event \in {12, 41} => r.at = started
                      /\ r.event = 6008 => r.at - started \in Delays
  PROVE  Placed(start)'
<1> SUFFICES ASSUME NEW r \in Entries'
             PROVE  /\ start[r.of] <= r.at /\ r.at <= clock'
                    /\ r.of < session => r.at < start[r.of + 1]
                    /\ r.event \in {12, 41} => r.at = start[r.of]
                    /\ r.event = 6008 => r.at - start[r.of] \in Delays
  BY DEF Placed
<1>1. session > 0 /\ session \in Nat /\ clock \in Nat
  BY TimeAssumption DEF IInv, Types
<1>2. CASE r \in E
  <2>1. start[r.of] = started /\ ~(r.of < session)
    BY <1>1, <1>2 DEF Spaced
  <2> QED
    BY <1>2, <2>1
<1>3. CASE r \in Entries
  <2>1. r.at \in Nat
    BY <1>3, EntriesOf
  <2> QED
    BY <1>1, <1>3, <2>1 DEF Placed
<1> QED
  BY <1>2, <1>3

-----------------------------------------------------------------------------
(* Every step keeps the stamps, when there is no step of the clock.        *)

LEMMA StampsStart == ASSUME Init PROVE \E start \in [Sessions -> Nat] : Stamped(start)
<1>1. PICK start \in [Sessions -> Nat] : start = [s \in Sessions |-> 0]
  OBVIOUS
<1>2. Entries = {} /\ session = 0 /\ owed = {} /\ began = started /\ started <= clock
  BY DEF Init, Entries
<1>3. Placed(start) /\ Preceded /\ Clocked
  BY <1>2 DEF Placed, Preceded, Clocked
<1>4. Spaced(start)
  BY <1>2 DEF Spaced
<1> QED
  BY <1>3, <1>4 DEF Stamped

LEMMA BootStamps ==
  ASSUME History, NEW old \in [Sessions -> Nat], Stamped(old), NEW d \in Downtimes, Boot(d)
  PROVE  \E start \in [Sessions -> Nat] : Stamped(start)'
<1>1. /\ ~up /\ session' = session + 1 /\ up' = TRUE /\ log' = log
      /\ clock' = clock + d /\ started' = clock + d /\ began' = clock + d
      /\ owed' = {12, 6005, 41} \cup (IF failed = "no" THEN {} ELSE {6008})
  BY DEF Boot
<1>2. IInv /\ session < MaxBoots /\ session + 1 \in Sessions /\ d \in Nat /\ d > 0 /\ MinSession \in Nat
  BY <1>1, TimeAssumption DEF History, IInv, Types, Sessions
<1>3. /\ \A s \in 1 .. session : s \in Sessions /\ s \in Nat /\ old[s] \in Nat
      /\ \A r \in Entries : old[r.of] \in Nat /\ r.of \in Nat /\ r.at \in Nat
      /\ session \in Nat /\ clock \in Nat /\ started \in Nat
  BY <1>2, StartsAre
<1>4. PICK now \in Nat : now = clock + d
  BY <1>2, <1>3
<1>5. PICK start \in [Sessions -> Nat] : start = [old EXCEPT ![session + 1] = now]
  BY <1>2
<1>6. /\ start[session + 1] = now
      /\ \A s \in 1 .. session : start[s] = old[s]
  BY <1>2, <1>3, <1>5
<1>7. \A s \in 1 .. session : old[s] + MinSession <= clock
  <2> SUFFICES ASSUME NEW s \in 1 .. session PROVE old[s] + MinSession <= clock
    OBVIOUS
  <2>1. session > 0 /\ session \in 1 .. session /\ old[session] = started /\ started + MinSession <= clock
    BY <1>1, <1>3 DEF Stamped, Spaced
  <2>2. s < session => old[s] + MinSession < old[session]
    BY <2>1 DEF Stamped, Spaced
  <2> QED
    BY <1>2, <1>3, <2>1, <2>2
<1>8. Spaced(start)'
  <2>1. ASSUME NEW s \in 1 .. session + 1, NEW t \in 1 .. session + 1, s < t
        PROVE  start[s] + MinSession < start[t]
    <3>1. s \in 1 .. session
      BY <1>3, <2>1
    <3>2. CASE t = session + 1
      BY <1>2, <1>3, <1>4, <1>6, <1>7, <3>1, <3>2
    <3>3. CASE t \in 1 .. session
      BY <1>6, <2>1, <3>1, <3>3 DEF Stamped, Spaced
    <3> QED
      BY <1>3, <3>2, <3>3
  <2> QED
    BY <1>1, <1>4, <1>6, <2>1 DEF Spaced
<1>9. Entries' = Entries
  BY <1>1 DEF Entries
<1>10. Placed(start)'
  <2> SUFFICES ASSUME NEW r \in Entries
               PROVE  /\ start[r.of] <= r.at /\ r.at <= clock'
                      /\ r.of < session + 1 => r.at < start[r.of + 1]
                      /\ r.event \in {12, 41} => r.at = start[r.of]
                      /\ r.event = 6008 => r.at - start[r.of] \in Delays
    BY <1>1, <1>9 DEF Placed
  <2>1. r.of \in 1 .. session
    BY <1>2, EntriesOf
  <2>2. start[r.of] = old[r.of]
    BY <1>6, <2>1
  <2>3. r.at <= clock
    BY DEF Stamped, Placed
  <2>4. r.at < start[r.of + 1]
    <3>1. CASE r.of = session
      BY <1>2, <1>3, <1>4, <1>6, <2>3, <3>1
    <3>2. CASE r.of < session
      <4>1. r.of + 1 \in 1 .. session
        BY <1>3, <2>1, <3>2
      <4>2. start[r.of + 1] = old[r.of + 1]
        BY <1>6, <4>1
      <4> QED
        BY <3>2, <4>2 DEF Stamped, Placed
    <3> QED
      BY <1>3, <2>1, <3>1, <3>2
  <2>5. r.at <= clock'
    BY <1>1, <1>2, <1>3, <2>3
  <2> QED
    BY <2>2, <2>4, <2>5 DEF Stamped, Placed
<1>11. Preceded'
  BY <1>9 DEF Stamped, Preceded
<1>12. Clocked'
  BY <1>1 DEF Clocked
<1> QED
  BY <1>8, <1>10, <1>11, <1>12 DEF Stamped

LEMMA KernelStamps ==
  ASSUME History, NEW start \in [Sessions -> Nat], Stamped(start),
         NEW event \in {12, 41}, WriteKernel(event)
  PROVE  Stamped(start)'
<1>1. /\ up /\ event \in owed /\ owed' = owed \ {event}
      /\ UNCHANGED <<clock, up, session, started, began>>
  BY DEF WriteKernel
<1>2. IInv /\ Types
  BY DEF History, IInv
<1>3. PICK new : OnePut(new) /\ new.event = event /\ new.at = started
  BY <1>2, KernelAdds
<1>4. session \in Nat /\ clock \in Nat /\ started \in Nat
  BY <1>2, StartsAre
<1>5. Entries' = Entries \cup {new} /\ new.of = session
  BY <1>3 DEF OnePut
<1>6. Spaced(start)'
  BY <1>1 DEF Stamped, Spaced
<1>7. Placed(start)'
  <2>1. started <= clock
    BY DEF Stamped, Spaced
  <2>2. \A r \in {new} : /\ r.of = session /\ r.at \in Nat /\ started <= r.at /\ r.at <= clock'
                         /\ r.event \in {12, 41} => r.at = started
                         /\ r.event = 6008 => r.at - started \in Delays
    BY <1>1, <1>3, <1>4, <1>5, <2>1
  <2>3. clock' \in Nat /\ clock <= clock' /\ session' = session
    BY <1>1, <1>4
  <2>4. PICK E \in {{new}} : E = {new}
    OBVIOUS
  <2>5. Spaced(start) /\ Placed(start) /\ up /\ Entries' = Entries \cup E
    BY <1>1, <1>5, <2>4 DEF Stamped
  <2> QED
    BY <1>2, <2>2, <2>3, <2>4, <2>5, PlacedOnTop, SMTT(60)
<1>8. Preceded'
  <2>1. ~IsAsked(new) /\ ~IsClean(new)
    BY <1>3 DEF IsAsked, IsClean
  <2>2. \A r \in Entries : IsAsked(r) => r.of # session
    BY <1>1, <1>2 DEF IInv, Single, Entries
  <2>3. Last = session - 1
    BY <1>1 DEF Last
  <2>4. \A r \in Entries : IsClean(r) => r.of <= session - 1
    BY <2>3 DEF History, Stopped
  <2>5. \A r \in Entries : r.of \in Nat
    BY <1>2, StartsAre
  <2>6. \A r \in Entries : IsClean(r) => r.of # session
    BY <1>4, <2>4, <2>5
  <2> QED
    BY <1>5, <2>1, <2>2, <2>6 DEF Stamped, Preceded
<1>9. Clocked'
  BY <1>1 DEF Stamped, Clocked
<1> QED
  BY <1>6, <1>7, <1>8, <1>9 DEF Stamped

LEMMA ServiceStamps ==
  ASSUME History, NEW start \in [Sessions -> Nat], Stamped(start),
         NEW event \in {6005, 6008}, NEW d \in Lags, WriteService(event, d)
  PROVE  Stamped(start)'
<1>1. /\ up /\ event \in owed /\ (event = 6008 => 6005 \notin owed) /\ owed' = owed \ {event}
      /\ clock' = clock + d /\ UNCHANGED <<up, session, started, began>>
  BY DEF WriteService
<1>2. IInv /\ Types /\ d \in Nat
  BY TimeAssumption DEF History, IInv
<1>3. PICK new : OnePut(new) /\ new.event = event /\ new.at = clock + d
  BY <1>2, ServiceAdds
<1>4. session \in Nat /\ clock \in Nat /\ started \in Nat /\ started <= clock
  BY <1>2, StartsAre DEF Stamped, Spaced
<1>5. Entries' = Entries \cup {new} /\ new.of = session
  BY <1>3 DEF OnePut
<1>6. Spaced(start)'
  BY <1>1, <1>2, <1>4 DEF Stamped, Spaced
<1>7. Placed(start)'
  <2>1. event = 6008 => new.at - started \in Delays
    <3>1. ASSUME event = 6008 PROVE new.at - started = (clock - started) + d
      BY <1>2, <1>3, <1>4
    <3>2. event = 6008 => clock - started \in Lags
      BY <1>1 DEF Stamped, Clocked
    <3> QED
      BY <3>1, <3>2 DEF Delays
  <2>2. \A r \in {new} : /\ r.of = session /\ r.at \in Nat /\ started <= r.at /\ r.at <= clock'
                         /\ r.event \in {12, 41} => r.at = started
                         /\ r.event = 6008 => r.at - started \in Delays
    BY <1>1, <1>2, <1>3, <1>4, <1>5, <2>1
  <2>3. clock' \in Nat /\ clock <= clock' /\ session' = session
    BY <1>1, <1>2, <1>4
  <2>4. PICK E \in {{new}} : E = {new}
    OBVIOUS
  <2>5. Spaced(start) /\ Placed(start) /\ up /\ Entries' = Entries \cup E
    BY <1>1, <1>5, <2>4 DEF Stamped
  <2> QED
    BY <1>2, <2>2, <2>3, <2>4, <2>5, PlacedOnTop, SMTT(60)
<1>8. Preceded'
  <2>1. ~IsAsked(new) /\ ~IsClean(new)
    BY <1>3 DEF IsAsked, IsClean
  <2>2. \A r \in Entries : IsAsked(r) => r.of # session
    BY <1>1, <1>2 DEF IInv, Single, Entries
  <2>3. Last = session - 1
    BY <1>1 DEF Last
  <2>4. \A r \in Entries : IsClean(r) => r.of <= session - 1
    BY <2>3 DEF History, Stopped
  <2>5. \A r \in Entries : r.of \in Nat
    BY <1>2, StartsAre
  <2>6. \A r \in Entries : IsClean(r) => r.of # session
    BY <1>4, <2>4, <2>5
  <2> QED
    BY <1>5, <2>1, <2>2, <2>6 DEF Stamped, Preceded
<1>9. Clocked'
  <2>1. 6005 \notin owed'
    BY <1>1
  <2>2. ASSUME 6008 \in owed' PROVE clock' - started \in Lags
    <3>1. event = 6005
      BY <1>1, <2>2
    <3>2. clock = started
      BY <1>1, <3>1 DEF Stamped, Clocked
    <3>3. clock' - started = d
      BY <1>1, <1>2, <1>4, <3>2
    <3> QED
      BY <3>3
  <2> QED
    BY <1>1, <2>1, <2>2 DEF Clocked
<1> QED
  BY <1>6, <1>7, <1>8, <1>9 DEF Stamped

\* What is written once the start-up is over is stamped later than all the rest.
LEMMA LateRecords ==
  ASSUME History, NEW start \in [Sessions -> Nat], Stamped(start), up, owed = {}, owed' = {},
         NEW E, Entries' = Entries \cup E, UNCHANGED <<session, started, began>>,
         up' \in BOOLEAN,
         clock' \in Nat, clock < clock', began + MinSession <= clock',
         \A r \in E : r.of = session /\ r.at = clock' /\ r.event \in {1074, 13, 6006}
  PROVE  Stamped(start)'
<1>1. IInv /\ session \in Nat /\ clock \in Nat /\ started \in Nat /\ started <= clock /\ began = started
  BY StartsAre DEF History, Stamped, Spaced
<1>2. Spaced(start)'
  <2>1. started' <= clock' /\ began' = started' /\ started' + MinSession <= clock'
    BY <1>1
  <2> QED
    BY <2>1 DEF Stamped, Spaced
<1>3. Placed(start)'
  <2>1. \A r \in E : /\ r.of = session /\ r.at \in Nat /\ started <= r.at /\ r.at <= clock'
                     /\ r.event \in {12, 41} => r.at = started
                     /\ r.event = 6008 => r.at - started \in Delays
    BY <1>1
  <2>2. Spaced(start) /\ Placed(start) /\ clock <= clock'
    BY <1>1 DEF Stamped
  <2> QED
    BY <1>1, <2>1, <2>2, PlacedOnTop, SMTT(60)
<1>4. Preceded'
  <2>1. \A q \in E : q.event \notin {12, 6005}
    OBVIOUS
  <2>2. \A q \in Entries : q.at < clock'
    <3>1. \A q \in Entries : q.at \in Nat /\ q.at <= clock
      BY <1>1, StartsAre DEF Stamped, Placed
    <3> QED
      BY <1>1, <3>1
  <2> QED
    BY <2>1, <2>2 DEF Stamped, Preceded
<1>5. Clocked'
  BY DEF Clocked
<1> QED
  BY <1>2, <1>3, <1>4, <1>5 DEF Stamped

LEMMA GoesOn ==
  ASSUME IInv, NEW d \in Uptimes \cup Closings, Goes(d)
  PROVE  /\ up /\ owed = {} /\ clock' = Later(d)
         /\ clock' \in Nat /\ clock < clock' /\ began + MinSession <= clock'
<1>1. d \in Nat /\ d > 0 /\ clock \in Nat /\ began \in Int /\ MinSession \in Nat
  BY TimeAssumption DEF IInv, Types
<1>2. Later(d) \in Nat /\ Later(d) >= clock + d /\ Later(d) >= began + MinSession
  BY <1>1, LaterIs DEF IInv
<1>3. up /\ owed = {} /\ clock' = Later(d)
  BY DEF Goes
<1> QED
  BY <1>1, <1>2, <1>3

LEMMA AskStamps ==
  ASSUME History, NEW start \in [Sessions -> Nat], Stamped(start),
         NEW q \in Requests, NEW d \in Uptimes \cup Closings, Ask(q, d)
  PROVE  Stamped(start)'
<1>1. IInv /\ Types /\ d \in Nat
  BY TimeAssumption DEF History, IInv
<1>2. Goes(d) /\ UNCHANGED <<up, session, started, began, owed>>
  BY DEF Ask
<1>3. /\ up /\ owed = {} /\ clock' = Later(d)
      /\ clock' \in Nat /\ clock < clock' /\ began + MinSession <= clock'
  BY <1>1, <1>2, GoesOn
<1>4. PICK new : OnePut(new) /\ new.event = 1074 /\ new.at = Later(d)
  BY <1>1, AskAdds
<1>5. PICK E \in {{new}} : E = {new}
  OBVIOUS
<1>6. Entries' = Entries \cup E
      /\ \A r \in E : r.of = session /\ r.at = clock' /\ r.event \in {1074, 13, 6006}
  BY <1>3, <1>4, <1>5 DEF OnePut
<1>7. up' \in BOOLEAN /\ owed' = {}
  BY <1>1, <1>2, <1>3 DEF Types
<1> QED
  BY <1>2, <1>3, <1>6, <1>7, LateRecords, SMTT(60)

LEMMA StopStamps ==
  ASSUME History, NEW start \in [Sessions -> Nat], Stamped(start),
         NEW events \in StopRecords, NEW d \in Uptimes \cup Closings, Stop(events, d)
  PROVE  Stamped(start)'
<1>1. IInv /\ Types /\ d \in Nat
  BY TimeAssumption DEF History, IInv
<1>2. Goes(d) /\ UNCHANGED <<session, started, began, owed>> /\ up' \in BOOLEAN
  BY DEF Stop
<1>3. /\ up /\ owed = {} /\ clock' = Later(d)
      /\ clock' \in Nat /\ clock < clock' /\ began + MinSession <= clock'
  BY <1>1, <1>2, GoesOn
<1>4. PICK new : EndPut(new, Later(d))
  BY <1>1, StopAdds
<1>5. PICK E \in {{new[k] : k \in DOMAIN new}} : E = {new[k] : k \in DOMAIN new}
  OBVIOUS
<1>6. Entries' = Entries \cup E
      /\ \A r \in E : r.of = session /\ r.at = clock' /\ r.event \in {1074, 13, 6006}
  BY <1>3, <1>4, <1>5 DEF EndPut
<1> QED
  BY <1>2, <1>3, <1>6, LateRecords, SMTT(60)

LEMMA FailStamps ==
  ASSUME History, NEW start \in [Sessions -> Nat], Stamped(start),
         NEW how \in {"power", "crash"}, NEW d \in Uptimes \cup Closings, Fail(how, d)
  PROVE  Stamped(start)'
<1>1. IInv
  BY DEF History
<1>2. Goes(d) /\ UNCHANGED <<session, started, began, owed, log>> /\ up' \in BOOLEAN
  BY DEF Fail
<1>3. /\ up /\ owed = {} /\ clock' = Later(d)
      /\ clock' \in Nat /\ clock < clock' /\ began + MinSession <= clock'
  BY <1>1, <1>2, GoesOn
<1>4. PICK E \in {{}} : E = {}
  OBVIOUS
<1>5. Entries' = Entries \cup E
      /\ \A r \in E : r.of = session /\ r.at = clock' /\ r.event \in {1074, 13, 6006}
  BY <1>2, <1>4 DEF Entries
<1> QED
  BY <1>2, <1>3, <1>5, LateRecords, SMTT(60)

\* As long as nothing sets the clock, the stamps follow the order of the sessions.
THEOREM SteadyHolds == ASSUME Steps = {} PROVE Spec => []Steady
<1>1. Init => Steady
  BY HistoryStarts, StampsStart DEF Steady
<1>2. ASSUME Steady, History', [Next]_vars PROVE Steady'
  <2>0. PICK start \in [Sessions -> Nat] : Stamped(start)
    BY <1>2 DEF Steady
  <2>h. History
    BY <1>2 DEF Steady
  <2>1. ASSUME NEW d \in Downtimes, Boot(d)
        PROVE  \E new \in [Sessions -> Nat] : Stamped(new)'
    BY <2>h, <2>0, <2>1, BootStamps
  <2>2. ASSUME NEW event \in {12, 41}, WriteKernel(event) PROVE Stamped(start)'
    BY <2>h, <2>0, <2>2, KernelStamps
  <2>3. ASSUME NEW event \in {6005, 6008}, NEW d \in Lags, WriteService(event, d)
        PROVE  Stamped(start)'
    BY <2>h, <2>0, <2>3, ServiceStamps
  <2>4. ASSUME NEW d \in Uptimes \cup Closings, NEW r \in Requests, Ask(r, d)
        PROVE  Stamped(start)'
    BY <2>h, <2>0, <2>4, AskStamps
  <2>5. ASSUME NEW d \in Uptimes \cup Closings, NEW events \in StopRecords, Stop(events, d)
        PROVE  Stamped(start)'
    BY <2>h, <2>0, <2>5, StopStamps
  <2>6. ASSUME NEW d \in Uptimes \cup Closings, NEW how \in {"power", "crash"}, Fail(how, d)
        PROVE  Stamped(start)'
    BY <2>h, <2>0, <2>6, FailStamps
  <2>7. CASE Over \/ UNCHANGED vars
    <3>1. UNCHANGED <<clock, up, session, started, began, owed, log>> /\ Entries' = Entries
      BY <2>7 DEF Over, vars, Entries
    <3>2. Stamped(start)'
      BY <2>0, <3>1 DEF Stamped, Spaced, Placed, Preceded, Clocked
    <3> QED
      BY <1>2, <3>2 DEF Steady
  <2>8. ASSUME NEW s \in Steps, StepClock(s) PROVE FALSE
    OBVIOUS
  <2> QED
    BY <1>2, <2>1, <2>2, <2>3, <2>4, <2>5, <2>6, <2>7, <2>8 DEF Next, Steady
<1> QED
  BY <1>1, <1>2, HistoryHolds, PTL DEF Spec

-----------------------------------------------------------------------------
(* What Latest finds in a log whose stamps follow the sessions.            *)

\* The boot starts when its session does, and the session before it is bounded by a marker
\* of that session's own.
LEMMA Bounds ==
  ASSUME History, NEW start \in [Sessions -> Nat], Stamped(start), up, 12 \notin owed
  PROVE  LET p == PreviousBoot(log)
         IN  /\ session \in Nat /\ session > 0 /\ started \in Nat
             /\ BootTime(log) = started /\ start[session] = started
             /\ session = 1 => p = 0
             /\ session > 1 => /\ p # 0 /\ p \in DOMAIN log /\ log[p] \in Entries
                               /\ log[p].of = session - 1 /\ log[p].event \in {12, 6005}
                               /\ log[p].at \in Nat /\ start[session - 1] \in Nat
                               /\ start[session - 1] <= log[p].at
<1> DEFINE a == Anchor(log)
           p == PreviousBoot(log)
<1>0. IInv /\ session > 0
  BY DEF History, IInv, Types
<1>1. /\ DOMAIN log \subseteq Nat \ {0} /\ session \in Nat
      /\ \A k \in DOMAIN log : log[k] \in Entries /\ log[k].of \in 1 .. session /\ log[k].at \in Nat
  BY <1>0, Places
<1>2. a \in DOMAIN log /\ a \in Nat \ {0} /\ log[a].event = 12 /\ log[a].of = session
  BY AnchorIsThisBoot
<1>3. start[session] = started /\ started \in Nat
  BY <1>0, StartsAre DEF Stamped, Spaced
<1>4. BootTime(log) = started
  <2>1. log[a].at = start[log[a].of]
    BY <1>1, <1>2 DEF Stamped, Placed
  <2> QED
    BY <1>2, <1>3, <2>1 DEF BootTime
<1>5. /\ session > 1 => p # 0
      /\ p # 0 => p \in DOMAIN log /\ IsBoundary(log, p) /\ log[p].of \in {session - 1, session}
  BY BoundaryIsNext
<1> HIDE DEF p
<1>6. ASSUME p # 0 PROVE log[p].of # session
  <2> SUFFICES ASSUME log[p].of = session PROVE FALSE
    OBVIOUS
  <2>1. p \in DOMAIN log /\ p \in Nat /\ p > a
    BY <1>1, <1>5, <1>6 DEF IsBoundary
  <2>2. start[session] <= log[p].at
    BY <1>1, <2>1 DEF Stamped, Placed
  <2>3. ~(log[p].at < log[a].at)
    BY <1>1, <1>3, <1>4, <2>1, <2>2 DEF BootTime
  <2>4. log[p].event = 12
    BY <1>2, <1>5, <1>6, <2>3 DEF IsBoundary
  <2>5. p = a
    BY <1>2, <2>1, <2>4 DEF History, OneStart
  <2> HIDE DEF a
  <2> QED
    BY <1>2, <2>1, <2>5
<1>7. session = 1 => p = 0
  <2>1. p # 0 => log[p].of \in 1 .. session
    BY <1>1, <1>5
  <2> QED
    BY <1>6, <2>1
<1>8. ASSUME session > 1
      PROVE  /\ p # 0 /\ p \in DOMAIN log /\ log[p] \in Entries
             /\ log[p].of = session - 1 /\ log[p].event \in {12, 6005}
             /\ log[p].at \in Nat /\ start[session - 1] \in Nat
             /\ start[session - 1] <= log[p].at
  <2>1. p # 0 /\ p \in DOMAIN log /\ log[p].of = session - 1 /\ log[p] \in Entries /\ log[p].at \in Nat
    BY <1>1, <1>5, <1>6, <1>8
  <2>2. log[p].event \in {12, 6005}
    BY <1>5, <2>1 DEF IsBoundary, IsBootMarker, IsOsStart, IsLogStart
  <2>3. start[session - 1] <= log[p].at
    BY <2>1 DEF Stamped, Placed
  <2>4. start[session - 1] \in Nat
    <3>1. session - 1 \in 1 .. session
      BY <1>1, <1>8
    <3> QED
      BY <1>0, <3>1, StartsAre
  <2> QED
    BY <2>1, <2>2, <2>3, <2>4
<1> QED
  BY <1>0, <1>1, <1>3, <1>4, <1>7, <1>8 DEF p

\* The records of an older session end before the last one starts.
LEMMA OlderIsBefore ==
  ASSUME History, NEW start \in [Sessions -> Nat], Stamped(start),
         NEW r \in Entries, r.of < session - 1
  PROVE  r.at < start[session - 1]
<1>1. IInv /\ MinSession \in Nat
  BY TimeAssumption DEF History
<1>2. r.of \in 1 .. session /\ r.at \in Nat /\ session \in Nat
  BY <1>1, EntriesOf, StartsAre
<1>3. r.of + 1 \in 1 .. session /\ session - 1 \in 1 .. session /\ r.of < session /\ r.of \in Nat
  BY <1>2
<1>4. start[r.of + 1] \in Nat /\ start[session - 1] \in Nat
  BY <1>1, <1>3, StartsAre
<1>5. r.at < start[r.of + 1]
  BY <1>3 DEF Stamped, Placed
<1>6. CASE r.of + 1 = session - 1
  BY <1>5, <1>6
<1>7. CASE r.of + 1 < session - 1
  <2>1. start[r.of + 1] + MinSession < start[session - 1]
    BY <1>3, <1>7 DEF Stamped, Spaced
  <2> QED
    BY <1>1, <1>2, <1>4, <1>5, <2>1
<1> QED
  BY <1>2, <1>3, <1>6, <1>7

\* The cycle holds the requests and clean ends of the last session, and of no other.
LEMMA CycleIs ==
  ASSUME History, NEW start \in [Sessions -> Nat], Stamped(start), up, 12 \notin owed,
         NEW r \in Entries, IsAsked(r) \/ IsClean(r)
  PROVE  InCycle(log, r.at) <=> r.of = session - 1
<1> DEFINE p == PreviousBoot(log)
<1>1. /\ session \in Nat /\ session > 0 /\ started \in Nat
      /\ BootTime(log) = started /\ start[session] = started
      /\ session = 1 => p = 0
      /\ session > 1 => /\ p # 0 /\ p \in DOMAIN log /\ log[p] \in Entries
                        /\ log[p].of = session - 1 /\ log[p].event \in {12, 6005}
                        /\ log[p].at \in Nat /\ start[session - 1] \in Nat
                        /\ start[session - 1] <= log[p].at
  BY Bounds
<1>2. InCycle(log, r.at) <=> r.at < started /\ (p = 0 \/ r.at > log[p].at)
  BY <1>1 DEF InCycle
<1> HIDE DEF p
<1>3. r.of \in 1 .. session /\ r.at \in Nat
  BY EntriesOf DEF History
<1>4. CASE r.of = session
  <2>1. start[session] <= r.at
    BY <1>4 DEF Stamped, Placed
  <2> QED
    BY <1>1, <1>2, <1>3, <1>4, <2>1
<1>5. CASE r.of = session - 1
  <2>1. session > 1 /\ r.of < session /\ r.of + 1 = session
    BY <1>1, <1>3, <1>5
  <2>2. r.at < started
    BY <1>1, <2>1 DEF Stamped, Placed
  <2>3. log[p].at < r.at
    BY <1>1, <1>5, <2>1 DEF Stamped, Preceded
  <2> QED
    BY <1>1, <1>2, <1>3, <1>5, <2>1, <2>2, <2>3
<1>6. CASE r.of < session - 1
  <2>1. session > 1
    BY <1>1, <1>3, <1>6
  <2>2. r.at < start[session - 1]
    BY <1>6, OlderIsBefore
  <2> QED
    BY <1>1, <1>2, <1>3, <1>6, <2>1, <2>2
<1> QED
  BY <1>1, <1>3, <1>4, <1>5, <1>6

\* The start-up's signs of a failure are near the boot if they are its own.
LEMMA NearIs ==
  ASSUME History, NEW start \in [Sessions -> Nat], Stamped(start), Separate, up, 12 \notin owed,
         NEW r \in Entries, r.event \in {41, 6008}
  PROVE  /\ NearBoot(log, r.at) => r.of = session
         /\ Punctual /\ r.of = session => NearBoot(log, r.at)
<1> DEFINE p == PreviousBoot(log)
<1>1. /\ session \in Nat /\ session > 0 /\ started \in Nat
      /\ BootTime(log) = started /\ start[session] = started
      /\ session = 1 => p = 0
      /\ session > 1 => /\ p # 0 /\ p \in DOMAIN log /\ log[p] \in Entries
                        /\ log[p].of = session - 1 /\ log[p].event \in {12, 6005}
                        /\ log[p].at \in Nat /\ start[session - 1] \in Nat
                        /\ start[session - 1] <= log[p].at
  BY Bounds
<1>2. NearBoot(log, r.at) <=> /\ r.at - started \in -BeforeBoot .. AfterBoot
                              /\ r.at < started =>
                                   (p = 0 \/ started - r.at < r.at - log[p].at)
  BY <1>1 DEF NearBoot
<1> HIDE DEF p
<1>3. r.of \in 1 .. session /\ r.at \in Nat
  BY OfSession DEF History
<1>4. MinSession \in Nat /\ BeforeBoot \in Nat /\ AfterBoot \in Nat
      /\ \A d \in Delays : d \in Nat
  BY TimeAssumption DEF Delays
<1>5. start[r.of] <= r.at /\ (r.event = 41 => r.at = start[r.of])
      /\ (r.event = 6008 => r.at - start[r.of] \in Delays)
  BY DEF Stamped, Placed
<1>6. CASE r.of = session
  <2>1. ASSUME Punctual PROVE r.at - started \in 0 .. AfterBoot
    <3>1. r.event = 6008 => r.at - started \in Nat /\ r.at - started <= AfterBoot
      BY <1>1, <1>4, <1>5, <1>6, <2>1 DEF Punctual
    <3>2. r.event = 41 => r.at - started = 0
      BY <1>1, <1>3, <1>5, <1>6
    <3> QED
      BY <1>1, <1>3, <1>4, <3>1, <3>2
  <2>2. started <= r.at
    BY <1>1, <1>5, <1>6
  <2> QED
    BY <1>1, <1>2, <1>3, <1>4, <1>6, <2>1, <2>2
<1>7. CASE r.of = session - 1
  <2>1. session > 1 /\ session - 1 \in 1 .. session /\ session \in 1 .. session /\ session - 1 < session
    BY <1>1, <1>3, <1>7
  <2>2. start[session - 1] + MinSession < started
    BY <1>1, <2>1 DEF Stamped, Spaced
  <2>3. ~NearBoot(log, r.at)
    <3>1. CASE r.event = 41
      BY <1>1, <1>2, <1>3, <1>4, <1>5, <1>7, <2>1, <2>2, <3>1
    <3>2. CASE r.event = 6008
      <4>1. PICK d \in Delays : d = r.at - start[session - 1]
        BY <1>5, <1>7, <3>2
      <4>2. d \in Nat /\ r.at = start[session - 1] + d
        BY <1>1, <1>3, <1>4, <2>1, <4>1
      <4>3. CASE d + d <= MinSession + 1
        <5>1. d <= started - r.at
          BY <1>1, <1>4, <2>1, <2>2, <4>2, <4>3
        <5>2. r.at - log[p].at <= d /\ (d > 0 \/ r.at < started)
          BY <1>1, <1>4, <2>1, <2>2, <4>2
        <5>3. r.at < started
          BY <1>1, <1>3, <1>4, <5>1, <5>2, <4>2
        <5> QED
          BY <1>1, <1>2, <1>3, <2>1, <4>2, <5>1, <5>2, <5>3
      <4>4. CASE d + BeforeBoot <= MinSession
        <5>1. r.at - started < -BeforeBoot
          BY <1>1, <1>4, <2>1, <2>2, <4>2, <4>4
        <5> QED
          BY <1>1, <1>2, <1>3, <1>4, <5>1
      <4> QED
        BY <4>1, <4>3, <4>4 DEF Separate
    <3> QED
      BY <3>1, <3>2
  <2> QED
    BY <1>1, <1>3, <1>7, <2>3
<1>8. CASE r.of < session - 1
  <2>1. session > 1 /\ session - 1 \in 1 .. session /\ session \in 1 .. session /\ session - 1 < session
    BY <1>1, <1>3, <1>8
  <2>2. r.at < start[session - 1]
    BY <1>8, OlderIsBefore
  <2>3. start[session - 1] + MinSession < started
    BY <1>1, <2>1 DEF Stamped, Spaced
  <2>4. ~NearBoot(log, r.at)
    BY <1>1, <1>2, <1>3, <1>4, <2>1, <2>2, <2>3
  <2> QED
    BY <1>1, <1>3, <1>8, <2>4
<1> QED
  BY <1>1, <1>3, <1>6, <1>7, <1>8

-----------------------------------------------------------------------------
(* What Latest reports, when nothing sets the clock while the machine runs. *)

\* A sign of a failure that is found is of this boot, and a boot that shows all of its
\* signs is told what it was.
LEMMA SignsAre ==
  ASSUME History, NEW start \in [Sessions -> Nat], Stamped(start), Separate, up, 12 \notin owed
  PROVE  /\ \A k \in {Crash(log), Unexpected(log)} \ {0} : k \in DOMAIN log /\ log[k].of = session
         /\ Crash(log) # 0 => failed = "crash"
         /\ Unexpected(log) # 0 => failed # "no"
         /\ Punctual /\ owed = {} =>
              /\ failed = "crash" => Crash(log) # 0
              /\ failed # "no" => Unexpected(log) # 0
<1>0. IInv
  BY DEF History
<1>1. /\ DOMAIN log \subseteq Nat \ {0}
      /\ \A k \in DOMAIN log : log[k] \in Entries /\ log[k].own = TRUE
      /\ \A r \in Entries : \E k \in DOMAIN log : r = log[k]
  BY <1>0, Places
<1>2. ASSUME Crash(log) # 0
      PROVE  /\ Crash(log) \in DOMAIN log /\ log[Crash(log)].of = session
             /\ failed = "crash"
  <2>1. PICK k \in DOMAIN log : k = Crash(log) /\ IsCoded(log[k]) /\ NearBoot(log, log[k].at)
    BY <1>1, <1>2, CrashIs
  <2>2. log[k] \in Entries /\ log[k].event \in {41, 6008}
    BY <1>1, <2>1 DEF IsCoded
  <2>3. log[k].of = session
    BY <2>1, <2>2, NearIs
  <2> QED
    BY <2>1, <2>2, <2>3 DEF History, Signs
<1>3. ASSUME Unexpected(log) # 0
      PROVE  /\ Unexpected(log) \in DOMAIN log /\ log[Unexpected(log)].of = session
             /\ failed # "no"
  <2>1. PICK k \in DOMAIN log : k = Unexpected(log) /\ IsDirty(log[k]) /\ NearBoot(log, log[k].at)
    BY <1>1, <1>3, UnexpectedIs
  <2>2. log[k] \in Entries /\ log[k].event \in {41, 6008} /\ log[k].event = 6008
    BY <1>1, <2>1 DEF IsDirty
  <2>3. log[k].of = session
    BY <2>1, <2>2, NearIs
  <2> QED
    BY <2>1, <2>2, <2>3 DEF History, Signs
<1>4. ASSUME Punctual, owed = {}, failed = "crash" PROVE Crash(log) # 0
  <2>1. PICK r \in Entries : r.of = session /\ IsCoded(r)
    BY <1>4 DEF History, Signs
  <2>2. NearBoot(log, r.at)
    BY <1>4, <2>1, NearIs DEF IsCoded
  <2>3. PICK k \in DOMAIN log : r = log[k]
    BY <1>1
  <2> QED
    BY <1>1, <2>1, <2>2, <2>3, CrashIs
<1>5. ASSUME Punctual, owed = {}, failed # "no" PROVE Unexpected(log) # 0
  <2>1. PICK r \in Entries : r.of = session /\ r.event = 6008
    BY <1>5 DEF History, Signs
  <2>2. NearBoot(log, r.at)
    BY <1>5, <2>1, NearIs
  <2>3. PICK k \in DOMAIN log : r = log[k]
    BY <1>1
  <2>4. IsDirty(log[k])
    BY <1>1, <2>1, <2>3 DEF IsDirty
  <2> QED
    BY <1>1, <2>2, <2>3, <2>4, UnexpectedIs
<1> QED
  BY <1>2, <1>3, <1>4, <1>5

\* The request and the clean end that are found are the last session's, and they are found
\* when there is one.
LEMMA EndsAre ==
  ASSUME History, NEW start \in [Sessions -> Nat], Stamped(start), up, 12 \notin owed
  PROVE  /\ Request(log) # 0 => /\ Request(log) \in DOMAIN log /\ log[Request(log)] \in Entries
                                /\ IsAsked(log[Request(log)]) /\ log[Request(log)].of = session - 1
         /\ Request(log) = 0 => \A r \in Entries : IsAsked(r) => r.of # session - 1
         /\ CleanStop(log) # 0 => /\ CleanStop(log) \in DOMAIN log /\ log[CleanStop(log)] \in Entries
                                  /\ IsClean(log[CleanStop(log)])
                                  /\ log[CleanStop(log)].of = session - 1
         /\ CleanStop(log) = 0 => \A r \in Entries : IsClean(r) => r.of # session - 1
<1>0. IInv /\ Types
  BY DEF History, IInv
<1>1. /\ DOMAIN log \subseteq Nat \ {0}
      /\ \A k \in DOMAIN log : log[k] \in Entries
      /\ \A r \in Entries : \E k \in DOMAIN log : r = log[k]
  BY <1>0, Places
<1>2. \A k \in DOMAIN log : IsShutdownRequest(log[k]) <=> IsAsked(log[k])
  BY <1>0, Asked
<1>3. ASSUME Request(log) # 0
      PROVE  /\ Request(log) \in DOMAIN log /\ log[Request(log)] \in Entries
             /\ IsAsked(log[Request(log)]) /\ log[Request(log)].of = session - 1
  <2>1. PICK k \in DOMAIN log : k = Request(log) /\ IsAsked(log[k]) /\ InCycle(log, log[k].at)
    BY <1>1, <1>2, <1>3, RequestIs
  <2>2. log[k].of = session - 1
    BY <1>1, <2>1, CycleIs
  <2> QED
    BY <1>1, <2>1, <2>2
<1>4. ASSUME Request(log) = 0, NEW r \in Entries, IsAsked(r) PROVE r.of # session - 1
  <2>1. PICK k \in DOMAIN log : r = log[k]
    BY <1>1
  <2>2. ~InCycle(log, r.at)
    BY <1>1, <1>2, <1>4, <2>1, RequestIs
  <2> QED
    BY <1>4, <2>2, CycleIs
<1>5. ASSUME CleanStop(log) # 0
      PROVE  /\ CleanStop(log) \in DOMAIN log /\ log[CleanStop(log)] \in Entries
             /\ IsClean(log[CleanStop(log)]) /\ log[CleanStop(log)].of = session - 1
  <2>1. PICK k \in DOMAIN log : k = CleanStop(log) /\ IsClean(log[k]) /\ InCycle(log, log[k].at)
    BY <1>1, <1>5, CleanStopIs
  <2>2. log[k].of = session - 1
    BY <1>1, <2>1, CycleIs
  <2> QED
    BY <1>1, <2>1, <2>2
<1>6. ASSUME CleanStop(log) = 0, NEW r \in Entries, IsClean(r) PROVE r.of # session - 1
  <2>1. PICK k \in DOMAIN log : r = log[k]
    BY <1>1
  <2>2. ~InCycle(log, r.at)
    BY <1>1, <1>6, <2>1, CleanStopIs
  <2> QED
    BY <1>6, <2>2, CycleIs
<1> QED
  BY <1>3, <1>4, <1>5, <1>6

\* The sign of a failure that is reported is of the boot that is reported, in a session
\* that lasts long enough to tell it from the next.
THEOREM FailureIsOwn == ASSUME Steps = {}, Separate PROVE Spec => []FailureIsOfThisBoot
<1>1. ASSUME Steady PROVE FailureIsOfThisBoot
  <2>1. PICK start \in [Sessions -> Nat] : Stamped(start)
    BY <1>1 DEF Steady
  <2> SUFFICES ASSUME up, owed = {}
               PROVE  \A k \in {Crash(log), Unexpected(log)} \ {0} : log[k].of = session
    BY DEF FailureIsOfThisBoot, SettledIn
  <2> QED
    BY <1>1, <2>1, SignsAre DEF Steady
<1> QED
  BY SteadyHolds, <1>1, PTL

\* Once its records are written, the boot is given the category of what caused it.
THEOREM CategoryIsCause ==
  ASSUME Steps = {}, Separate, Punctual, Honest PROVE Spec => []ReasonIsRight
<1>1. ASSUME Steady PROVE ReasonIsRight
  <2>1. History
    BY <1>1 DEF Steady
  <2>2. PICK start \in [Sessions -> Nat] : Stamped(start)
    BY <1>1 DEF Steady
  <2> SUFFICES ASSUME up, owed = {} PROVE Category(log) = cause[session]
    BY DEF ReasonIsRight, SettledIn
  <2>3. /\ Crash(log) # 0 <=> failed = "crash"
        /\ Unexpected(log) # 0 <=> failed # "no"
    BY <2>1, <2>2, SignsAre
  <2>4. /\ Request(log) # 0 => /\ log[Request(log)] \in Entries
                               /\ IsAsked(log[Request(log)]) /\ log[Request(log)].of = session - 1
        /\ Request(log) = 0 => \A r \in Entries : IsAsked(r) => r.of # session - 1
        /\ CleanStop(log) # 0 => /\ log[CleanStop(log)] \in Entries
                                 /\ log[CleanStop(log)].of = session - 1
        /\ CleanStop(log) = 0 => \A r \in Entries : IsClean(r) => r.of # session - 1
    BY <2>1, <2>2, EndsAre
  <2>5. /\ failed \in {"no", "power", "crash"} /\ session \in Nat /\ session > 0
        /\ \A r \in Entries : r.of \in 1 .. session
    <3>1. IInv /\ failed \in {"no", "power", "crash"} /\ session \in Nat /\ session > 0
      BY <2>1, TimeAssumption DEF History, IInv, Types
    <3> QED
      BY <3>1, OfSession
  <2>6. CASE failed = "crash"
    BY <2>1, <2>3, <2>6 DEF Category, History, Caused
  <2>7. CASE failed = "power"
    BY <2>1, <2>3, <2>7 DEF Category, History, Caused
  <2>8. CASE failed = "no" /\ session = 1
    <3>1. Request(log) = 0 /\ CleanStop(log) = 0
      BY <2>4, <2>5, <2>8
    <3> QED
      BY <2>1, <2>3, <2>8, <3>1 DEF Category, History, Caused
  <2>9. CASE failed = "no" /\ session > 1
    <3>1. CASE Request(log) # 0
      <4>1. PICK r \in Entries : r = log[Request(log)] /\ IsAsked(r) /\ r.of = session - 1
        BY <2>4, <3>1
      <4>2. cause[session] = r.data.kind /\ r.data \in Requests
        BY <2>1, <2>9, <4>1 DEF History, Caused, Requested
      <4>3. Category(log) = RequestCategory(r.data)
        BY <2>3, <2>9, <3>1, <4>1 DEF Category
      <4> QED
        BY <4>2, <4>3 DEF Honest
    <3>2. CASE Request(log) = 0
      <4>1. cause[session] = "shutdown"
        BY <2>1, <2>4, <2>9, <3>2 DEF History, Caused
      <4>2. Last = session - 1 /\ Last > 0
        BY <2>5, <2>9 DEF Last
      <4>3. CleanStop(log) # 0
        BY <2>1, <2>4, <2>9, <4>2 DEF History, Stopped
      <4> QED
        BY <2>3, <2>9, <3>2, <4>1, <4>3 DEF Category
    <3> QED
      BY <3>1, <3>2
  <2> QED
    BY <2>5, <2>6, <2>7, <2>8, <2>9
<1> QED
  BY SteadyHolds, <1>1, PTL

\* The greater of zero and a natural number.
LEMMA NotNegative == ASSUME NEW d \in Nat PROVE Max({0, d}) = d
<1>1. \A y \in {0, d} : d >= y
  OBVIOUS
<1>2. \A x \in {0, d} : (\A y \in {0, d} : x >= y) => x = d
  OBVIOUS
<1> QED
  BY <1>1, <1>2 DEF Max

\* The downtime that is reported is how long the machine was off, and none after a failure.
THEOREM DowntimeHolds == ASSUME Steps = {} PROVE Spec => []DowntimeIsTrue
<1>1. ASSUME Steady PROVE DowntimeIsTrue
  <2>1. History
    BY <1>1 DEF Steady
  <2>2. PICK start \in [Sessions -> Nat] : Stamped(start)
    BY <1>1 DEF Steady
  <2> SUFFICES ASSUME up, owed = {}
               PROVE  Downtime(log) = IF stopped = 0 THEN 0 ELSE started - stopped
    BY DEF DowntimeIsTrue, SettledIn
  <2>3. BootTime(log) = started /\ session \in Nat /\ start[session] = started /\ started \in Nat
    BY <2>1, <2>2, Bounds
  <2>4. Last = session - 1
    BY DEF Last
  <2>5. CASE CleanStop(log) = 0
    <3>1. \A r \in Entries : IsClean(r) => r.of # session - 1
      BY <2>1, <2>2, <2>5, EndsAre
    <3>2. stopped = 0
      BY <2>1, <2>4, <3>1 DEF History, Stopped
    <3> QED
      BY <2>5, <3>2 DEF Downtime
  <2>6. CASE CleanStop(log) # 0
    <3>1. PICK r \in Entries : r = log[CleanStop(log)] /\ IsClean(r) /\ r.of = session - 1
      BY <2>1, <2>2, <2>6, EndsAre
    <3>2. r.at = stopped /\ stopped # 0
      BY <2>1, <2>4, <3>1 DEF History, Stopped
    <3>3. r.of < session /\ r.of + 1 = session /\ stopped \in Nat
      BY <2>1, <2>3, <3>1 DEF History, IInv, Types
    <3>4. stopped < started
      BY <2>2, <2>3, <3>2, <3>3 DEF Stamped, Placed
    <3>5. started - stopped \in Nat
      BY <2>3, <3>3, <3>4
    <3> QED
      BY <2>3, <2>6, <3>1, <3>2, <3>5, NotNegative DEF Downtime
  <2> QED
    BY <2>5, <2>6
<1> QED
  BY SteadyHolds, <1>1, PTL

\* A run that reads this boot's records before they are all written never invents a failure.
THEOREM NoFailureInvented == ASSUME Steps = {}, Separate PROVE Spec => []NoFalseAlarm
<1>1. ASSUME Steady PROVE NoFalseAlarm
  <2>1. History
    BY <1>1 DEF Steady
  <2>2. PICK start \in [Sessions -> Nat] : Stamped(start)
    BY <1>1 DEF Steady
  <2> SUFFICES ASSUME up, Anchor(log) # 0, log[Anchor(log)].of = session,
                      Category(log) \in Failures
               PROVE  cause[session] \in Failures
    BY DEF NoFalseAlarm
  <2>3. Crash(log) # 0 \/ Unexpected(log) # 0
    <3>1. \A q : RequestCategory(q) \in {"shutdown", "update", "manual"}
      BY DEF RequestCategory
    <3> QED
      BY <3>1 DEF Category, Failures
  <2>4. IInv /\ session > 0 /\ failed \in {"no", "power", "crash"}
    BY <2>1 DEF History, IInv, Types
  <2>5. /\ DOMAIN log \subseteq Nat \ {0} /\ session \in Nat
        /\ \A k \in DOMAIN log : log[k] \in Entries /\ log[k].of \in 1 .. session /\ log[k].own = TRUE
        /\ \A r \in Entries : \E k \in DOMAIN log : r = log[k]
    BY <2>4, Places
  <2>6. failed # "no"
    <3>1. CASE 12 \notin owed
      BY <2>1, <2>2, <2>3, <3>1, SignsAre
    <3>2. CASE 12 \in owed /\ session = 1
      <4>1. PICK k \in DOMAIN log : IsCoded(log[k]) \/ IsDirty(log[k])
        BY <2>3, <2>5, CrashIs, UnexpectedIs
      <4>2. log[k] \in Entries /\ log[k].of = session
        BY <2>5, <3>2
      <4> QED
        BY <2>1, <4>1, <4>2 DEF History, Signs, IsDirty
    <3>3. CASE 12 \in owed /\ session > 1
      <4>1. session - 1 \in 1 .. session /\ session - 1 < session
        BY <2>5, <3>3
      <4>2. PICK r \in Entries : r.of = session - 1 /\ r.event = 12
        BY <2>1, <4>1 DEF History, StartUp
      <4>3. PICK k \in DOMAIN log : r = log[k]
        BY <2>5
      <4>4. IsOsStart(log[k])
        BY <2>5, <4>2, <4>3 DEF IsOsStart
      <4>5. Anchor(log) \in DOMAIN log /\ IsOsStart(log[Anchor(log)])
        BY <2>5, <4>4, AnchorIs
      <4>6. log[Anchor(log)] \in Entries /\ log[Anchor(log)].event = 12
        BY <2>5, <4>5 DEF IsOsStart
      <4> QED
        BY <2>1, <3>3, <4>6 DEF History, StartUp
    <3> QED
      BY <2>4, <2>5, <3>1, <3>2, <3>3
  <2> QED
    BY <2>1, <2>4, <2>6 DEF History, Caused, Failures
<1> QED
  BY SteadyHolds, <1>1, PTL
=============================================================================
