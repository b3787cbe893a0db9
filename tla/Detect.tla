------------------------------- MODULE Detect -------------------------------
(***************************************************************************)
(* internal/detect: what a list of System-log records says about the       *)
(* latest boot (Latest) and about a shutdown under way (PendingShutdown).  *)
(* Records are ordered newest-first, in the order the log wrote them, and  *)
(* carry the wall clock's stamp: the two can disagree when the clock is    *)
(* stepped.  A record is                                                   *)
(*   [event  |-> its EventID,                                              *)
(*    own    |-> whether its provider is the one the code expects,         *)
(*    at     |-> its stamp,                                                *)
(*    data   |-> a bug-check code (41) or a request (1074)]                *)
(***************************************************************************)
EXTENDS Integers, Sequences, FiniteSetsExt

CONSTANTS
  BeforeBoot,   \* nearBoot's reach before a boot (2 minutes)
  AfterBoot     \* markerAfterBootWindow (15 minutes)

\* The index of the newest record that passes the test, 0 when none does.
First(records, Test(_)) ==
  LET found == {k \in DOMAIN records : Test(records[k])}
  IN  IF found = {} THEN 0 ELSE Min(found)

-----------------------------------------------------------------------------
(* What one record is.                                                     *)

IsOsStart(r) == r.event = 12 /\ r.own
IsLogStart(r) == r.event = 6005 /\ r.own
IsBootMarker(r) == IsOsStart(r) \/ IsLogStart(r)
IsShutdownRequest(r) == r.event = 1074 /\ r.own

\* parseHex: the flags of a readable 32-bit code, none of an unreadable one.
ParseHex(text) == IF text.readable THEN text.flags ELSE {}

\* The request's own type says whether the machine is to stay off.
IsPowerOff(request) == request.type = "power off"

\* Servicing: by the process, by a planned reason of the operating system, or by
\* a planned request of SYSTEM.
IsUpdate(request) ==
  LET code == ParseHex(request.code)
  IN  \/ request.process = "servicing"
      \/ {"planned", "os"} \subseteq code
      \/ "planned" \in code /\ request.user = "system"

\* The vocabulary of a boot's category, which notify_on is written in.
Categories == {"update", "manual", "shutdown", "unexpected", "crash", "unknown"}

\* Mutant: the request's own word for the shutdown is passed on as the category.
RequestCategoryRaw(request) == request.type

\* A power-off wins over the update heuristic.
RequestCategory(request) ==
  IF IsPowerOff(request) THEN "shutdown"
  ELSE IF IsUpdate(request) THEN "update" ELSE "manual"

-----------------------------------------------------------------------------
(* Latest.                                                                 *)

\* The anchor: the newest Kernel-General 12, else the newest EventLog 6005.
Anchor(records) ==
  LET os == First(records, IsOsStart)
  IN  IF os # 0 THEN os ELSE First(records, IsLogStart)

\* Mutant: the anchor's own companion marker is taken for the previous boot.
PreviousBootAny(records) ==
  LET b == Anchor(records)
      older == {k \in DOMAIN records : k > b /\ IsBootMarker(records[k])}
  IN  IF older = {} THEN 0 ELSE Min(older)

\* Mutant: the newest marker with an earlier stamp is taken, wherever it is in the log.
PreviousBootByStamp(records) ==
  LET b == Anchor(records)
      older == {k \in DOMAIN records : k > b /\ IsBootMarker(records[k])
                                             /\ records[k].at < records[b].at}
  IN  IF older = {} THEN 0 ELSE Min(older)

\* The previous boot's marker: the next one in log order that is not the anchor's
\* companion.  The companion has the other EventID and is not stamped earlier.
PreviousBoot(records) ==
  LET b == Anchor(records)
      older == {k \in DOMAIN records :
                  /\ k > b /\ IsBootMarker(records[k])
                  /\ \/ records[k].event = records[b].event
                     \/ records[k].at < records[b].at}
  IN  IF older = {} THEN 0 ELSE Min(older)

BootTime(records) == records[Anchor(records)].at

\* Mutant: records of every earlier session count.
InCycleUnbounded(records, t) == t < BootTime(records)

\* t belongs to the session that ended with this boot.
InCycle(records, t) ==
  LET prev == PreviousBoot(records)
  IN  t < BootTime(records) /\ (prev = 0 \/ t > records[prev].at)

\* Mutant: the window around the boot without the nearer-boot rule.
NearBootPlain(records, t) ==
  t - BootTime(records) \in -BeforeBoot .. AfterBoot

\* t is close enough to this boot for a record about how the last session ended,
\* and, if it is earlier, closer to this boot than to the previous one.
NearBoot(records, t) ==
  LET bt == BootTime(records)
      prev == PreviousBoot(records)
  IN  /\ t - bt \in -BeforeBoot .. AfterBoot
      /\ t < bt => (prev = 0 \/ bt - t < t - records[prev].at)

\* The records Latest reads, by index; 0 where there is none.
Request(records) ==
  First(records, LAMBDA r : IsShutdownRequest(r) /\ InCycle(records, r.at))

Unexpected(records) ==
  First(records, LAMBDA r : r.event = 6008 /\ r.own /\ NearBoot(records, r.at))

Crash(records) ==
  First(records, LAMBDA r : /\ r.event = 41 /\ r.own
                            /\ ParseHex(r.data) # {} /\ NearBoot(records, r.at))

\* The clean end of the last session: Kernel-General 13, else EventLog 6006.
CleanStop(records) ==
  LET halt == First(records, LAMBDA r : r.event = 13 /\ r.own /\ InCycle(records, r.at))
  IN  IF halt # 0 THEN halt
      ELSE First(records, LAMBDA r : r.event = 6006 /\ r.own /\ InCycle(records, r.at))

Downtime(records) ==
  IF CleanStop(records) = 0 THEN 0
  ELSE Max({0, BootTime(records) - records[CleanStop(records)].at})

\* A failure outranks the request, a request outranks a clean stop.
Category(records) ==
  IF Crash(records) # 0 THEN "crash"
  ELSE IF Unexpected(records) # 0 THEN "unexpected"
  ELSE IF Request(records) # 0 THEN RequestCategory(records[Request(records)].data)
  ELSE IF CleanStop(records) # 0 THEN "shutdown" ELSE "unknown"

-----------------------------------------------------------------------------
(* PendingShutdown.                                                        *)

\* Mutant: "after" is decided by stamps, not by the order of the log.
PendingShutdownByStamp(records, now, recent) ==
  LET e == First(records, IsShutdownRequest)
      b == First(records, IsBootMarker)
  IN  IF /\ e # 0
         /\ now - records[e].at <= recent /\ records[e].at <= now + BeforeBoot
         /\ ~(b # 0 /\ records[b].at > records[e].at)
      THEN e ELSE 0

\* Mutant: recency alone decides.
PendingShutdownRecent(records, now, recent) ==
  LET e == First(records, IsShutdownRequest)
  IN  IF e # 0 /\ now - records[e].at <= recent /\ records[e].at <= now + BeforeBoot
      THEN e ELSE 0

\* The index of the request that describes the shutdown under way, 0 for none: the
\* newest one, if it is recent and no boot marker was written after it.
PendingShutdown(records, now, recent) ==
  LET e == First(records, IsShutdownRequest)
      b == First(records, IsBootMarker)
  IN  IF /\ e # 0
         /\ now - records[e].at <= recent /\ records[e].at <= now + BeforeBoot
         /\ ~(b # 0 /\ b < e)
      THEN e ELSE 0
=============================================================================
