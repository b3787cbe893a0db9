---------------------------- MODULE DetectProofs ----------------------------
(* What PendingShutdown and Latest find in a list of records, for every list:  *)
(* the lemmas the proofs about Service and Sessions rest on.                   *)
EXTENDS Detect, WellFoundedInduction, TLAPS

\* Min is the least element of a set of natural numbers that is not empty.
LEMMA MinIsLeast ==
  ASSUME NEW S \in SUBSET Nat, S # {}
  PROVE  Min(S) \in S /\ \A y \in S : Min(S) <= y
<1>1. PICK x \in S : \A y \in S : ~(<<y, x>> \in OpToRel(<, Nat))
  BY NatLessThanWellFounded, WFMin, Zenon
<1>2. \A y \in S : x <= y
  <2> TAKE y \in S
  <2>1. x \in Nat /\ y \in Nat
    OBVIOUS
  <2>2. <<y, x>> \in Nat \X Nat
    BY <2>1
  <2>3. ~(y < x)
    BY <1>1, <2>2 DEF OpToRel
  <2> QED
    BY <2>1, <2>3
<1> QED
  BY <1>2 DEF Min

\* Record e is a request that nothing in the list is newer than, among requests and
\* boot markers.
IsTop(records, e) ==
  /\ e \in DOMAIN records /\ IsShutdownRequest(records[e])
  /\ \A j \in DOMAIN records :
       j < e => ~IsShutdownRequest(records[j]) /\ ~IsBootMarker(records[j])

\* Its stamp can be that of the request under way.
IsPlausible(r, now, recent) == now - r.at <= recent /\ r.at <= now + BeforeBoot

\* The newest request and the newest marker.
LEMMA FirstRequest ==
  ASSUME NEW records, DOMAIN records \subseteq Nat \ {0}
  PROVE  LET e == First(records, IsShutdownRequest)
         IN  \/ e = 0 /\ \A k \in DOMAIN records : ~IsShutdownRequest(records[k])
             \/ /\ e \in DOMAIN records /\ IsShutdownRequest(records[e])
                /\ \A k \in DOMAIN records : IsShutdownRequest(records[k]) => e <= k
<1> DEFINE found == {k \in DOMAIN records : IsShutdownRequest(records[k])}
<1>1. found \in SUBSET Nat
  OBVIOUS
<1>2. First(records, IsShutdownRequest) = IF found = {} THEN 0 ELSE Min(found)
  BY DEF First
<1>3. found # {} => Min(found) \in found /\ \A y \in found : Min(found) <= y
  <2> HIDE DEF found
  <2> QED
    BY <1>1, MinIsLeast
<1> QED
  BY <1>2, <1>3

LEMMA FirstMarker ==
  ASSUME NEW records, DOMAIN records \subseteq Nat \ {0}
  PROVE  LET b == First(records, IsBootMarker)
         IN  \/ b = 0 /\ \A k \in DOMAIN records : ~IsBootMarker(records[k])
             \/ /\ b \in DOMAIN records /\ IsBootMarker(records[b])
                /\ \A k \in DOMAIN records : IsBootMarker(records[k]) => b <= k
<1> DEFINE found == {k \in DOMAIN records : IsBootMarker(records[k])}
<1>1. found \in SUBSET Nat
  OBVIOUS
<1>2. First(records, IsBootMarker) = IF found = {} THEN 0 ELSE Min(found)
  BY DEF First
<1>3. found # {} => Min(found) \in found /\ \A y \in found : Min(found) <= y
  <2> HIDE DEF found
  <2> QED
    BY <1>1, MinIsLeast
<1> QED
  BY <1>2, <1>3

\* No record is both.
LEMMA Apart == ASSUME NEW r PROVE ~(IsShutdownRequest(r) /\ IsBootMarker(r))
  BY DEF IsShutdownRequest, IsBootMarker, IsOsStart, IsLogStart

\* PendingShutdown returns the request on top of the list if its stamp is plausible,
\* and nothing otherwise.
THEOREM PendingIsTop ==
  ASSUME NEW records, DOMAIN records \subseteq Nat \ {0}, NEW now, NEW recent
  PROVE  /\ PendingShutdown(records, now, recent) # 0 =>
              /\ IsTop(records, PendingShutdown(records, now, recent))
              /\ IsPlausible(records[PendingShutdown(records, now, recent)], now, recent)
         /\ \A e \in DOMAIN records :
              IsTop(records, e) /\ IsPlausible(records[e], now, recent)
                => PendingShutdown(records, now, recent) = e
<1> DEFINE e == First(records, IsShutdownRequest)
           b == First(records, IsBootMarker)
           p == PendingShutdown(records, now, recent)
<1>1. p = IF e # 0 /\ IsPlausible(records[e], now, recent) /\ ~(b # 0 /\ b < e) THEN e ELSE 0
  BY DEF PendingShutdown, IsPlausible
<1>2. \/ e = 0 /\ \A k \in DOMAIN records : ~IsShutdownRequest(records[k])
      \/ /\ e \in DOMAIN records /\ IsShutdownRequest(records[e])
         /\ \A k \in DOMAIN records : IsShutdownRequest(records[k]) => e <= k
  BY FirstRequest
<1>3. \/ b = 0 /\ \A k \in DOMAIN records : ~IsBootMarker(records[k])
      \/ /\ b \in DOMAIN records /\ IsBootMarker(records[b])
         /\ \A k \in DOMAIN records : IsBootMarker(records[k]) => b <= k
  BY FirstMarker
<1> HIDE DEF e, b, p
<1>4. p # 0 => IsTop(records, p) /\ IsPlausible(records[p], now, recent)
  <2> SUFFICES ASSUME p # 0 PROVE IsTop(records, p) /\ IsPlausible(records[p], now, recent)
    OBVIOUS
  <2>1. p = e /\ e # 0 /\ IsPlausible(records[e], now, recent) /\ ~(b # 0 /\ b < e)
    BY <1>1
  <2>2. e \in DOMAIN records /\ e \in Nat \ {0}
    BY <1>2, <2>1
  <2>3. ASSUME NEW j \in DOMAIN records, j < e
        PROVE ~IsShutdownRequest(records[j]) /\ ~IsBootMarker(records[j])
    <3>1. j \in Nat \ {0}
      BY <2>3
    <3>2. ~IsShutdownRequest(records[j])
      BY <1>2, <2>1, <2>2, <2>3, <3>1
    <3>3. ~IsBootMarker(records[j])
      BY <1>3, <2>1, <2>2, <2>3, <3>1
    <3> QED
      BY <3>2, <3>3
  <2> QED
    BY <1>2, <2>1, <2>2, <2>3 DEF IsTop
<1>5. ASSUME NEW f \in DOMAIN records, IsTop(records, f), IsPlausible(records[f], now, recent)
      PROVE p = f
  <2>1. f \in Nat \ {0} /\ IsShutdownRequest(records[f])
    BY <1>5 DEF IsTop
  <2>2. e \in DOMAIN records /\ e \in Nat \ {0} /\ e <= f /\ IsShutdownRequest(records[e])
    BY <1>2, <2>1
  <2>3. e = f
    BY <1>5, <2>1, <2>2 DEF IsTop
  <2>4. ~(b # 0 /\ b < e)
    BY <1>3, <1>5, <2>3 DEF IsTop
  <2> QED
    BY <1>1, <1>5, <2>2, <2>3, <2>4
<1> QED
  BY <1>4, <1>5 DEF p

-----------------------------------------------------------------------------
(* What Latest reads.                                                      *)

\* An index picked by First is 0 for none and the least one otherwise.
LEMMA Newest ==
  ASSUME NEW S \in SUBSET (Nat \ {0}), NEW f, f = IF S = {} THEN 0 ELSE Min(S)
  PROVE  /\ f = 0 => S = {}
         /\ f # 0 => f \in S /\ \A k \in S : f <= k
<1>1. S # {} => Min(S) \in S /\ \A k \in S : Min(S) <= k
  BY MinIsLeast
<1> QED
  BY <1>1

\* The anchor is the newest record of the kernel's start, if there is one.
LEMMA AnchorIs ==
  ASSUME NEW records, DOMAIN records \subseteq Nat \ {0}
  PROVE  LET a == Anchor(records)
         IN  /\ (\E k \in DOMAIN records : IsOsStart(records[k])) =>
                  /\ a \in DOMAIN records /\ IsOsStart(records[a])
                  /\ \A k \in DOMAIN records : IsOsStart(records[k]) => a <= k
             /\ a # 0 => a \in DOMAIN records /\ IsBootMarker(records[a])
<1> DEFINE os == {k \in DOMAIN records : IsOsStart(records[k])}
           service == {k \in DOMAIN records : IsLogStart(records[k])}
           f == First(records, IsOsStart)
           g == First(records, IsLogStart)
<1>1. os \in SUBSET (Nat \ {0}) /\ service \in SUBSET (Nat \ {0})
  OBVIOUS
<1>2. (f = IF os = {} THEN 0 ELSE Min(os)) /\ (g = IF service = {} THEN 0 ELSE Min(service))
  BY DEF First
<1>3. Anchor(records) = IF f # 0 THEN f ELSE g
  BY DEF Anchor
<1>4. /\ f = 0 => os = {}
      /\ f # 0 => f \in os /\ \A k \in os : f <= k
  <2> HIDE DEF os, f
  <2> QED
    BY <1>1, <1>2, Newest
<1>5. g # 0 => g \in service
  <2> HIDE DEF service, g
  <2> QED
    BY <1>1, <1>2, Newest
<1> HIDE DEF f, g
<1> QED
  BY <1>1, <1>3, <1>4, <1>5 DEF IsBootMarker

\* Record k can be the marker of the boot before the anchor's.
IsBoundary(records, k) ==
  /\ k > Anchor(records) /\ IsBootMarker(records[k])
  /\ \/ records[k].event = records[Anchor(records)].event
     \/ records[k].at < records[Anchor(records)].at

LEMMA PreviousIs ==
  ASSUME NEW records, DOMAIN records \subseteq Nat \ {0}
  PROVE  LET p == PreviousBoot(records)
         IN  /\ p = 0 => \A k \in DOMAIN records : ~IsBoundary(records, k)
             /\ p # 0 => /\ p \in DOMAIN records /\ IsBoundary(records, p)
                         /\ \A k \in DOMAIN records : IsBoundary(records, k) => p <= k
<1> DEFINE older == {k \in DOMAIN records : IsBoundary(records, k)}
<1>1. older \in SUBSET (Nat \ {0})
  OBVIOUS
<1>2. PreviousBoot(records) = IF older = {} THEN 0 ELSE Min(older)
  BY DEF PreviousBoot, IsBoundary
<1>3. /\ PreviousBoot(records) = 0 => older = {}
      /\ PreviousBoot(records) # 0 =>
           PreviousBoot(records) \in older /\ \A k \in older : PreviousBoot(records) <= k
  <2> HIDE DEF older
  <2> QED
    BY <1>1, <1>2, Newest
<1> QED
  BY <1>3

\* The signs of how a session ended.
IsCoded(r) == r.event = 41 /\ r.own /\ ParseHex(r.data) # {}
IsDirty(r) == r.event = 6008 /\ r.own
IsClean(r) == r.event \in {13, 6006} /\ r.own

LEMMA RequestIs ==
  ASSUME NEW records, DOMAIN records \subseteq Nat \ {0}
  PROVE  LET f == Request(records)
         IN  /\ f = 0 => \A k \in DOMAIN records :
                           ~(IsShutdownRequest(records[k]) /\ InCycle(records, records[k].at))
             /\ f # 0 => /\ f \in DOMAIN records
                         /\ IsShutdownRequest(records[f]) /\ InCycle(records, records[f].at)
<1> DEFINE S == {k \in DOMAIN records :
                   IsShutdownRequest(records[k]) /\ InCycle(records, records[k].at)}
<1>1. S \in SUBSET (Nat \ {0})
  OBVIOUS
<1>2. Request(records) = IF S = {} THEN 0 ELSE Min(S)
  BY DEF Request, First
<1>3. /\ Request(records) = 0 => S = {}
      /\ Request(records) # 0 => Request(records) \in S
  <2> HIDE DEF S
  <2> QED
    BY <1>1, <1>2, Newest
<1> QED
  BY <1>3

LEMMA CrashIs ==
  ASSUME NEW records, DOMAIN records \subseteq Nat \ {0}
  PROVE  LET f == Crash(records)
         IN  /\ f = 0 => \A k \in DOMAIN records :
                           ~(IsCoded(records[k]) /\ NearBoot(records, records[k].at))
             /\ f # 0 => /\ f \in DOMAIN records
                         /\ IsCoded(records[f]) /\ NearBoot(records, records[f].at)
<1> DEFINE S == {k \in DOMAIN records : IsCoded(records[k]) /\ NearBoot(records, records[k].at)}
<1>1. S \in SUBSET (Nat \ {0})
  OBVIOUS
<1>2. Crash(records) = IF S = {} THEN 0 ELSE Min(S)
  BY DEF Crash, First, IsCoded
<1>3. /\ Crash(records) = 0 => S = {}
      /\ Crash(records) # 0 => Crash(records) \in S
  <2> HIDE DEF S
  <2> QED
    BY <1>1, <1>2, Newest
<1> QED
  BY <1>3

LEMMA UnexpectedIs ==
  ASSUME NEW records, DOMAIN records \subseteq Nat \ {0}
  PROVE  LET f == Unexpected(records)
         IN  /\ f = 0 => \A k \in DOMAIN records :
                           ~(IsDirty(records[k]) /\ NearBoot(records, records[k].at))
             /\ f # 0 => /\ f \in DOMAIN records
                         /\ IsDirty(records[f]) /\ NearBoot(records, records[f].at)
<1> DEFINE S == {k \in DOMAIN records : IsDirty(records[k]) /\ NearBoot(records, records[k].at)}
<1>1. S \in SUBSET (Nat \ {0})
  OBVIOUS
<1>2. Unexpected(records) = IF S = {} THEN 0 ELSE Min(S)
  BY DEF Unexpected, First, IsDirty
<1>3. /\ Unexpected(records) = 0 => S = {}
      /\ Unexpected(records) # 0 => Unexpected(records) \in S
  <2> HIDE DEF S
  <2> QED
    BY <1>1, <1>2, Newest
<1> QED
  BY <1>3

LEMMA CleanStopIs ==
  ASSUME NEW records, DOMAIN records \subseteq Nat \ {0}
  PROVE  LET f == CleanStop(records)
         IN  /\ f = 0 => \A k \in DOMAIN records :
                           ~(IsClean(records[k]) /\ InCycle(records, records[k].at))
             /\ f # 0 => /\ f \in DOMAIN records
                         /\ IsClean(records[f]) /\ InCycle(records, records[f].at)
<1> DEFINE Ends(event) == {k \in DOMAIN records : /\ records[k].event = event /\ records[k].own
                                                  /\ InCycle(records, records[k].at)}
           halt == First(records, LAMBDA r : r.event = 13 /\ r.own /\ InCycle(records, r.at))
           stop == First(records, LAMBDA r : r.event = 6006 /\ r.own /\ InCycle(records, r.at))
<1>1. \A event : Ends(event) \in SUBSET (Nat \ {0})
  OBVIOUS
<1>2. /\ halt = IF Ends(13) = {} THEN 0 ELSE Min(Ends(13))
      /\ stop = IF Ends(6006) = {} THEN 0 ELSE Min(Ends(6006))
  BY DEF First
<1>3. CleanStop(records) = IF halt # 0 THEN halt ELSE stop
  BY DEF CleanStop
<1>4. /\ halt = 0 => Ends(13) = {}
      /\ halt # 0 => halt \in Ends(13)
      /\ stop = 0 => Ends(6006) = {}
      /\ stop # 0 => stop \in Ends(6006)
  <2> HIDE DEF Ends, halt, stop
  <2> QED
    BY <1>1, <1>2, Newest
<1> HIDE DEF halt, stop
<1> QED
  BY <1>3, <1>4 DEF IsClean
=============================================================================
