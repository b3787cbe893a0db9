-------------------------- MODULE BootNotifyProofs --------------------------
(***************************************************************************)
(* Proofs about BootNotify for every number of boots and runs and every    *)
(* set of faults: nothing unsettled is ever recorded, the log never claims *)
(* more than happened, two messages about one boot have a known cause, and *)
(* the notifier keeps the promise of OncePerBoot.                          *)
(***************************************************************************)
EXTENDS BootNotify, TLAPS

\* What a run holds matches where it is.
PhaseOK(r) ==
  /\ pc[r] \in {"idle", "collect"} => seen[r] = NoBoot /\ ~sent[r]
  /\ pc[r] \in {"send"} \cup Recording => seen[r] \in Boots
  /\ pc[r] = "send" => ~sent[r]

PhaseInv == \A r \in Runs : PhaseOK(r)

\* Whatever names a boot names a settled one.
SettledBy(r) ==
  /\ loaded[r] # NoBoot => Settled(loaded[r])
  /\ sent[r] => posted[seen[r]] > 0
  /\ pc[r] \in Recording /\ ~sent[r] => seen[r] \in skipped

SettledInv ==
  /\ stateFile # NoBoot => Settled(stateFile)
  /\ tmpFile.names # NoBoot => Settled(tmpFile.names)
  /\ \A b \in older : b # NoBoot => Settled(b)
  /\ \A r \in Runs : SettledBy(r)

\* The outcomes whose line is about no boot.
NoResult == {"config-error", "detect-error"}

LogInv ==
  \A line \in log : Truthful(line) /\ (line.outcome \notin NoResult => line.about \in Boots)

\* Two runs have been active at once since the machine came up.
Muddled == visible \in excused /\ boot \in excused

\* Nothing names, and no message is about, a boot the log does not show yet.
NothingAhead ==
  /\ stateFile <= visible /\ tmpFile.names <= visible /\ \A b \in older : b <= visible
  /\ \A r \in Runs : loaded[r] <= visible /\ seen[r] <= visible
  /\ \A b \in Boots : b > visible => posted[b] = 0

\* Until two runs have overlapped, a run has the files to itself.
HasFiles(r) ==
  /\ pc[r] = "collect" => loaded[r] = stateFile
  /\ pc[r] = "write" => tmpFile = [exists |-> TRUE, names |-> NoBoot]
  /\ pc[r] = "rename" => tmpFile = [exists |-> TRUE, names |-> seen[r]]
  /\ seen[r] # NoBoot => \A b \in Boots : b > seen[r] => posted[b] = 0

AloneInv ==
  /\ \A r, q \in Runs : r # q /\ ~Idle(r) /\ ~Idle(q) => Muddled
  /\ \A r \in Runs : Muddled \/ HasFiles(r)

\* Two runs that describe the same boot have overlapped.
SameBootInv ==
  \A r, q \in Runs :
    r # q /\ seen[r] # NoBoot /\ seen[r] = seen[q] => seen[r] \in excused

\* Two messages about one boot have one of the known causes: an answer was lost,
\* the delivery was not recorded, -force, or two runs at once.
DuplicateNeedsExcuse == \A b \in Boots : posted[b] > 1 => b \in excused

\* A boot with nothing to excuse is not posted before a run sends it, is posted
\* once, and is then recorded or about to be.
NotYetSent(r) == pc[r] = "send" /\ seen[r] \notin excused => posted[seen[r]] = 0

VisibleRecorded ==
  visible \in Boots /\ visible \notin excused /\ posted[visible] > 0
    => \/ stateFile = visible
       \/ \E r \in Runs : pc[r] \in Recording /\ seen[r] = visible

OnceInv ==
  /\ DuplicateNeedsExcuse
  /\ \A r \in Runs : NotYetSent(r)
  /\ VisibleRecorded

IInv ==
  /\ TypeOK /\ PhaseInv /\ SettledInv /\ LogInv
  /\ NothingAhead /\ AloneInv /\ SameBootInv /\ OnceInv

-----------------------------------------------------------------------------
(* Each conjunct is preserved by every action.                             *)

LEMMA ExitKeepsType ==
  ASSUME RunType, NEW rs \in SUBSET Runs, Exit(rs) PROVE RunType'
<1>1. pc' \in [Runs -> {"idle", "collect", "send"} \cup Recording]
  BY DEF RunType, Exit
<1>2. loaded' \in [Runs -> 0 .. MaxBoots]
  BY BoundAssumption DEF RunType, Exit, NoBoot
<1>3. seen' \in [Runs -> 0 .. MaxBoots]
  BY BoundAssumption DEF RunType, Exit, NoBoot
<1>4. force' \in [Runs -> BOOLEAN] /\ sent' \in [Runs -> BOOLEAN]
  BY DEF RunType, Exit
<1>5. QED
  BY <1>1, <1>2, <1>3, <1>4 DEF RunType

LEMMA GotoKeepsType ==
  ASSUME RunType, NEW r, NEW label \in {"idle", "collect", "send"} \cup Recording,
         Goto(r, label), UNCHANGED <<loaded, force>>,
         seen' \in [Runs -> 0 .. MaxBoots], sent' \in [Runs -> BOOLEAN]
  PROVE  RunType'
  BY DEF RunType, Goto

LEMMA LogsKeepsType ==
  ASSUME TypeOK, NEW r \in Runs, NEW b \in 0 .. MaxBoots, NEW outcome \in Outcomes,
         Logs(r, b, outcome)
  PROVE  log' \subseteq Lines
  BY DEF TypeOK, MachineType, AccountType, Logs, Line, Lines

LEMMA UnrecordedType ==
  ASSUME RunType, NEW rs \in SUBSET Runs
  PROVE  Unrecorded(rs) \subseteq 0 .. MaxBoots
  BY DEF RunType, Unrecorded

LEMMA LatestType == TypeOK => Latest \subseteq Boots
  BY BoundAssumption DEF TypeOK, MachineType, Latest, Boots, NoBoot

LEMMA BeginKeepsType ==
  ASSUME TypeOK, NEW r \in Runs, NEW f \in BOOLEAN, Begin(r, f)
  PROVE  FileType' /\ RunType' /\ AccountType'
<1> USE DEF TypeOK
<1>1. FileType'
  BY DEF FileType, Begin, file
<1>2. 0 \in 0 .. MaxBoots
  BY BoundAssumption
<1>3. RunType'
  BY DEF RunType, FileType, Begin, run, Goto
<1>4. log' \subseteq Lines
  BY <1>2, LogsKeepsType DEF AccountType, Begin, Outcomes, NoBoot
<1>5. excused' \subseteq 0 .. MaxBoots
  <2>1. visible \in 0 .. MaxBoots /\ boot \in 0 .. MaxBoots
    BY BoundAssumption DEF MachineType, Boots
  <2>2. excused' \subseteq excused \cup {visible, boot}
    BY DEF Begin, Excuse, run
  <2>3. QED
    BY <2>1, <2>2 DEF AccountType
<1>6. QED
  BY <1>1, <1>3, <1>4, <1>5 DEF AccountType, Begin

LEMMA TypeStep == TypeOK /\ [Next]_vars => TypeOK'
<1> SUFFICES ASSUME TypeOK, [Next]_vars PROVE TypeOK'
  OBVIOUS
<1> USE BoundAssumption, SetupAssumption
    DEF TypeOK, machine, file, run, account
<1>1. CASE Reboot
  <2>1. MachineType'
    <3>1. boot' = boot + 1 /\ boot < MaxBoots /\ visible' \in {visible, boot + 1}
      BY <1>1 DEF Reboot
    <3>2. boot' \in Boots /\ visible' \in 0 .. boot'
      BY <3>1 DEF MachineType, Boots
    <3>3. triggered' \in BOOLEAN /\ starts' \in 0 .. MaxStarts
      <4>1. 0 \in 0 .. MaxStarts
        OBVIOUS
      <4>2. QED
        BY <1>1, <4>1 DEF Reboot
    <3>4. QED
      BY <3>2, <3>3 DEF MachineType
  <2>2. FileType'
    <3>1. older' = {} /\ UNCHANGED tmpFile
      BY <1>1 DEF Reboot
    <3>2. stateFile' \in 0 .. MaxBoots
      <4>1. NoBoot \in 0 .. MaxBoots /\ older \cup {stateFile} \subseteq 0 .. MaxBoots
        BY DEF FileType, NoBoot
      <4>2. QED
        BY <1>1, <4>1 DEF Reboot
    <3>3. QED
      BY <3>1, <3>2 DEF FileType
  <2>3. RunType'
    BY <1>1, ExitKeepsType DEF Reboot
  <2>4. AccountType'
    BY <1>1, UnrecordedType DEF Reboot, AccountType, Excuse, FileType
  <2>5. QED
    BY <2>1, <2>2, <2>3, <2>4
<1>2. CASE Commit \/ Flush \/ Rest \/ UNCHANGED vars
  <2>1. MachineType'
    BY <1>2 DEF Commit, Flush, Rest, vars, MachineType, Boots
  <2>2. FileType'
    BY <1>2 DEF Commit, Flush, Rest, vars, FileType
  <2>3. RunType' /\ AccountType'
    BY <1>2 DEF Commit, Flush, Rest, vars, RunType, AccountType
  <2>4. QED
    BY <2>1, <2>2, <2>3
<1>3. CASE Trigger
  <2>1. MachineType'
    BY <1>3 DEF Trigger, Begin, MachineType
  <2>2. CASE Idle(Task) /\ Begin(Task, FALSE)
    BY <2>1, <2>2, BeginKeepsType
  <2>3. CASE UNCHANGED <<boot, visible, file, run, account>>
    BY <2>1, <2>3 DEF FileType, RunType, AccountType
  <2>4. QED
    BY <1>3, <2>2, <2>3 DEF Trigger
<1>4. ASSUME NEW r \in Runs, StartByHand(r) PROVE TypeOK'
  <2>1. PICK f \in BOOLEAN : Begin(r, f)
    BY <1>4 DEF StartByHand
  <2>2. MachineType'
    BY <1>4, <2>1 DEF StartByHand, Begin, MachineType
  <2>3. QED
    BY <2>1, <2>2, BeginKeepsType
<1>5. ASSUME NEW r \in Runs, Decide(r) PROVE TypeOK'
  <2>1. PICK b \in Latest : Skip(r, b) \/ Exclude(r, b) \/ NoWebhook(r, b) \/ Notify(r, b)
    BY <1>5 DEF Decide
  <2>2. b \in Boots /\ b \in 0 .. MaxBoots
    BY <2>1, LatestType DEF Boots
  <2>3. MachineType' /\ FileType' /\ UNCHANGED posted
    BY <1>5 DEF Decide, MachineType, FileType
  <2>4. RunType'
    <3>1. CASE Exit({r})
      BY <3>1, ExitKeepsType
    <3>2. CASE Goto(r, "open") \/ Goto(r, "send")
      <4>1. seen' \in [Runs -> 0 .. MaxBoots] /\ sent' = sent /\ UNCHANGED <<loaded, force>>
        BY <2>1, <2>2, <3>2 DEF RunType, Exclude, Notify, Skip, NoWebhook, Exit, Goto, Recording
      <4>2. QED
        BY <3>2, <4>1, GotoKeepsType DEF RunType, Recording
    <3>3. QED
      BY <2>1, <3>1, <3>2 DEF Skip, Exclude, NoWebhook, Notify
  <2>5. log' \subseteq Lines
    BY <2>1, <2>2, LogsKeepsType DEF Skip, Exclude, NoWebhook, Notify, AccountType, Outcomes
  <2>6. skipped' \subseteq Boots /\ excused' \subseteq 0 .. MaxBoots
    BY <2>1, <2>2 DEF Skip, Exclude, NoWebhook, Notify, AccountType, Excuse
  <2>7. QED
    BY <2>3, <2>4, <2>5, <2>6 DEF AccountType
<1>6. ASSUME NEW r \in Runs, DetectError(r) \/ SendFailed(r) \/ Rename(r) \/ SaveFailed(r)
      PROVE TypeOK'
  <2>1. MachineType'
    BY <1>6 DEF DetectError, SendFailed, Rename, SaveFailed, MachineType
  <2>7. FileType'
    <3>1. CASE Rename(r)
      <4>1. 0 \in 0 .. MaxBoots /\ tmpFile.names \in 0 .. MaxBoots
        BY DEF FileType
      <4>2. QED
        BY <3>1, <4>1 DEF Rename, FileType, NoBoot
    <3>2. CASE UNCHANGED file
      BY <3>2 DEF FileType
    <3>3. QED
      BY <1>6, <3>1, <3>2 DEF DetectError, SendFailed, SaveFailed
  <2>2. RunType'
    BY <1>6, ExitKeepsType DEF DetectError, SendFailed, Rename, SaveFailed
  <2>3. seen[r] \in 0 .. MaxBoots /\ NoBoot \in 0 .. MaxBoots
    BY DEF RunType, NoBoot
  <2>4. log' \subseteq Lines
    BY <1>6, <2>3, LogsKeepsType
       DEF DetectError, SendFailed, Rename, SaveFailed, SavedOutcome, UnsavedOutcome, Outcomes
  <2>5. AccountType'
    BY <1>6, <2>3, <2>4 DEF DetectError, SendFailed, Rename, SaveFailed, AccountType, Excuse
  <2>6. QED
    BY <2>1, <2>2, <2>5, <2>7
<1>7. ASSUME NEW r \in Runs, Send(r) \/ SendLost(r) PROVE TypeOK'
  <2>1. MachineType' /\ FileType'
    BY <1>7 DEF Send, SendLost, MachineType, FileType
  <2>2. RunType'
    BY <1>7 DEF Send, SendLost, Goto, RunType, Recording
  <2>3. posted' \in [Boots -> 0 .. MaxCopies]
    BY <1>7 DEF Send, SendLost, Post, AccountType
  <2>4. QED
    BY <1>7, <2>1, <2>2, <2>3 DEF Send, SendLost, Excuse, AccountType, RunType
<1>8. ASSUME NEW r \in Runs, OpenTmp(r) \/ WriteTmp(r) PROVE TypeOK'
  <2>1. MachineType' /\ AccountType'
    BY <1>8 DEF OpenTmp, WriteTmp, MachineType, AccountType
  <2>2. FileType'
    <3>1. 0 \in 0 .. MaxBoots /\ seen[r] \in 0 .. MaxBoots
      BY DEF RunType
    <3>2. CASE OpenTmp(r)
      BY <3>1, <3>2 DEF OpenTmp, FileType, NoBoot
    <3>3. CASE WriteTmp(r)
      BY <3>1, <3>3 DEF WriteTmp, FileType, NoBoot
    <3>4. QED
      BY <1>8, <3>2, <3>3
  <2>3. RunType'
    BY <1>8 DEF OpenTmp, WriteTmp, Goto, RunType, Recording
  <2>4. QED
    BY <2>1, <2>2, <2>3
<1>9. ASSUME NEW r \in Runs, Kill(r) PROVE TypeOK'
  <2>1. RunType' /\ Unrecorded({r}) \subseteq 0 .. MaxBoots
    BY <1>9, ExitKeepsType, UnrecordedType DEF Kill
  <2>2. QED
    BY <1>9, <2>1 DEF Kill, Excuse, MachineType, FileType, AccountType
<1>10. QED
  BY <1>1, <1>2, <1>3, <1>4, <1>5, <1>6, <1>7, <1>8, <1>9 DEF Next, Step

\* What the actions do to the runs, one run at a time.
LEMMA ExitEffect ==
  ASSUME NEW rs \in SUBSET Runs, Exit(rs), NEW q \in Runs
  PROVE  /\ q \in rs => /\ pc'[q] = "idle" /\ loaded'[q] = NoBoot /\ seen'[q] = NoBoot
                        /\ ~sent'[q]
         /\ q \notin rs => /\ pc'[q] = pc[q] /\ loaded'[q] = loaded[q]
                           /\ seen'[q] = seen[q] /\ sent'[q] = sent[q]
  BY DEF Exit

LEMMA GotoEffect ==
  ASSUME RunType, NEW r \in Runs, NEW label, Goto(r, label), NEW q \in Runs
  PROVE  pc'[q] = IF q = r THEN label ELSE pc[q]
  BY DEF RunType, Goto

LEMMA PhaseStep == TypeOK /\ PhaseInv /\ [Next]_vars => PhaseInv'
<1> SUFFICES ASSUME TypeOK, PhaseInv, [Next]_vars, NEW q \in Runs
             PROVE  PhaseOK(q)'
  BY DEF PhaseInv
<1> USE DEF PhaseOK
<1>0. RunType /\ PhaseOK(q)
  BY DEF TypeOK, PhaseInv
<1>1. CASE UNCHANGED run
  BY <1>0, <1>1 DEF run
<1>2. ASSUME NEW rs \in SUBSET Runs, Exit(rs)
      PROVE  PhaseOK(q)'
  BY <1>0, <1>2, ExitEffect DEF Recording
<1>3. ASSUME NEW r \in Runs, NEW f \in BOOLEAN, Begin(r, f), Idle(r)
      PROVE  PhaseOK(q)'
  <2>1. CASE Goto(r, "collect") /\ UNCHANGED <<seen, sent>>
    BY <1>0, <1>3, <2>1, GotoEffect DEF Idle, Recording
  <2>2. QED
    BY <1>1, <1>3, <2>1 DEF Begin
<1>4. CASE Trigger
  BY <1>1, <1>3, <1>4, SetupAssumption DEF Trigger
<1>5. ASSUME NEW r \in Runs, StartByHand(r)
      PROVE  PhaseOK(q)'
  BY <1>3, <1>5 DEF StartByHand
<1>6. ASSUME NEW r \in Runs, Decide(r)
      PROVE  PhaseOK(q)'
  <2>1. PICK b \in Latest : Skip(r, b) \/ Exclude(r, b) \/ NoWebhook(r, b) \/ Notify(r, b)
    BY <1>6 DEF Decide
  <2>2. CASE Exit({r})
    BY <1>2, <2>2
  <2>3. CASE Exclude(r, b) \/ Notify(r, b)
    <3>1. seen' = [seen EXCEPT ![r] = b] /\ sent' = sent /\ b \in Boots
      BY <2>3, LatestType DEF Exclude, Notify
    <3>2. pc[r] = "collect" /\ (Goto(r, "open") \/ Goto(r, "send"))
      BY <1>6, <2>3 DEF Decide, Exclude, Notify
    <3>3. seen'[q] = IF q = r THEN b ELSE seen[q]
      BY <1>0, <3>1 DEF RunType
    <3>4. QED
      BY <1>0, <3>1, <3>2, <3>3, GotoEffect DEF Recording
  <2>4. QED
    BY <2>1, <2>2, <2>3 DEF Skip, NoWebhook
<1>7. ASSUME NEW r \in Runs, Send(r)
      PROVE  PhaseOK(q)'
  <2>1. sent'[q] = IF q = r THEN TRUE ELSE sent[q]
    BY <1>0, <1>7 DEF Send, RunType
  <2>2. QED
    BY <1>0, <1>7, <2>1, GotoEffect DEF Send, Post, Recording
<1>8. ASSUME NEW r \in Runs, OpenTmp(r) \/ WriteTmp(r)
      PROVE  PhaseOK(q)'
  BY <1>0, <1>8, GotoEffect DEF OpenTmp, WriteTmp, Recording
<1>9. QED
  BY <1>1, <1>2, <1>4, <1>5, <1>6, <1>7, <1>8
     DEF Next, Step, vars, Reboot, Commit, Flush, Rest, DetectError, SendLost, SendFailed,
         Rename, SaveFailed, Kill

-----------------------------------------------------------------------------
(* What is recorded, and what the log says, is settled.                    *)

\* A settled boot stays settled: messages and exclusions are never taken back.
LEMMA SettledIsStable ==
  ASSUME TypeOK, PhaseInv, [Next]_vars
  PROVE  /\ \A b \in Boots : posted[b] > 0 => posted'[b] > 0
         /\ skipped \subseteq skipped'
<1>1. CASE UNCHANGED posted /\ skipped \subseteq skipped'
  BY <1>1
<1>2. ASSUME NEW r \in Runs, Decide(r) PROVE UNCHANGED posted /\ skipped \subseteq skipped'
  BY <1>2 DEF Decide, Skip, Exclude, NoWebhook, Notify
<1>3. ASSUME NEW r \in Runs, Post(r) PROVE \A b \in Boots : posted[b] > 0 => posted'[b] > 0
  BY <1>3, BoundAssumption DEF Post, TypeOK, AccountType
<1>4. QED
  BY <1>1, <1>2, <1>3
     DEF Next, Step, vars, account, Reboot, Commit, Flush, Trigger, StartByHand, Begin, Rest,
         DetectError, Send, SendLost, SendFailed, OpenTmp, WriteTmp, Rename, SaveFailed, Kill

LEMMA SettledStep ==
  TypeOK /\ PhaseInv /\ SettledInv /\ [Next]_vars => SettledInv'
<1> SUFFICES ASSUME TypeOK, PhaseInv, SettledInv, [Next]_vars PROVE SettledInv'
  OBVIOUS
<1>0. /\ stateFile \in 0 .. MaxBoots /\ tmpFile.names \in 0 .. MaxBoots
      /\ older \subseteq 0 .. MaxBoots
      /\ \A q \in Runs : loaded[q] \in 0 .. MaxBoots /\ seen[q] \in 0 .. MaxBoots
  BY DEF TypeOK, FileType, RunType
<1>1. \A b \in 0 .. MaxBoots : b # NoBoot /\ Settled(b) => Settled(b)'
  BY SettledIsStable DEF Settled, Boots, NoBoot
<1> DEFINE OlderSettled == \A b \in older : b # NoBoot => Settled(b)
<1>2. ASSUME UNCHANGED <<stateFile, tmpFile, older>>
      PROVE  /\ stateFile' # NoBoot => Settled(stateFile)'
             /\ tmpFile'.names # NoBoot => Settled(tmpFile.names)'
             /\ OlderSettled'
  BY <1>0, <1>1, <1>2 DEF SettledInv, Settled
<1>3. ASSUME NEW q \in Runs, UNCHANGED <<loaded[q], seen[q], sent[q]>>,
             pc'[q] \in Recording => pc[q] \in Recording
      PROVE  SettledBy(q)'
  <2>1. SettledBy(q)
    BY DEF SettledInv
  <2>2. sent[q] => seen[q] \in Boots
    BY DEF PhaseInv, PhaseOK, TypeOK, RunType
  <2>3. QED
    BY <1>0, <1>1, <1>3, <2>1, <2>2, SettledIsStable DEF SettledBy, Settled
<1>4. ASSUME NEW rs \in SUBSET Runs, Exit(rs), NEW q \in Runs PROVE SettledBy(q)'
  <2>1. CASE q \in rs
    BY <1>4, <2>1, ExitEffect DEF SettledBy, Recording
  <2>2. CASE q \notin rs
    BY <1>3, <1>4, <2>2, ExitEffect
  <2>3. QED
    BY <2>1, <2>2
<1>5. CASE Reboot
  <2>1. stateFile' \in {stateFile} \cup older \cup {NoBoot} /\ older' = {} /\ UNCHANGED tmpFile
    BY <1>5 DEF Reboot
  <2>2. \A q \in Runs : SettledBy(q)'
    BY <1>4, <1>5 DEF Reboot
  <2> QED
    BY <1>0, <1>1, <2>1, <2>2 DEF SettledInv, Settled
<1>6. CASE Commit \/ Flush \/ Rest \/ UNCHANGED vars
  <2>1. UNCHANGED <<stateFile, tmpFile, run>> /\ older' \subseteq older
    BY <1>6 DEF Commit, Flush, Rest, vars, file
  <2>2. \A q \in Runs : SettledBy(q)'
    BY <1>3, <2>1 DEF run
  <2> QED
    BY <1>0, <1>1, <2>1, <2>2 DEF SettledInv, Settled
<1>7. ASSUME NEW r \in Runs, NEW f \in BOOLEAN, Begin(r, f) PROVE SettledInv'
  <2>1. UNCHANGED <<stateFile, tmpFile, older>>
    BY <1>7 DEF Begin, file
  <2>2. CASE UNCHANGED run
    BY <1>2, <1>3, <2>1, <2>2 DEF SettledInv, run
  <2>3. CASE Goto(r, "collect") /\ UNCHANGED <<seen, sent>>
             /\ loaded' = [loaded EXCEPT ![r] = stateFile]
    <3>1. ASSUME NEW q \in Runs PROVE SettledBy(q)'
      <4>1. CASE q = r
        <5>1. loaded'[q] = stateFile /\ pc'[q] = "collect" /\ UNCHANGED <<seen[q], sent[q]>>
          BY <2>3, <4>1, GotoEffect DEF TypeOK, RunType
        <5>2. sent[q] => seen[q] \in Boots /\ posted[seen[q]] > 0
          BY DEF PhaseInv, PhaseOK, TypeOK, RunType, SettledInv, SettledBy
        <5>3. QED
          BY <1>0, <1>1, <5>1, <5>2, SettledIsStable DEF SettledInv, SettledBy, Settled, Recording
      <4>2. CASE q # r
        BY <1>3, <2>3, <4>2, GotoEffect DEF TypeOK, RunType
      <4>3. QED
        BY <4>1, <4>2
    <3>2. QED
      BY <1>2, <2>1, <3>1 DEF SettledInv
  <2>4. QED
    BY <1>7, <2>2, <2>3 DEF Begin
<1>8. CASE Trigger
  <2>1. CASE UNCHANGED <<boot, visible, file, run, account>>
    BY <1>2, <1>3, <2>1 DEF SettledInv, run, file
  <2>2. QED
    BY <1>7, <1>8, <2>1, SetupAssumption DEF Trigger
<1>9. ASSUME NEW r \in Runs, StartByHand(r) PROVE SettledInv'
  BY <1>7, <1>9 DEF StartByHand
<1>10. ASSUME NEW r \in Runs, Decide(r) PROVE SettledInv'
  <2>1. PICK b \in Latest : Skip(r, b) \/ Exclude(r, b) \/ NoWebhook(r, b) \/ Notify(r, b)
    BY <1>10 DEF Decide
  <2>2. UNCHANGED <<stateFile, tmpFile, older>> /\ b \in Boots /\ pc[r] = "collect" /\ ~sent[r]
    BY <1>10, <2>1, LatestType DEF Decide, file, PhaseInv, PhaseOK
  <2>3. CASE Exit({r})
    BY <1>2, <1>4, <2>2, <2>3 DEF SettledInv
  <2>4. CASE Exclude(r, b) \/ Notify(r, b)
    <3>1. ASSUME NEW q \in Runs PROVE SettledBy(q)'
      <4>1. /\ seen'[q] = IF q = r THEN b ELSE seen[q]
            /\ UNCHANGED <<loaded[q], sent[q]>>
            /\ pc'[q] = IF q = r THEN (IF Exclude(r, b) THEN "open" ELSE "send") ELSE pc[q]
            /\ Exclude(r, b) => b \in skipped'
        BY <2>4, GotoEffect DEF Exclude, Notify, TypeOK, RunType, AccountType
      <4>2. CASE q = r
        BY <1>0, <1>1, <2>2, <4>1, <4>2 DEF SettledInv, SettledBy, Settled, Recording
      <4>3. CASE q # r
        BY <1>3, <4>1, <4>3
      <4>4. QED
        BY <4>2, <4>3
    <3>2. QED
      BY <1>2, <2>2, <3>1 DEF SettledInv
  <2>5. QED
    BY <2>1, <2>3, <2>4 DEF Skip, NoWebhook
<1>11. ASSUME NEW r \in Runs, Send(r) PROVE SettledInv'
  <2>1. UNCHANGED <<stateFile, tmpFile, older>>
    BY <1>11 DEF Send, file
  <2>2. ASSUME NEW q \in Runs PROVE SettledBy(q)'
    <3>1. CASE q = r
      <4>1. seen[r] \in Boots /\ posted'[seen[r]] = posted[seen[r]] + 1
        BY <1>11 DEF Send, Post, PhaseInv, PhaseOK, TypeOK, AccountType
      <4>2. posted'[seen[r]] > 0
        BY <4>1, BoundAssumption DEF TypeOK, AccountType
      <4>3. UNCHANGED <<loaded, seen>> /\ sent'[r]
        BY <1>11 DEF Send, TypeOK, RunType
      <4>4. QED
        BY <1>0, <1>1, <3>1, <4>2, <4>3 DEF SettledInv, SettledBy, Settled
    <3>2. CASE q # r
      BY <1>3, <1>11, <3>2, GotoEffect DEF Send, TypeOK, RunType
    <3>3. QED
      BY <3>1, <3>2
  <2>3. QED
    BY <1>2, <2>1, <2>2 DEF SettledInv
<1>12. ASSUME NEW r \in Runs, SendLost(r) PROVE SettledInv'
  BY <1>2, <1>3, <1>12 DEF SendLost, SettledInv, run, file
<1>13. ASSUME NEW r \in Runs, DetectError(r) \/ SendFailed(r) \/ SaveFailed(r) \/ Kill(r)
       PROVE SettledInv'
  BY <1>2, <1>4, <1>13 DEF DetectError, SendFailed, SaveFailed, Kill, SettledInv, file
<1>14. ASSUME NEW r \in Runs, OpenTmp(r) \/ WriteTmp(r) PROVE SettledInv'
  <2>1. \A q \in Runs : SettledBy(q)'
    BY <1>3, <1>14, GotoEffect DEF OpenTmp, WriteTmp, TypeOK, RunType, Recording
  <2>2. UNCHANGED <<stateFile, older>> /\ tmpFile'.names \in {NoBoot, seen[r]} /\ pc[r] \in Recording
    BY <1>14 DEF OpenTmp, WriteTmp, Recording
  <2>3. seen[r] \in Boots /\ Settled(seen[r])
    BY <2>2 DEF PhaseInv, PhaseOK, SettledInv, SettledBy, Settled
  <2>4. QED
    BY <1>0, <1>1, <2>1, <2>2, <2>3 DEF SettledInv, Settled
<1>15. ASSUME NEW r \in Runs, Rename(r) PROVE SettledInv'
  <2>1. /\ stateFile' = tmpFile.names /\ tmpFile'.names = NoBoot
        /\ older' = older \cup {stateFile}
    BY <1>15 DEF Rename
  <2>2. \A q \in Runs : SettledBy(q)'
    BY <1>4, <1>15 DEF Rename
  <2> QED
    BY <1>0, <1>1, <2>1, <2>2 DEF SettledInv, Settled
<1>16. QED
  BY <1>5, <1>6, <1>8, <1>9, <1>10, <1>11, <1>12, <1>13, <1>14, <1>15 DEF Next, Step

\* A new line is true when it is written.
LEMMA LogStep ==
  TypeOK /\ PhaseInv /\ SettledInv /\ LogInv /\ [Next]_vars => LogInv'
<1> SUFFICES ASSUME TypeOK, PhaseInv, SettledInv, LogInv, [Next]_vars,
                    NEW line \in log'
             PROVE  /\ Truthful(line)'
                    /\ line.outcome \notin NoResult => line.about \in Boots
  BY DEF LogInv
<1> DEFINE Good == Truthful(line)' /\ (line.outcome \notin NoResult => line.about \in Boots)
<1>1. CASE line \in log
  BY <1>1, SettledIsStable DEF LogInv, Truthful, Settled, NoResult
<1>2. CASE UNCHANGED log
  BY <1>1, <1>2
<1>3. ASSUME NEW r \in Runs, NEW outcome \in NoResult, Logs(r, NoBoot, outcome) PROVE Good
  BY <1>1, <1>3 DEF Logs, Line, Truthful, NoResult
<1>4. ASSUME NEW r \in Runs, NEW f \in BOOLEAN, Begin(r, f) PROVE Good
  BY <1>2, <1>3, <1>4 DEF Begin, NoResult
<1>5. CASE Trigger
  BY <1>2, <1>4, <1>5, SetupAssumption DEF Trigger, account
<1>6. ASSUME NEW r \in Runs, StartByHand(r) PROVE Good
  BY <1>4, <1>6 DEF StartByHand
<1>7. ASSUME NEW r \in Runs, Decide(r) PROVE Good
  <2>1. PICK b \in Latest : Skip(r, b) \/ Exclude(r, b) \/ NoWebhook(r, b) \/ Notify(r, b)
    BY <1>7 DEF Decide
  <2>2. b \in Boots /\ UNCHANGED posted /\ skipped \subseteq skipped'
    BY <1>7, <2>1, LatestType DEF Decide, Skip, Exclude, NoWebhook, Notify
  <2>3. CASE Skip(r, b)
    <3>1. Settled(b)
      BY <2>2, <2>3 DEF Skip, AlreadyNotified, SettledInv, SettledBy, Boots, NoBoot
    <3>2. QED
      BY <1>1, <2>2, <2>3, <3>1 DEF Skip, Logs, Line, Truthful, Settled
  <2>4. CASE NoWebhook(r, b)
    BY <1>1, <2>2, <2>4 DEF NoWebhook, Logs, Line, Truthful
  <2>5. QED
    BY <1>2, <2>1, <2>3, <2>4 DEF Exclude, Notify
<1>8. ASSUME NEW r \in Runs, DetectError(r) PROVE Good
  BY <1>3, <1>8 DEF DetectError, NoResult
<1>9. ASSUME NEW r \in Runs, SendFailed(r) PROVE Good
  BY <1>1, <1>9 DEF SendFailed, Logs, Line, Truthful, PhaseInv, PhaseOK
<1>10. ASSUME NEW r \in Runs, Rename(r) \/ SaveFailed(r) PROVE Good
  <2>1. /\ seen[r] \in Boots /\ pc[r] \in Recording
        /\ sent[r] => posted[seen[r]] > 0
        /\ ~sent[r] => seen[r] \in skipped
    BY <1>10 DEF Rename, SaveFailed, Recording, PhaseInv, PhaseOK, SettledInv, SettledBy
  <2>2. UNCHANGED <<posted, skipped>>
    BY <1>10 DEF Rename, SaveFailed
  <2>3. QED
    BY <1>1, <1>10, <2>1, <2>2
       DEF Rename, SaveFailed, SavedOutcome, UnsavedOutcome, Logs, Line, Truthful
<1>11. QED
  BY <1>2, <1>5, <1>6, <1>7, <1>8, <1>9, <1>10
     DEF Next, Step, vars, account, Reboot, Commit, Flush, Rest, Send, SendLost, OpenTmp,
         WriteTmp, Kill

-----------------------------------------------------------------------------
(* One message per boot, as long as nothing befalls it.                    *)

\* The log only grows: the newest visible boot never goes back.
LEMMA VisibleGrows ==
  ASSUME TypeOK, [Next]_vars
  PROVE  visible' >= visible /\ visible \in Nat /\ visible' \in Nat
<1>1. visible \in 0 .. boot /\ boot \in Nat /\ visible' \in Nat
  BY TypeStep, BoundAssumption DEF TypeOK, MachineType, Boots
<1>2. CASE Reboot
  BY <1>1, <1>2 DEF Reboot
<1>3. CASE Commit
  BY <1>1, <1>3 DEF Commit
<1>4. CASE UNCHANGED visible
  BY <1>1, <1>4
<1>5. QED
  BY <1>1, <1>2, <1>3, <1>4
     DEF Next, Step, vars, machine, Flush, Trigger, StartByHand, Begin, Rest, Decide,
         DetectError, Send, SendLost, SendFailed, OpenTmp, WriteTmp, Rename, SaveFailed, Kill

\* Every number a run or a file holds is one the log had shown.
LEMMA AheadStep ==
  TypeOK /\ PhaseInv /\ NothingAhead /\ [Next]_vars => NothingAhead'
<1> SUFFICES ASSUME TypeOK, PhaseInv, NothingAhead, [Next]_vars PROVE NothingAhead'
  OBVIOUS
<1>0. /\ stateFile \in Nat /\ tmpFile.names \in Nat /\ older \subseteq Nat
      /\ \A q \in Runs : loaded[q] \in Nat /\ seen[q] \in Nat
      /\ visible \in Nat /\ visible' \in Nat /\ visible <= visible'
  BY VisibleGrows DEF TypeOK, FileType, RunType
<1>1. UNCHANGED posted => \A b \in Boots : b > visible' => posted'[b] = 0
  BY <1>0 DEF NothingAhead, Boots
<1>2. stateFile' \in {stateFile, NoBoot, tmpFile.names} \cup older => stateFile' <= visible'
  BY <1>0 DEF NothingAhead, NoBoot
<1> DEFINE OlderShown == \A b \in older : b <= visible
<1>17. older' \subseteq older \cup {stateFile} => OlderShown'
  BY <1>0 DEF NothingAhead
<1>3. ASSUME NEW q \in Runs PROVE loaded[q] <= visible' /\ seen[q] <= visible' /\ NoBoot <= visible'
  BY <1>0 DEF NothingAhead, NoBoot
<1>4. UNCHANGED tmpFile => tmpFile'.names <= visible'
  BY <1>0 DEF NothingAhead
<1>5. ASSUME NEW rs \in SUBSET Runs, Exit(rs), NEW q \in Runs
      PROVE  loaded'[q] <= visible' /\ seen'[q] <= visible'
  BY <1>3, <1>5, ExitEffect
<1>6. CASE Reboot
  BY <1>1, <1>2, <1>17, <1>4, <1>5, <1>6 DEF Reboot, NothingAhead
<1>7. CASE Commit \/ Flush \/ Rest \/ UNCHANGED vars
  <2>1. UNCHANGED <<stateFile, tmpFile, loaded, seen, posted>> /\ older' \subseteq older
    BY <1>7 DEF Commit, Flush, Rest, vars, file, run, account
  <2>2. QED
    BY <1>1, <1>2, <1>17, <1>3, <1>4, <2>1 DEF NothingAhead
<1>8. ASSUME NEW r \in Runs, NEW f \in BOOLEAN, Begin(r, f) PROVE NothingAhead'
  <2>1. UNCHANGED <<stateFile, tmpFile, older, seen, posted>>
    BY <1>8 DEF Begin, file, run
  <2>2. ASSUME NEW q \in Runs PROVE loaded'[q] \in {loaded[q], stateFile}
    BY <1>8 DEF Begin, run, TypeOK, RunType
  <2>3. QED
    BY <1>1, <1>2, <1>17, <1>3, <1>4, <2>1, <2>2 DEF NothingAhead
<1>9. CASE Trigger
  <2>1. CASE UNCHANGED <<boot, visible, file, run, account>>
    BY <1>1, <1>2, <1>17, <1>3, <1>4, <2>1 DEF NothingAhead, file, run, account
  <2>2. QED
    BY <1>8, <1>9, <2>1, SetupAssumption DEF Trigger
<1>10. ASSUME NEW r \in Runs, StartByHand(r) PROVE NothingAhead'
  BY <1>8, <1>10 DEF StartByHand
<1>11. ASSUME NEW r \in Runs, Decide(r) PROVE NothingAhead'
  <2>1. PICK b \in Latest : Skip(r, b) \/ Exclude(r, b) \/ NoWebhook(r, b) \/ Notify(r, b)
    BY <1>11 DEF Decide
  <2>2. UNCHANGED <<stateFile, tmpFile, older, posted, visible>> /\ b = visible
    BY <1>11, <2>1 DEF Decide, file, machine, Latest
  <2>3. ASSUME NEW q \in Runs PROVE loaded'[q] <= visible' /\ seen'[q] <= visible'
    <3>1. CASE Exit({r})
      BY <1>5, <3>1
    <3>2. CASE Exclude(r, b) \/ Notify(r, b)
      BY <1>0, <1>3, <2>2, <3>2 DEF Exclude, Notify, TypeOK, RunType
    <3>3. QED
      BY <2>1, <3>1, <3>2 DEF Skip, NoWebhook
  <2>4. QED
    BY <1>1, <1>2, <1>17, <1>4, <2>2, <2>3 DEF NothingAhead
<1>12. ASSUME NEW r \in Runs, Send(r) \/ SendLost(r) PROVE NothingAhead'
  <2>1. UNCHANGED <<stateFile, tmpFile, older, loaded, seen, visible>> /\ Post(r)
    BY <1>12 DEF Send, SendLost, file, run, machine
  <2>2. seen[r] <= visible /\ \A b \in Boots : b # seen[r] => posted'[b] = posted[b]
    BY <2>1 DEF Post, NothingAhead, TypeOK, AccountType
  <2>3. \A b \in Boots : b > visible' => posted'[b] = 0
    BY <1>0, <2>1, <2>2 DEF NothingAhead, Boots
  <2>4. QED
    BY <1>2, <1>17, <1>3, <1>4, <2>1, <2>3 DEF NothingAhead
<1>13. ASSUME NEW r \in Runs, DetectError(r) \/ SendFailed(r) \/ SaveFailed(r) \/ Kill(r)
       PROVE NothingAhead'
  <2>1. UNCHANGED <<stateFile, tmpFile, older, posted>> /\ Exit({r})
    BY <1>13 DEF DetectError, SendFailed, SaveFailed, Kill, file
  <2>2. QED
    BY <1>1, <1>2, <1>17, <1>4, <1>5, <2>1 DEF NothingAhead
<1>14. ASSUME NEW r \in Runs, OpenTmp(r) \/ WriteTmp(r) PROVE NothingAhead'
  <2>1. UNCHANGED <<stateFile, older, loaded, seen, posted>> /\ tmpFile'.names \in {NoBoot, seen[r]}
    BY <1>14 DEF OpenTmp, WriteTmp, account
  <2>2. QED
    BY <1>1, <1>2, <1>17, <1>3, <2>1 DEF NothingAhead
<1>15. ASSUME NEW r \in Runs, Rename(r) PROVE NothingAhead'
  <2>1. /\ stateFile' = tmpFile.names /\ tmpFile'.names = NoBoot
        /\ UNCHANGED posted /\ Exit({r}) /\ older' = older \cup {stateFile}
    BY <1>15 DEF Rename
  <2>2. QED
    BY <1>1, <1>2, <1>17, <1>3, <1>5, <1>15, <2>1 DEF NothingAhead
<1>16. QED
  BY <1>6, <1>7, <1>9, <1>10, <1>11, <1>12, <1>13, <1>14, <1>15 DEF Next, Step

LEMMA ExcusedGrows == ASSUME [Next]_vars PROVE excused \subseteq excused'
<1>1. ASSUME NEW bs, Excuse(bs) PROVE excused \subseteq excused'
  BY <1>1 DEF Excuse
<1>2. ASSUME NEW r, NEW f, Begin(r, f) PROVE excused \subseteq excused'
  BY <1>1, <1>2 DEF Begin
<1>3. QED
  BY <1>1, <1>2
     DEF Next, Step, vars, account, Reboot, Commit, Flush, Trigger, StartByHand, Rest, Decide,
         Skip, Exclude, NoWebhook, Notify, DetectError, Send, SendLost, SendFailed, OpenTmp,
         WriteTmp, Rename, SaveFailed, Kill

\* Within a boot, what two runs have muddled stays muddled.
LEMMA MuddledStays ==
  ASSUME [Next]_vars, Muddled PROVE Muddled' \/ Reboot
<1>1. excused \subseteq excused'
  BY ExcusedGrows
<1>2. Reboot \/ (UNCHANGED boot /\ visible' \in {visible, boot})
  BY DEF Next, Step, vars, machine, Commit, Flush, Trigger, StartByHand, Begin, Rest, Decide,
         DetectError, Send, SendLost, SendFailed, OpenTmp, WriteTmp, Rename, SaveFailed, Kill
<1>3. QED
  BY <1>1, <1>2 DEF Muddled

\* A run that is alone finds the files as it left them; two runs at once are noted.
LEMMA AloneStep ==
  TypeOK /\ PhaseInv /\ NothingAhead /\ AloneInv /\ [Next]_vars => AloneInv'
<1> SUFFICES ASSUME TypeOK, PhaseInv, NothingAhead, AloneInv, [Next]_vars PROVE AloneInv'
  OBVIOUS
<1>0. /\ RunType /\ stateFile \in Nat /\ visible \in Nat
      /\ \A q \in Runs : Idle(q) => seen[q] = NoBoot
  BY BoundAssumption DEF TypeOK, FileType, MachineType, PhaseInv, PhaseOK, Idle, Boots
<1>1. ASSUME NEW q \in Runs, pc'[q] = "idle", seen'[q] = NoBoot PROVE HasFiles(q)'
  BY <1>1 DEF HasFiles
<1>2. CASE Reboot
  <2>1. \A q \in Runs : pc'[q] = "idle" /\ seen'[q] = NoBoot
    BY <1>2, ExitEffect DEF Reboot
  <2>2. QED
    BY <1>1, <2>1 DEF AloneInv, Idle
<1>3. Muddled => Muddled' \/ Reboot
  BY MuddledStays
<1>4. ASSUME UNCHANGED <<stateFile, tmpFile, run, posted>> PROVE AloneInv'
  <2>1. \A q \in Runs : HasFiles(q) => HasFiles(q)'
    BY <1>4 DEF HasFiles, run
  <2>2. \A q \in Runs : Idle(q)' = Idle(q)
    BY <1>4 DEF Idle, run
  <2>3. QED
    BY <1>2, <1>3, <2>1, <2>2 DEF AloneInv
\* A step of one active run, which only concerns that run's own variables.
<1>5. ASSUME NEW r \in Runs, ~Idle(r), ~Reboot,
             \A q \in Runs \ {r} : UNCHANGED <<pc[q], seen[q], loaded[q]>>,
             Muddled' \/ HasFiles(r)'
      PROVE  AloneInv'
  <2>1. ASSUME NEW q \in Runs \ {r}, NEW p \in Runs, p # q, ~Idle(q)' PROVE Muddled'
    BY <1>3, <1>5, <2>1 DEF AloneInv, Idle
  <2>2. ASSUME NEW q \in Runs PROVE Muddled' \/ HasFiles(q)'
    <3>1. CASE q = r
      BY <1>5, <3>1
    <3>2. CASE q # r /\ Idle(q)
      BY <1>0, <1>1, <1>5, <3>2 DEF Idle
    <3>3. CASE q # r /\ ~Idle(q)
      BY <1>3, <1>5, <3>3 DEF AloneInv
    <3>4. QED
      BY <3>1, <3>2, <3>3
  <2>3. QED
    BY <2>1, <2>2 DEF AloneInv
<1>6. ASSUME NEW r \in Runs, ~Idle(r), Exit({r}), ~Reboot PROVE AloneInv'
  <2>1. pc'[r] = "idle" /\ seen'[r] = NoBoot
    BY <1>6, ExitEffect
  <2>2. \A q \in Runs \ {r} : UNCHANGED <<pc[q], seen[q], loaded[q]>>
    BY <1>6, ExitEffect
  <2>3. HasFiles(r)'
    BY <1>1, <2>1
  <2>4. QED
    BY <1>5, <1>6, <2>2, <2>3
<1>7. CASE Commit \/ Flush \/ Rest \/ UNCHANGED vars
  BY <1>4, <1>7 DEF Commit, Flush, Rest, vars, file, account
<1>8. ASSUME NEW r \in Runs, NEW f \in BOOLEAN, Begin(r, f), Idle(r), ~Reboot PROVE AloneInv'
  <2>1. CASE UNCHANGED run
    BY <1>4, <1>8, <2>1 DEF Begin, file
  <2>2. CASE /\ Goto(r, "collect") /\ loaded' = [loaded EXCEPT ![r] = stateFile]
             /\ Excuse(IF Active = {} THEN {} ELSE {visible, boot})
             /\ UNCHANGED <<seen, sent, log>>
    <3>1. UNCHANGED <<boot, visible, stateFile, tmpFile, posted>>
      BY <1>8 DEF Begin, file
    <3>2. CASE Active = {}
      <4>1. \A q \in Runs : Idle(q)
        BY <3>2 DEF Active
      <4>2. \A q \in Runs : q # r => pc'[q] = "idle" /\ seen'[q] = NoBoot
        BY <1>0, <2>2, <4>1, GotoEffect DEF Idle
      <4>3. HasFiles(r)'
        BY <1>0, <1>8, <2>2, <3>1, GotoEffect DEF HasFiles, RunType
      <4>4. QED
        BY <1>1, <4>2, <4>3 DEF AloneInv, Idle
    <3>3. CASE Active # {}
      BY <2>2, <3>1, <3>3 DEF AloneInv, Muddled, Excuse
    <3>4. QED
      BY <3>2, <3>3
  <2>3. QED
    BY <1>8, <2>1, <2>2 DEF Begin
<1>9. ASSUME ~Reboot, Trigger PROVE AloneInv'
  BY <1>4, <1>8, <1>9, SetupAssumption DEF Trigger, file, account
<1>10. ASSUME NEW r \in Runs, StartByHand(r), ~Reboot PROVE AloneInv'
  BY <1>8, <1>10 DEF StartByHand
<1>11. ASSUME NEW r \in Runs, Decide(r), ~Reboot PROVE AloneInv'
  <2>1. PICK b \in Latest : Skip(r, b) \/ Exclude(r, b) \/ NoWebhook(r, b) \/ Notify(r, b)
    BY <1>11 DEF Decide
  <2>2. b = visible /\ ~Idle(r) /\ UNCHANGED <<stateFile, tmpFile, posted>>
    BY <1>11, <2>1 DEF Decide, Latest, Idle, file
  <2>3. CASE Exclude(r, b) \/ Notify(r, b)
    <3>1. /\ \A q \in Runs \ {r} : UNCHANGED <<pc[q], seen[q], loaded[q]>>
          /\ seen'[r] = visible /\ pc'[r] \in {"open", "send"}
      BY <1>0, <2>2, <2>3, GotoEffect DEF Exclude, Notify, RunType
    <3>2. HasFiles(r)'
      BY <2>2, <3>1 DEF HasFiles, NothingAhead
    <3>3. QED
      BY <1>5, <1>11, <2>2, <3>1, <3>2
  <2>4. QED
    BY <1>6, <1>11, <2>1, <2>2, <2>3 DEF Skip, NoWebhook
<1>12. ASSUME NEW r \in Runs, Send(r), ~Reboot PROVE AloneInv'
  <2>1. /\ UNCHANGED <<stateFile, tmpFile, loaded, seen>> /\ ~Idle(r) /\ pc'[r] = "open"
        /\ \A q \in Runs \ {r} : pc'[q] = pc[q]
    BY <1>0, <1>12, GotoEffect DEF Send, Post, Idle, file
  <2>2. \A b \in Boots : b > seen[r] => posted'[b] = posted[b]
    BY <1>0, <1>12 DEF Send, Post, TypeOK, AccountType, RunType, Boots
  <2>3. HasFiles(r) => HasFiles(r)'
    BY <2>1, <2>2 DEF HasFiles
  <2>4. QED
    BY <1>3, <1>5, <1>12, <2>1, <2>3 DEF AloneInv
<1>13. ASSUME NEW r \in Runs, SendLost(r), ~Reboot PROVE AloneInv'
  <2>1. UNCHANGED <<stateFile, tmpFile, run>> /\ ~Idle(r)
    BY <1>13 DEF SendLost, Post, Idle, file
  <2>2. \A b \in Boots : b > seen[r] => posted'[b] = posted[b]
    BY <1>0, <1>13 DEF SendLost, Post, TypeOK, AccountType, RunType, Boots
  <2>3. HasFiles(r) => HasFiles(r)'
    BY <2>1, <2>2 DEF HasFiles, run
  <2>4. QED
    BY <1>3, <1>5, <1>13, <2>1, <2>3 DEF AloneInv, run
<1>14. ASSUME NEW r \in Runs, OpenTmp(r) \/ WriteTmp(r), ~Reboot PROVE AloneInv'
  <2>1. /\ UNCHANGED <<stateFile, loaded, seen, posted>> /\ ~Idle(r)
        /\ \A q \in Runs \ {r} : pc'[q] = pc[q]
    BY <1>0, <1>14, GotoEffect DEF OpenTmp, WriteTmp, Idle, account
  <2>2. HasFiles(r) => HasFiles(r)'
    BY <1>0, <1>14, <2>1, GotoEffect DEF HasFiles, OpenTmp, WriteTmp
  <2>3. QED
    BY <1>3, <1>5, <1>14, <2>1, <2>2 DEF AloneInv
<1>15. ASSUME NEW r \in Runs, ~Reboot,
              DetectError(r) \/ SendFailed(r) \/ SaveFailed(r) \/ Kill(r) \/ Rename(r)
       PROVE AloneInv'
  <2>1. Exit({r}) /\ ~Idle(r)
    BY <1>15 DEF DetectError, SendFailed, SaveFailed, Kill, Rename, Idle, Recording
  <2>2. QED
    BY <1>6, <1>15, <2>1
<1>16. QED
  BY <1>2, <1>7, <1>9, <1>10, <1>11, <1>12, <1>13, <1>14, <1>15 DEF Next, Step

LEMMA SameBootStep ==
  TypeOK /\ PhaseInv /\ AloneInv /\ SameBootInv /\ [Next]_vars => SameBootInv'
<1> SUFFICES ASSUME TypeOK, PhaseInv, AloneInv, SameBootInv, [Next]_vars,
                    NEW r \in Runs, NEW q \in Runs,
                    r # q, seen'[r] # NoBoot, seen'[r] = seen'[q]
             PROVE  seen'[r] \in excused'
  BY DEF SameBootInv
<1>0. RunType /\ excused \subseteq excused'
  BY ExcusedGrows DEF TypeOK
<1>1. CASE seen'[r] = seen[r] /\ seen'[q] = seen[q]
  BY <1>0, <1>1 DEF SameBootInv
<1>2. ASSUME NEW rs \in SUBSET Runs, Exit(rs) PROVE seen'[r] \in excused'
  BY <1>1, <1>2, ExitEffect
<1>3. ASSUME NEW p \in Runs, Decide(p) PROVE seen'[r] \in excused'
  <2>1. PICK b \in Latest : Skip(p, b) \/ Exclude(p, b) \/ NoWebhook(p, b) \/ Notify(p, b)
    BY <1>3 DEF Decide
  <2>2. CASE Exclude(p, b) \/ Notify(p, b)
    <3>1. seen' = [seen EXCEPT ![p] = b] /\ b = visible /\ pc[p] = "collect"
      BY <1>3, <2>1, <2>2 DEF Exclude, Notify, Latest, Decide
    <3>2. CASE p \notin {r, q}
      BY <1>0, <1>1, <3>1, <3>2 DEF RunType
    <3>3. CASE p \in {r, q}
      <4>1. \A o \in {r, q} \ {p} : seen[o] # NoBoot
        BY <1>0, <3>1, <3>3 DEF RunType
      <4>2. ~Idle(r) /\ ~Idle(q)
        BY <3>1, <3>3, <4>1 DEF PhaseInv, PhaseOK, Idle
      <4>3. Muddled
        BY <4>2 DEF AloneInv
      <4>4. QED
        BY <1>0, <3>1, <3>3, <4>3 DEF Muddled, RunType
    <3>4. QED
      BY <3>2, <3>3
  <2>3. QED
    BY <1>2, <2>1, <2>2 DEF Skip, NoWebhook
<1>4. QED
  BY <1>1, <1>2, <1>3
     DEF Next, Step, vars, run, Reboot, Commit, Flush, Trigger, StartByHand, Begin, Rest,
         DetectError, Send, SendLost, SendFailed, OpenTmp, WriteTmp, Rename, SaveFailed, Kill

\* What a run that goes on to send knows: with nothing to excuse, no message about
\* the boot is out.
LEMMA NotifyIsFirst ==
  ASSUME TypeOK, PhaseInv, AloneInv, OnceInv,
         NEW r \in Runs, pc[r] = "collect", ~force[r], NEW b \in Latest, b \notin excused,
         ~AlreadyNotified(r, b)
  PROVE  posted[b] = 0
<1>1. b = visible /\ b \in Boots /\ ~Idle(r)
  BY LatestType DEF Latest, Idle
<1>2. ~Muddled
  BY <1>1 DEF Muddled
<1>3. stateFile # visible
  BY <1>1, <1>2 DEF AloneInv, HasFiles, AlreadyNotified
<1>4. ~\E q \in Runs : pc[q] \in Recording /\ seen[q] = visible
  BY <1>1, <1>2 DEF AloneInv, Idle, Recording
<1>5. ~(posted[b] > 0)
  BY <1>1, <1>3, <1>4 DEF OnceInv, VisibleRecorded
<1>6. QED
  BY <1>1, <1>5 DEF TypeOK, AccountType

LEMMA OnceStep ==
  TypeOK /\ PhaseInv /\ NothingAhead /\ AloneInv /\ SameBootInv /\ OnceInv /\ [Next]_vars
    => OnceInv'
<1> SUFFICES ASSUME TypeOK, PhaseInv, NothingAhead, AloneInv, SameBootInv, OnceInv, [Next]_vars
             PROVE  OnceInv'
  OBVIOUS
<1>0. /\ RunType /\ excused \subseteq excused' /\ TypeOK'
      /\ \A b \in Boots : posted[b] \in Nat
      /\ \A q \in Runs : pc[q] \in {"send"} \cup Recording => seen[q] \in Boots
  BY ExcusedGrows, TypeStep DEF TypeOK, PhaseInv, PhaseOK, AccountType
<1>1. UNCHANGED posted => DuplicateNeedsExcuse'
  BY <1>0 DEF OnceInv, DuplicateNeedsExcuse
<1>2. ASSUME NEW q \in Runs, pc'[q] = pc[q] /\ seen'[q] = seen[q], posted' = posted PROVE NotYetSent(q)'
  BY <1>0, <1>2 DEF OnceInv, NotYetSent
<1>3. ASSUME NEW q \in Runs, pc'[q] # "send" PROVE NotYetSent(q)'
  BY <1>3 DEF NotYetSent
<1>4. ASSUME NEW rs \in SUBSET Runs, Exit(rs), UNCHANGED posted, NEW q \in Runs
      PROVE  NotYetSent(q)'
  BY <1>2, <1>3, <1>4, ExitEffect
\* The visible boot stays recorded when no run that records it disappears.
<1>5. ASSUME UNCHANGED <<visible, posted>>, stateFile' = stateFile \/ visible \in excused',
             \A q \in Runs : pc[q] \in Recording /\ seen[q] = visible
                => \/ pc'[q] \in Recording /\ seen'[q] = visible
                   \/ visible \in excused' \/ stateFile' = visible
      PROVE  VisibleRecorded'
  BY <1>0, <1>5 DEF OnceInv, VisibleRecorded
<1>6. CASE Reboot
  <2>1. DuplicateNeedsExcuse' /\ \A q \in Runs : NotYetSent(q)'
    BY <1>1, <1>4, <1>6 DEF Reboot
  <2>2. CASE visible' = visible
    <3>1. \A q \in Runs : pc[q] \in Recording => seen[q] \in excused'
      BY <1>6 DEF Reboot, Unrecorded, Excuse
    <3>2. stateFile' = stateFile \/ stateFile \in excused'
      BY <1>6 DEF Reboot, Excuse
    <3>3. QED
      BY <1>0, <1>6, <2>1, <2>2, <3>1, <3>2 DEF Reboot, OnceInv, VisibleRecorded
  <2>3. CASE visible' # visible
    <3>1. visible' > visible
      BY <2>3, VisibleGrows
    <3>2. VisibleRecorded'
      BY <1>0, <1>6, <3>1 DEF Reboot, NothingAhead, VisibleRecorded
    <3>3. QED
      BY <2>1, <3>2 DEF OnceInv
  <2>4. QED
    BY <2>2, <2>3
<1>7. CASE Commit
  <2>1. UNCHANGED <<posted, run, excused>> /\ visible' > visible
    BY <1>7 DEF Commit, account, TypeOK, MachineType, Boots
  <2>2. VisibleRecorded'
    BY <1>0, <2>1 DEF NothingAhead, VisibleRecorded
  <2>3. QED
    BY <1>1, <1>2, <2>1, <2>2 DEF OnceInv, run
<1>8. ASSUME UNCHANGED <<visible, stateFile, posted>>,
             \A q \in Runs : /\ pc[q] = "send" \/ pc[q] \in Recording
                               => pc'[q] = pc[q] /\ seen'[q] = seen[q]
                             /\ pc'[q] = "send" => pc[q] = "send"
      PROVE  OnceInv'
  <2>1. ASSUME NEW q \in Runs PROVE NotYetSent(q)'
    <3>1. CASE pc'[q] = "send"
      BY <1>0, <1>2, <1>8, <3>1 DEF RunType
    <3>2. QED
      BY <1>3, <3>1
  <2>2. VisibleRecorded'
    <3>1. \A q \in Runs : pc[q] \in Recording => pc'[q] = pc[q] /\ seen'[q] = seen[q]
      BY <1>0, <1>8 DEF RunType, Recording
    <3>2. QED
      BY <1>5, <1>8, <3>1
  <2>3. QED
    BY <1>1, <1>8, <2>1, <2>2 DEF OnceInv
<1>9. CASE Flush \/ Rest \/ UNCHANGED vars
  BY <1>8, <1>9 DEF Flush, Rest, vars, machine, file, run, account
<1>10. ASSUME NEW r \in Runs, NEW f \in BOOLEAN, Begin(r, f), Idle(r) PROVE OnceInv'
  <2>1. UNCHANGED <<visible, stateFile, posted>>
    BY <1>10 DEF Begin, file
  <2>2. \A q \in Runs : /\ q # r => pc'[q] = pc[q] /\ seen'[q] = seen[q]
                        /\ q = r => pc'[q] \in {"idle", "collect"}
    BY <1>0, <1>10, GotoEffect DEF Begin, run, Idle
  <2>3. QED
    BY <1>8, <1>10, <2>1, <2>2 DEF Idle, Recording
<1>11. CASE Trigger
  <2>1. CASE UNCHANGED <<boot, visible, file, run, account>>
    BY <1>8, <2>1 DEF file, run, account
  <2>2. QED
    BY <1>10, <1>11, <2>1, SetupAssumption DEF Trigger
<1>12. ASSUME NEW r \in Runs, StartByHand(r) PROVE OnceInv'
  BY <1>10, <1>12 DEF StartByHand
<1>13. ASSUME NEW r \in Runs, Decide(r) PROVE OnceInv'
  <2>1. PICK b \in Latest : Skip(r, b) \/ Exclude(r, b) \/ NoWebhook(r, b) \/ Notify(r, b)
    BY <1>13 DEF Decide
  <2>2. UNCHANGED <<visible, stateFile, posted>> /\ pc[r] = "collect"
    BY <1>13 DEF Decide, machine, file
  <2>3. CASE Exit({r})
    BY <1>8, <2>2, <2>3, ExitEffect DEF Recording
  <2>4. CASE Exclude(r, b)
    <3>1. \A q \in Runs : /\ q # r => pc'[q] = pc[q] /\ seen'[q] = seen[q]
                          /\ q = r => pc'[q] = "open"
      BY <1>0, <2>4, GotoEffect DEF Exclude, RunType
    <3>2. QED
      BY <1>8, <2>2, <3>1 DEF Recording
  <2>5. CASE Notify(r, b)
    <3>1. \A q \in Runs : /\ q # r => pc'[q] = pc[q] /\ seen'[q] = seen[q]
                          /\ q = r => pc'[q] = "send" /\ seen'[q] = b
      BY <1>0, <2>5, GotoEffect DEF Notify, RunType
    <3>2. VisibleRecorded'
      BY <1>5, <2>2, <3>1 DEF Recording
    <3>3. b \notin excused' => posted[b] = 0
      <4>1. b \notin excused' => ~force[r] /\ b \notin excused /\ ~AlreadyNotified(r, b)
        BY <1>0, <2>5 DEF Notify, Excuse
      <4>2. QED
        BY <2>1, <2>2, <4>1, NotifyIsFirst
    <3>4. NotYetSent(r)'
      BY <2>2, <3>1, <3>3 DEF NotYetSent
    <3>5. \A q \in Runs : NotYetSent(q)'
      BY <1>2, <2>2, <3>1, <3>4
    <3>6. QED
      BY <1>1, <2>2, <3>2, <3>5 DEF OnceInv
  <2>6. QED
    BY <2>1, <2>3, <2>4, <2>5 DEF Skip, NoWebhook
<1>14. ASSUME NEW r \in Runs, Send(r) PROVE OnceInv'
  <2>1. /\ seen[r] \in Boots /\ pc[r] = "send" /\ UNCHANGED <<visible, stateFile, seen, excused>>
        /\ posted' = [posted EXCEPT ![seen[r]] = @ + 1]
    BY <1>0, <1>14 DEF Send, Post, machine, file
  <2>2. \A b \in Boots : posted'[b] = IF b = seen[r] THEN posted[b] + 1 ELSE posted[b]
    BY <2>1 DEF TypeOK, AccountType
  <2>3. seen[r] \notin excused => posted[seen[r]] = 0
    BY <2>1 DEF OnceInv, NotYetSent
  <2>4. DuplicateNeedsExcuse'
    BY <2>1, <2>2, <2>3 DEF OnceInv, DuplicateNeedsExcuse
  <2>5. ASSUME NEW q \in Runs PROVE NotYetSent(q)'
    <3>1. CASE q = r
      BY <1>0, <1>3, <1>14, <3>1, GotoEffect DEF Send
    <3>2. CASE q # r /\ pc'[q] = "send"
      <4>1. pc[q] = "send" /\ seen[q] \in Boots
        BY <1>0, <1>14, <3>2, GotoEffect DEF Send
      <4>2. CASE seen[q] = seen[r]
        BY <2>1, <3>2, <4>1, <4>2 DEF SameBootInv, NotYetSent, Boots, NoBoot
      <4>3. CASE seen[q] # seen[r]
        BY <2>1, <2>2, <4>1, <4>3 DEF OnceInv, NotYetSent
      <4>4. QED
        BY <4>2, <4>3
    <3>3. QED
      BY <1>3, <3>1, <3>2
  <2>6. VisibleRecorded'
    <3>1. CASE seen[r] = visible
      <4>1. pc'[r] \in Recording /\ seen'[r] = visible'
        BY <1>0, <1>14, <2>1, <3>1, GotoEffect DEF Send, Recording
      <4>2. QED
        BY <4>1 DEF VisibleRecorded
    <3>2. CASE seen[r] # visible
      <4>1. \A q \in Runs : pc[q] \in Recording => pc'[q] \in Recording
        BY <1>0, <1>14, <2>1, GotoEffect DEF Send, Recording
      <4>2. QED
        BY <2>1, <2>2, <3>2, <4>1 DEF OnceInv, VisibleRecorded
    <3>3. QED
      BY <3>1, <3>2
  <2>7. QED
    BY <2>4, <2>5, <2>6 DEF OnceInv
<1>15. ASSUME NEW r \in Runs, SendLost(r) PROVE OnceInv'
  <2>1. /\ seen[r] \in Boots /\ seen[r] \in excused' /\ UNCHANGED <<visible, stateFile, run>>
        /\ posted' = [posted EXCEPT ![seen[r]] = @ + 1]
    BY <1>0, <1>15 DEF SendLost, Post, Excuse, machine, file
  <2>2. \A b \in Boots : b # seen[r] => posted'[b] = posted[b]
    BY <2>1 DEF TypeOK, AccountType
  <2>3. DuplicateNeedsExcuse'
    BY <1>0, <2>1, <2>2 DEF OnceInv, DuplicateNeedsExcuse
  <2>4. \A q \in Runs : NotYetSent(q)'
    BY <1>0, <2>1, <2>2 DEF OnceInv, NotYetSent, run
  <2>5. VisibleRecorded'
    BY <1>0, <2>1, <2>2 DEF OnceInv, VisibleRecorded, run
  <2>6. QED
    BY <2>3, <2>4, <2>5 DEF OnceInv
<1>16. ASSUME NEW r \in Runs, DetectError(r) \/ SendFailed(r) PROVE OnceInv'
  <2>1. UNCHANGED <<visible, stateFile, posted>> /\ Exit({r}) /\ pc[r] \in {"collect", "send"}
    BY <1>16 DEF DetectError, SendFailed, machine, file
  <2>2. \A q \in Runs : NotYetSent(q)'
    BY <1>4, <2>1
  <2>3. VisibleRecorded'
    BY <1>5, <2>1, ExitEffect DEF Recording
  <2>4. QED
    BY <1>1, <2>1, <2>2, <2>3 DEF OnceInv
<1>17. ASSUME NEW r \in Runs, SaveFailed(r) \/ Kill(r) PROVE OnceInv'
  <2>1. /\ UNCHANGED <<visible, stateFile, posted>> /\ Exit({r})
        /\ pc[r] \in Recording => seen[r] \in excused'
    BY <1>17 DEF SaveFailed, Kill, Unrecorded, Excuse, machine, file
  <2>2. \A q \in Runs : NotYetSent(q)'
    BY <1>4, <2>1
  <2>3. VisibleRecorded'
    BY <1>5, <2>1, ExitEffect
  <2>4. QED
    BY <1>1, <2>1, <2>2, <2>3 DEF OnceInv
<1>18. ASSUME NEW r \in Runs, OpenTmp(r) \/ WriteTmp(r) PROVE OnceInv'
  <2>1. /\ UNCHANGED <<visible, stateFile, posted, seen>> /\ pc[r] \in Recording
        /\ pc'[r] \in Recording /\ \A q \in Runs \ {r} : pc'[q] = pc[q]
    BY <1>0, <1>18, GotoEffect DEF OpenTmp, WriteTmp, machine, account, Recording
  <2>2. \A q \in Runs : NotYetSent(q)'
    BY <1>2, <1>3, <2>1 DEF Recording
  <2>3. VisibleRecorded'
    BY <1>5, <2>1
  <2>4. QED
    BY <1>1, <2>1, <2>2, <2>3 DEF OnceInv
<1>19. ASSUME NEW r \in Runs, Rename(r) PROVE OnceInv'
  <2>1. /\ UNCHANGED <<visible, posted, excused>> /\ Exit({r}) /\ pc[r] = "rename"
        /\ stateFile' = tmpFile.names
    BY <1>19 DEF Rename, machine
  <2>2. \A q \in Runs : NotYetSent(q)'
    BY <1>4, <2>1
  <2>3. VisibleRecorded'
    <3>1. CASE visible \in excused
      BY <2>1, <3>1 DEF VisibleRecorded
    <3>2. CASE visible \notin excused
      <4>1. /\ stateFile' = seen[r]
            /\ \A b \in Boots : b > seen[r] => posted[b] = 0
            /\ seen[r] \in Boots /\ seen[r] <= visible
        BY <1>0, <2>1, <3>2
           DEF AloneInv, HasFiles, Muddled, NothingAhead, Recording, Boots, NoBoot
      <4>2. CASE seen[r] = visible
        BY <2>1, <4>1, <4>2 DEF VisibleRecorded
      <4>3. CASE seen[r] # visible
        BY <2>1, <4>1, <4>3 DEF VisibleRecorded, TypeOK, MachineType, Boots
      <4>4. QED
        BY <4>2, <4>3
    <3>3. QED
      BY <3>1, <3>2
  <2>4. QED
    BY <1>1, <2>1, <2>2, <2>3 DEF OnceInv
<1>20. QED
  BY <1>6, <1>7, <1>9, <1>11, <1>12, <1>13, <1>14, <1>15, <1>16, <1>17, <1>18, <1>19
     DEF Next, Step

-----------------------------------------------------------------------------
(* The invariant, and what it gives for every set of faults.               *)

LEMMA InitInvariant == Init => IInv
<1> SUFFICES ASSUME Init PROVE IInv
  OBVIOUS
<1> USE BoundAssumption, SetupAssumption DEF Init, NoBoot, Boots
<1>1. TypeOK
  <2>1. MachineType /\ FileType
    <3>1. visible \in 0 .. 1 /\ 1 \in Boots /\ 0 \in 0 .. MaxBoots /\ 0 \in 0 .. MaxStarts
      OBVIOUS
    <3>2. QED
      BY <3>1 DEF MachineType, FileType
  <2>2. RunType
    BY DEF RunType
  <2>3. AccountType
    BY DEF AccountType
  <2>4. QED
    BY <2>1, <2>2, <2>3 DEF TypeOK
<1>2. PhaseInv /\ SettledInv /\ LogInv
  BY DEF PhaseInv, PhaseOK, SettledInv, SettledBy, LogInv, Recording
<1>3. NothingAhead /\ AloneInv /\ SameBootInv
  BY DEF NothingAhead, AloneInv, HasFiles, Idle, SameBootInv
<1>4. OnceInv
  BY DEF OnceInv, DuplicateNeedsExcuse, NotYetSent, VisibleRecorded
<1>5. QED
  BY <1>1, <1>2, <1>3, <1>4 DEF IInv

\* The inductive invariant holds in every reachable state.
THEOREM Invariant == Spec => []IInv
<1>1. IInv /\ [Next]_vars => IInv'
  BY TypeStep, PhaseStep, SettledStep, LogStep, AheadStep, AloneStep, SameBootStep, OnceStep
     DEF IInv
<1>2. QED
  BY InitInvariant, <1>1, PTL DEF Spec

\* Every variable keeps its type.
THEOREM TypeCorrect == Spec => []TypeOK
<1>1. IInv => TypeOK
  BY DEF IInv
<1>2. QED
  BY Invariant, <1>1, PTL

\* Whatever fails, state.json names only a boot that was reported or excluded:
\* a crash or a failed write never silences a boot nobody was told about.
THEOREM NothingSilenced == Spec => []RecordedIsSettled
<1>1. IInv => RecordedIsSettled
  BY DEF IInv, SettledInv, RecordedIsSettled
<1>2. QED
  BY Invariant, <1>1, PTL

\* Every line of service.log says what happened, in every interleaving and after
\* every failure.
THEOREM HonestLog == Spec => []LogIsTruthful
<1>1. IInv => LogIsTruthful
  BY DEF IInv, LogInv, LogIsTruthful
<1>2. QED
  BY Invariant, <1>1, PTL

\* A boot is reported twice only after a lost answer, an unrecorded delivery,
\* -force or overlapping runs.
THEOREM DuplicatesExplained == Spec => []DuplicateNeedsExcuse
<1>1. IInv => DuplicateNeedsExcuse
  BY DEF IInv, OnceInv
<1>2. QED
  BY Invariant, <1>1, PTL

-----------------------------------------------------------------------------
(* Without a fault that excuses a boot, the promise is kept.               *)

\* The faults the state file makes up for: late markers, failing queries,
\* configurations and posts, and excluded categories.
Harmless == {"late", "config", "exclude", "query", "fail"}

NothingExcused == excused = {} /\ \A r \in Runs : ~force[r]

LEMMA NothingExcusedStep ==
  ASSUME Faults \subseteq Harmless, IInv, NothingExcused, [Next]_vars
  PROVE  NothingExcused'
<1>0. /\ RunType
      /\ \A f \in {"overlap", "force", "lost", "disk", "kill", "interrupt", "power"} : ~Faulty(f)
  BY DEF IInv, TypeOK, Faulty, Harmless
<1>1. ~Muddled
  BY DEF NothingExcused, Muddled
<1>2. ASSUME NEW rs \in SUBSET Runs, Exit(rs), UNCHANGED excused PROVE NothingExcused'
  BY <1>0, <1>2 DEF Exit, NothingExcused, RunType
<1>3. CASE Reboot
  BY <1>0, <1>2, <1>3 DEF Reboot, Excuse, Unrecorded
<1>4. ASSUME NEW r \in Runs, Begin(r, FALSE) PROVE NothingExcused'
  BY <1>0, <1>4 DEF Begin, Excuse, run, NothingExcused, RunType
<1>5. CASE Trigger
  BY <1>4, <1>5, SetupAssumption DEF Trigger, run, account, NothingExcused
<1>6. ASSUME NEW r \in Runs, StartByHand(r) PROVE NothingExcused'
  BY <1>0, <1>4, <1>6 DEF StartByHand
<1>7. ASSUME NEW r \in Runs, Decide(r) PROVE NothingExcused'
  <2>1. PICK b \in Latest : Skip(r, b) \/ Exclude(r, b) \/ NoWebhook(r, b) \/ Notify(r, b)
    BY <1>7 DEF Decide
  <2>2. CASE Exclude(r, b) \/ Notify(r, b)
    BY <2>2 DEF Exclude, Notify, Excuse, NothingExcused
  <2>3. QED
    BY <1>2, <2>1, <2>2 DEF Skip, NoWebhook
<1>8. ASSUME NEW r \in Runs, SaveFailed(r) PROVE NothingExcused'
  <2>1. pc[r] = "rename" /\ ~CanRename
    BY <1>0, <1>8 DEF SaveFailed
  <2>2. tmpFile.exists
    BY <1>1, <2>1 DEF IInv, AloneInv, HasFiles
  <2>3. \A q \in Runs : pc[q] # "write"
    BY <1>1, <2>1 DEF IInv, AloneInv, Idle
  <2>4. QED
    BY <2>1, <2>2, <2>3 DEF CanRename
<1>9. CASE Commit \/ Flush \/ Rest \/ UNCHANGED vars
  BY <1>9 DEF Commit, Flush, Rest, vars, run, account, NothingExcused
<1>10. ASSUME NEW r \in Runs, Send(r) \/ OpenTmp(r) \/ WriteTmp(r) PROVE NothingExcused'
  BY <1>10 DEF Send, OpenTmp, WriteTmp, account, NothingExcused
<1>11. ASSUME NEW r \in Runs, DetectError(r) \/ SendFailed(r) \/ Rename(r)
       PROVE  NothingExcused'
  BY <1>2, <1>11 DEF DetectError, SendFailed, Rename
<1>12. QED
  BY <1>0, <1>3, <1>5, <1>6, <1>7, <1>8, <1>9, <1>10, <1>11
     DEF Next, Step, SendLost, Kill

LEMMA StaysHarmless ==
  ASSUME Faults \subseteq Harmless PROVE Spec => [](IInv /\ NothingExcused)
<1>1. Init => NothingExcused
  BY DEF Init, NothingExcused
<1>2. IInv /\ NothingExcused /\ [Next]_vars => NothingExcused'
  BY NothingExcusedStep
<1>3. QED
  BY Invariant, <1>1, <1>2, PTL DEF Spec

\* README.md:31, where only faults the state file makes up for occur: one message
\* per boot at most.
THEOREM OncePerBootHolds == ASSUME Faults \subseteq Harmless PROVE Spec => []AtMostOnce
<1>1. IInv /\ NothingExcused => AtMostOnce
  BY DEF IInv, TypeOK, AccountType, OnceInv, DuplicateNeedsExcuse, NothingExcused, AtMostOnce
<1>2. QED
  BY StaysHarmless, <1>1, PTL

-----------------------------------------------------------------------------
(* Under every set of faults, each step keeps the promise of OncePerBoot.  *)

\* A run whose boot is no longer the newest was overtaken by this boot's marker,
\* so whatever is newer than its boot is about the current one.
NotStale(r) ==
  seen[r] # NoBoot =>
    /\ seen[r] # visible => visible = boot
    /\ \A q \in Runs : seen[q] > seen[r] => seen[q] = boot
    /\ \A c \in Boots : c > seen[r] /\ posted[c] > 0 => c = boot

StaleInv == \A r \in Runs : NotStale(r)

LEMMA StaleStep == IInv /\ StaleInv /\ [Next]_vars => StaleInv'
<1> SUFFICES ASSUME IInv, StaleInv, [Next]_vars, NEW r \in Runs PROVE NotStale(r)'
  BY DEF StaleInv
<1>0. /\ RunType /\ NotStale(r)
      /\ boot \in Nat /\ visible \in Nat /\ \A q \in Runs : seen[q] \in Nat
      /\ \A q \in Runs : seen[q] <= visible
      /\ \A c \in Boots : posted[c] \in Nat /\ (c > visible => posted[c] = 0)
  BY BoundAssumption
     DEF IInv, TypeOK, MachineType, RunType, AccountType, NothingAhead, StaleInv, Boots
<1>1. ASSUME UNCHANGED <<boot, visible, posted>>,
             \A q \in Runs : seen'[q] = seen[q] \/ seen'[q] = NoBoot
      PROVE  NotStale(r)'
  BY <1>0, <1>1 DEF NotStale, NoBoot
<1>2. ASSUME NEW rs \in SUBSET Runs, Exit(rs), UNCHANGED <<boot, visible, posted>>
      PROVE  NotStale(r)'
  BY <1>1, <1>2, ExitEffect
<1>3. CASE Reboot
  BY <1>3, ExitEffect DEF Reboot, NotStale
<1>4. CASE Commit
  BY <1>0, <1>4 DEF Commit, run, account, NotStale
<1>5. CASE Flush \/ Trigger \/ Rest \/ UNCHANGED vars
  BY <1>1, <1>5 DEF Flush, Trigger, Begin, Rest, vars, machine, run, account
<1>6. ASSUME NEW p \in Runs, StartByHand(p) PROVE NotStale(r)'
  BY <1>1, <1>6 DEF StartByHand, Begin, run
<1>7. ASSUME NEW p \in Runs, Decide(p) PROVE NotStale(r)'
  <2>1. PICK b \in Latest : Skip(p, b) \/ Exclude(p, b) \/ NoWebhook(p, b) \/ Notify(p, b)
    BY <1>7 DEF Decide
  <2>2. UNCHANGED <<boot, visible, posted>> /\ b = visible
    BY <1>7 DEF Decide, machine, Latest
  <2>3. CASE Exclude(p, b) \/ Notify(p, b)
    <3>1. \A q \in Runs : seen'[q] = IF q = p THEN visible ELSE seen[q]
      BY <1>0, <2>2, <2>3 DEF Exclude, Notify, RunType
    <3>2. CASE r = p
      BY <1>0, <2>2, <3>1, <3>2 DEF NotStale
    <3>3. CASE r # p
      BY <1>0, <2>2, <3>1, <3>3 DEF NotStale
    <3>4. QED
      BY <3>2, <3>3
  <2>4. QED
    BY <1>2, <2>1, <2>2, <2>3 DEF Skip, NoWebhook
<1>8. ASSUME NEW p \in Runs, Send(p) \/ SendLost(p) PROVE NotStale(r)'
  <2>1. UNCHANGED <<boot, visible, seen>> /\ posted' = [posted EXCEPT ![seen[p]] = @ + 1]
    BY <1>8 DEF Send, SendLost, Post, machine, run
  <2>2. \A c \in Boots : c # seen[p] => posted'[c] = posted[c]
    BY <2>1 DEF IInv, TypeOK, AccountType
  <2>3. QED
    BY <1>0, <2>1, <2>2 DEF NotStale
<1>9. ASSUME NEW p \in Runs, OpenTmp(p) \/ WriteTmp(p) PROVE NotStale(r)'
  BY <1>1, <1>9 DEF OpenTmp, WriteTmp, machine, account
<1>10. ASSUME NEW p \in Runs,
              DetectError(p) \/ SendFailed(p) \/ Rename(p) \/ SaveFailed(p) \/ Kill(p)
       PROVE  NotStale(r)'
  BY <1>2, <1>10 DEF DetectError, SendFailed, Rename, SaveFailed, Kill, machine
<1>11. QED
  BY <1>3, <1>4, <1>5, <1>6, <1>7, <1>8, <1>9, <1>10 DEF Next, Step

\* A message about a boot is sent only when every later boot, and this one, has
\* had none, or has its excuse.
LEMMA PostIsReport ==
  ASSUME IInv, StaleInv, NEW r \in Runs, pc[r] = "send", Post(r), UNCHANGED boot
  PROVE  seen[r] \in Promise!Boots /\ Promise!Report(seen[r])
<1>1. seen[r] \in Boots /\ seen[r] <= boot /\ boot \in Nat /\ visible \in Nat
  BY DEF IInv, PhaseInv, PhaseOK, NothingAhead, TypeOK, MachineType, RunType, Boots
<1>2. posted[seen[r]] = 0 \/ seen[r] \in excused
  BY DEF IInv, OnceInv, NotYetSent
<1>3. ASSUME NEW c \in Boots, c > seen[r] PROVE posted[c] = 0 \/ c \in excused
  <2>1. posted[c] \in Nat
    BY BoundAssumption DEF IInv, TypeOK, AccountType
  <2>2. CASE Muddled
    BY <1>1, <1>3, <2>1, <2>2 DEF StaleInv, NotStale, Muddled, Boots, NoBoot
  <2>3. CASE HasFiles(r)
    BY <1>1, <1>3, <2>3 DEF HasFiles, Boots, NoBoot
  <2>4. QED
    BY <2>2, <2>3 DEF IInv, AloneInv
<1>4. \A c \in Boots : c >= seen[r] => posted[c] = 0 \/ c \in excused
  BY <1>1, <1>2, <1>3 DEF Boots
<1>5. QED
  BY <1>1, <1>4 DEF Post, Promise!Report, Promise!Boots, Boots

\* Every step of the notifier is a step of OncePerBoot or changes nothing it sees.
LEMMA StepSimulation ==
  ASSUME IInv, StaleInv, [Next]_vars PROVE [Promise!Next]_(Promise!vars)
<1> USE DEF Promise!Next, Promise!vars
<1>1. excused \subseteq excused'
  BY ExcusedGrows
<1>2. CASE UNCHANGED <<boot, posted>>
  BY <1>1, <1>2
<1>3. CASE Reboot
  BY <1>1, <1>3 DEF Reboot, Promise!Boot
<1>4. ASSUME NEW r \in Runs, Send(r) \/ SendLost(r) PROVE Promise!Next
  <2>1. pc[r] = "send" /\ Post(r) /\ UNCHANGED boot
    BY <1>4 DEF Send, SendLost, Post, machine
  <2>2. QED
    BY <1>1, <2>1, PostIsReport
<1>5. QED
  BY <1>2, <1>3, <1>4
     DEF Next, Step, vars, machine, account, Commit, Flush, Trigger, StartByHand, Begin, Rest,
         Decide, DetectError, SendFailed, OpenTmp, WriteTmp, Rename, SaveFailed, Kill

\* The detailed notifier implements OncePerBoot, whatever fails: a boot is reported
\* after it happened, once, and never after a later one, unless it has its excuse.
THEOREM Refinement == Spec => KeepsPromise
<1>1. Init => Promise!Init /\ StaleInv
  BY DEF Init, Promise!Init, Boots, Promise!Boots, StaleInv, NotStale
<1>2. IInv /\ StaleInv /\ [Next]_vars => StaleInv'
  BY StaleStep
<1>3. IInv /\ StaleInv /\ [Next]_vars => [Promise!Next]_(Promise!vars)
  BY StepSimulation
<1>4. QED
  BY Invariant, <1>1, <1>2, <1>3, PTL DEF Spec, KeepsPromise, Promise!Spec

-----------------------------------------------------------------------------
(* While a boot's marker is in the log before its runs begin, every run is  *)
(* about the current boot.                                                  *)

Current ==
  /\ visible = boot
  /\ \A r \in Runs : seen[r] # NoBoot => seen[r] = boot
  /\ \A line \in log : line.outcome \notin NoResult => line.about = line.in

LEMMA CurrentStep ==
  ASSUME "late" \notin Faults, IInv, Current, [Next]_vars PROVE Current'
<1>0. RunType /\ visible = boot /\ ~Faulty("late")
  BY DEF IInv, TypeOK, Current, Faulty
<1> DEFINE OfBoot(lines) == \A line \in lines : line.outcome \notin NoResult => line.about = line.in
<1>1. ASSUME UNCHANGED <<boot, visible>>, \A q \in Runs : seen'[q] \in {seen[q], NoBoot, boot},
             OfBoot(log')
      PROVE  Current'
  BY <1>0, <1>1 DEF Current
<1>2. ASSUME NEW r \in Runs, NEW b, NEW outcome, Logs(r, b, outcome),
             outcome \in NoResult \/ b = boot
      PROVE  OfBoot(log')
  BY <1>2 DEF Current, Logs, Line
<1>3. OfBoot(log)
  BY DEF Current
<1> HIDE DEF OfBoot
<1>4. CASE Reboot
  <2>1. boot' = boot + 1 /\ visible' = boot + 1 /\ log' = log /\ \A q \in Runs : seen'[q] = NoBoot
    BY <1>0, <1>4, ExitEffect DEF Reboot
  <2> QED
    BY <1>3, <2>1 DEF Current, OfBoot
<1>5. CASE Commit
  BY <1>0, <1>5 DEF Commit, IInv, TypeOK, MachineType, Boots
<1>6. CASE Flush \/ Rest \/ UNCHANGED vars
  BY <1>1, <1>3, <1>6 DEF Flush, Rest, vars, machine, run, account
<1>7. ASSUME NEW r \in Runs, NEW f \in BOOLEAN, Begin(r, f) PROVE Current'
  <2>1. UNCHANGED <<boot, visible, seen>>
    BY <1>7 DEF Begin, run
  <2>2. OfBoot(log')
    BY <1>2, <1>3, <1>7 DEF Begin, NoResult
  <2> QED
    BY <1>1, <2>1, <2>2
<1>8. CASE Trigger
  BY <1>1, <1>3, <1>7, <1>8, SetupAssumption DEF Trigger, run, account
<1>9. ASSUME NEW r \in Runs, StartByHand(r) PROVE Current'
  BY <1>7, <1>9 DEF StartByHand
<1>10. ASSUME NEW r \in Runs, Decide(r) PROVE Current'
  <2>1. PICK b \in Latest : Skip(r, b) \/ Exclude(r, b) \/ NoWebhook(r, b) \/ Notify(r, b)
    BY <1>10 DEF Decide
  <2>2. UNCHANGED <<boot, visible>> /\ b = boot
    BY <1>0, <1>10 DEF Decide, machine, Latest
  <2>3. CASE Exclude(r, b) \/ Notify(r, b)
    <3>1. log' = log /\ seen' = [seen EXCEPT ![r] = b]
      BY <2>3 DEF Exclude, Notify
    <3>2. \A q \in Runs : seen'[q] \in {seen[q], boot}
      BY <1>0, <2>2, <3>1 DEF RunType
    <3> QED
      BY <1>1, <1>3, <2>2, <3>1, <3>2
  <2>4. CASE Skip(r, b) \/ NoWebhook(r, b)
    <3>1. \A q \in Runs : seen'[q] \in {seen[q], NoBoot}
      BY <2>4, ExitEffect DEF Skip, NoWebhook
    <3>2. OfBoot(log')
      BY <1>2, <2>2, <2>4 DEF Skip, NoWebhook
    <3> QED
      BY <1>1, <2>2, <3>1, <3>2
  <2> QED
    BY <2>1, <2>3, <2>4
<1>11. ASSUME NEW r \in Runs, Send(r) \/ SendLost(r) \/ OpenTmp(r) \/ WriteTmp(r) PROVE Current'
  BY <1>1, <1>3, <1>11 DEF Send, SendLost, OpenTmp, WriteTmp, machine, run, account
<1>12. ASSUME NEW r \in Runs,
              DetectError(r) \/ SendFailed(r) \/ Rename(r) \/ SaveFailed(r) \/ Kill(r)
       PROVE  Current'
  <2>1. UNCHANGED <<boot, visible>> /\ \A q \in Runs : seen'[q] \in {seen[q], NoBoot}
    BY <1>12, ExitEffect DEF DetectError, SendFailed, Rename, SaveFailed, Kill, machine
  <2>2. pc[r] \in {"send"} \cup Recording => seen[r] = boot
    BY DEF IInv, PhaseInv, PhaseOK, Current, Boots, NoBoot
  <2>3. OfBoot(log')
    BY <1>2, <1>3, <1>12, <2>2
       DEF DetectError, SendFailed, Rename, SaveFailed, Kill, NoResult, Recording
  <2> QED
    BY <1>1, <2>1, <2>3
<1> QED
  BY <1>4, <1>5, <1>6, <1>8, <1>9, <1>10, <1>11, <1>12 DEF Next, Step

LEMMA StaysCurrent == ASSUME "late" \notin Faults PROVE Spec => [](IInv /\ Current)
<1>1. Init => Current
  BY DEF Init, Current, Faulty
<1>2. IInv /\ Current /\ [Next]_vars => Current'
  BY CurrentStep
<1> QED
  BY Invariant, <1>1, <1>2, PTL DEF Spec

\* A task run that neither failed nor was killed means this boot was reported or is
\* excluded, in every instance in which the marker is there in time: the late marker
\* of run BootNotifyLateMarker is the only way around it.
THEOREM QuietMeansReported ==
  ASSUME "late" \notin Faults PROVE Spec => []QuietRunMeansSettled
<1>1. ASSUME IInv, Current PROVE QuietRunMeansSettled
  <2> SUFFICES ASSUME NEW line \in log,
                      line.outcome \notin {"config-error", "detect-error", "no-webhook", "send-failed"}
               PROVE  Settled(line.in)
    BY DEF QuietRunMeansSettled
  <2>1. line.about = line.in
    BY <1>1 DEF Current, NoResult
  <2>2. line.outcome \in {"sent", "sent-state-write-failed", "skipped-already-notified",
                          "skipped-not-in-notify_on"}
    BY <1>1 DEF IInv, TypeOK, AccountType, Lines, Outcomes
  <2> QED
    BY <1>1, <2>1, <2>2 DEF IInv, LogInv, Truthful, Settled
<1> QED
  BY StaysCurrent, <1>1, PTL

\* A boot is told by its own runs or not at all, in every instance in which the marker
\* is there in time: no later boot makes up for a message or a record that was lost.
THEOREM OnlyItsOwnRunsTell ==
  ASSUME "late" \notin Faults PROVE Spec => OnlyThisBootIsTold
<1>1. ASSUME IInv, Current, [Next]_vars, NEW b \in Boots, posted'[b] > posted[b]
      PROVE  b = boot
  <2>1. posted[b] \in Nat
    BY <1>1, BoundAssumption DEF IInv, TypeOK, AccountType
  <2>2. ASSUME NEW r \in Runs, Send(r) \/ SendLost(r) PROVE b = boot
    <3>1. pc[r] = "send" /\ posted' = [posted EXCEPT ![seen[r]] = @ + 1]
      BY <2>2 DEF Send, SendLost, Post
    <3>2. seen[r] = boot
      BY <1>1, <3>1, BoundAssumption DEF IInv, PhaseInv, PhaseOK, Current, Boots, NoBoot
    <3> QED
      BY <1>1, <2>1, <3>1, <3>2 DEF IInv, TypeOK, AccountType
  <2>3. CASE UNCHANGED posted
    BY <1>1, <2>1, <2>3
  <2> QED
    BY <1>1, <2>2, <2>3
       DEF Next, Step, vars, account, Reboot, Commit, Flush, Trigger, StartByHand, Begin, Rest,
           Decide, DetectError, SendFailed, OpenTmp, WriteTmp, Rename, SaveFailed, Kill
<1>2. ASSUME IInv, Current, [Next]_vars
      PROVE  [\A b \in Boots : posted'[b] > posted[b] => b = boot]_vars
  BY <1>1, <1>2
<1> QED
  BY StaysCurrent, <1>2, PTL DEF Spec, OnlyThisBootIsTold

-----------------------------------------------------------------------------
(* The record of a machine that stays up moves forward, unless a late marker and   *)
(* overlapping runs come together.                                          *)

\* The record is taken back by nothing but a reboot.
GoesForward == stateFile' # NoBoot /\ stateFile' < stateFile => boot' # boot

\* A step that leaves the record alone, and a reboot, are always in order.
LEMMA OnlyRename ==
  ASSUME TypeOK, [Next]_vars, \A r \in Runs : ~Rename(r) PROVE GoesForward
<1>1. stateFile \in Nat /\ boot \in Nat
  BY BoundAssumption DEF TypeOK, FileType, MachineType, Boots
<1>2. CASE UNCHANGED stateFile
  BY <1>1, <1>2 DEF GoesForward
<1>3. CASE Reboot
  BY <1>1, <1>3 DEF Reboot, GoesForward
<1> QED
  BY <1>2, <1>3
     DEF Next, Step, vars, file, Commit, Flush, Trigger, StartByHand, Begin, Rest, Decide,
         DetectError, Send, SendLost, SendFailed, OpenTmp, WriteTmp, SaveFailed, Kill

\* Runs that are all about the same boot: what the temporary file holds from the moment
\* one of them has truncated it is theirs, and not left over from an earlier boot.
Fresh ==
  \A r \in Runs : pc[r] \in {"write", "rename"} => tmpFile.names \in {NoBoot, boot}

LEMMA FreshStep ==
  ASSUME IInv, Current, Fresh, [Next]_vars PROVE Fresh'
<1>0. RunType
  BY DEF IInv, TypeOK
<1>1. ASSUME UNCHANGED <<boot, tmpFile>>,
             \A q \in Runs : pc'[q] \in {"write", "rename"} => pc[q] \in {"write", "rename"}
      PROVE  Fresh'
  BY <1>1 DEF Fresh
<1>2. ASSUME UNCHANGED boot, tmpFile'.names \in {NoBoot, boot} PROVE Fresh'
  BY <1>2 DEF Fresh
<1>3. CASE Reboot
  BY <1>3, ExitEffect DEF Reboot, Fresh
<1>4. ASSUME NEW r \in Runs, OpenTmp(r) \/ WriteTmp(r) PROVE Fresh'
  <2>1. seen[r] = boot
    BY <1>4 DEF OpenTmp, WriteTmp, Current, IInv, PhaseInv, PhaseOK, Recording, Boots, NoBoot
  <2> QED
    BY <1>2, <1>4, <2>1 DEF OpenTmp, WriteTmp, machine
<1>5. ASSUME NEW r \in Runs, Rename(r) PROVE Fresh'
  BY <1>2, <1>5 DEF Rename, machine
<1>6. ASSUME NEW r \in Runs, NEW f \in BOOLEAN, Begin(r, f) PROVE Fresh'
  BY <1>0, <1>1, <1>6, GotoEffect DEF Begin, run, file
<1>7. CASE Trigger
  BY <1>1, <1>6, <1>7, SetupAssumption DEF Trigger, run, file
<1>8. ASSUME NEW r \in Runs, StartByHand(r) PROVE Fresh'
  BY <1>6, <1>8 DEF StartByHand
<1>9. ASSUME NEW r \in Runs, Decide(r) PROVE Fresh'
  <2>1. PICK b \in Latest : Skip(r, b) \/ Exclude(r, b) \/ NoWebhook(r, b) \/ Notify(r, b)
    BY <1>9 DEF Decide
  <2>2. UNCHANGED <<boot, tmpFile>>
    BY <1>9 DEF Decide, machine, file
  <2> QED
    BY <1>0, <1>1, <2>1, <2>2, ExitEffect, GotoEffect DEF Skip, Exclude, NoWebhook, Notify
<1>10. ASSUME NEW r \in Runs, Send(r) PROVE Fresh'
  BY <1>0, <1>1, <1>10, GotoEffect DEF Send, machine, file
<1>11. ASSUME NEW r \in Runs, DetectError(r) \/ SendFailed(r) \/ SaveFailed(r) \/ Kill(r)
       PROVE  Fresh'
  BY <1>1, <1>11, ExitEffect DEF DetectError, SendFailed, SaveFailed, Kill, machine, file
<1>12. ASSUME NEW r \in Runs, SendLost(r) PROVE Fresh'
  BY <1>1, <1>12 DEF SendLost, machine, file, run
<1>13. CASE Commit \/ Flush \/ Rest \/ UNCHANGED vars
  BY <1>1, <1>13 DEF Commit, Flush, Rest, vars, machine, file, run
<1> QED
  BY <1>3, <1>4, <1>5, <1>7, <1>8, <1>9, <1>10, <1>11, <1>12, <1>13 DEF Next, Step

LEMMA ForwardWithMarkers == ASSUME "late" \notin Faults PROVE Spec => [][GoesForward]_vars
<1>1. Init => Fresh
  BY DEF Init, Fresh
<1>2. IInv /\ Current /\ Fresh /\ [Next]_vars => Fresh'
  BY FreshStep
<1>3. ASSUME IInv, Current, Fresh, [Next]_vars PROVE GoesForward
  <2>1. ASSUME NEW r \in Runs, Rename(r) PROVE GoesForward
    <3>1. stateFile' \in {NoBoot, boot} /\ stateFile <= boot /\ boot \in Nat /\ stateFile \in Nat
      BY <1>3, <2>1, BoundAssumption
         DEF Rename, Fresh, Current, IInv, NothingAhead, TypeOK, MachineType, FileType, Boots
    <3> QED
      BY <3>1 DEF GoesForward, NoBoot
  <2> QED
    BY <1>3, <2>1, OnlyRename DEF IInv
<1> QED
  BY StaysCurrent, <1>1, <1>2, <1>3, PTL DEF Spec

\* A run that is about a boot has the files to itself and is not behind the record.
Forward(r) ==
  /\ pc[r] = "write" => tmpFile.names = NoBoot
  /\ pc[r] = "rename" => tmpFile.names = seen[r]
  /\ seen[r] # NoBoot => stateFile <= seen[r]

Solo ==
  /\ \A r, q \in Runs : r # q => Idle(r) \/ Idle(q)
  /\ \A r \in Runs : Forward(r)

LEMMA SoloStep ==
  ASSUME "overlap" \notin Faults, IInv, Solo, [Next]_vars PROVE Solo'
<1>0. /\ RunType /\ ~Faulty("overlap") /\ stateFile <= visible
      /\ \A r \in Runs : pc[r] = "idle" => seen[r] = NoBoot
  BY DEF IInv, TypeOK, Faulty, NothingAhead, PhaseInv, PhaseOK
<1>1. ASSUME NEW rs \in SUBSET Runs, Exit(rs), UNCHANGED <<tmpFile, stateFile>>
      PROVE  Solo'
  BY <1>1, ExitEffect DEF Solo, Forward, Idle
<1>2. ASSUME Exit(Runs) PROVE Solo'
  BY <1>2, ExitEffect DEF Solo, Forward, Idle
<1>3. ASSUME UNCHANGED <<pc, seen, tmpFile, stateFile>> PROVE Solo'
  BY <1>3 DEF Solo, Forward, Idle
<1>4. ASSUME NEW r \in Runs, NEW f \in BOOLEAN, Begin(r, f), Idle(r) PROVE Solo'
  <2>1. CASE Goto(r, "collect") /\ UNCHANGED seen
    <3>1. \A q \in Runs : Idle(q)
      BY <1>0, <1>4 DEF Begin, Active
    <3>2. \A q \in Runs : pc'[q] = IF q = r THEN "collect" ELSE pc[q]
      BY <1>0, <2>1, GotoEffect
    <3>3. \A q \in Runs : q # r => pc'[q] = "idle"
      BY <3>1, <3>2 DEF Idle
    <3>4. \A q \in Runs : seen'[q] = NoBoot /\ pc'[q] \notin {"write", "rename"}
      BY <1>0, <2>1, <3>1, <3>2 DEF Idle
    <3> QED
      BY <3>3, <3>4 DEF Solo, Forward, Idle
  <2> QED
    BY <1>3, <1>4, <2>1 DEF Begin, run, file
<1>5. CASE Trigger
  BY <1>3, <1>4, <1>5, SetupAssumption DEF Trigger, run, file
<1>6. ASSUME NEW r \in Runs, StartByHand(r) PROVE Solo'
  BY <1>4, <1>6 DEF StartByHand
<1>7. ASSUME NEW r \in Runs, ~Idle(r), NEW label \in {"send"} \cup Recording, Goto(r, label),
             seen'[r] \in {seen[r], visible}, \A q \in Runs : q # r => seen'[q] = seen[q],
             UNCHANGED stateFile,
             label = "write" => tmpFile'.names = NoBoot,
             label = "rename" => tmpFile'.names = seen'[r]
      PROVE  Solo'
  <2>1. \A q \in Runs : pc'[q] = IF q = r THEN label ELSE pc[q]
    BY <1>0, <1>7, GotoEffect
  <2>2. \A q \in Runs : q # r => pc[q] = "idle" /\ pc'[q] = "idle" /\ seen'[q] = NoBoot
    BY <1>0, <1>7, <2>1 DEF Solo, Idle
  <2>3. Forward(r)'
    BY <1>0, <1>7, <2>1 DEF Solo, Forward
  <2> QED
    BY <2>2, <2>3 DEF Solo, Forward, Idle
<1>8. ASSUME NEW r \in Runs, Decide(r) PROVE Solo'
  <2>1. PICK b \in Latest : Skip(r, b) \/ Exclude(r, b) \/ NoWebhook(r, b) \/ Notify(r, b)
    BY <1>8 DEF Decide
  <2>2. b = visible /\ ~Idle(r) /\ UNCHANGED <<tmpFile, stateFile>>
    BY <1>8 DEF Decide, Latest, Idle, file
  <2>3. CASE Exclude(r, b) \/ Notify(r, b)
    <3>1. seen' = [seen EXCEPT ![r] = b] /\ (Goto(r, "open") \/ Goto(r, "send"))
      BY <2>3 DEF Exclude, Notify
    <3>2. seen'[r] = visible /\ \A q \in Runs : q # r => seen'[q] = seen[q]
      BY <1>0, <2>2, <3>1 DEF RunType
    <3> QED
      BY <1>7, <2>2, <3>1, <3>2 DEF Recording
  <2> QED
    BY <1>1, <2>1, <2>2, <2>3 DEF Skip, NoWebhook
<1>9. ASSUME NEW r \in Runs, Send(r) PROVE Solo'
  BY <1>7, <1>9 DEF Send, Post, Idle, Recording, file
<1>10. ASSUME NEW r \in Runs, OpenTmp(r) PROVE Solo'
  BY <1>7, <1>10 DEF OpenTmp, Idle, Recording
<1>11. ASSUME NEW r \in Runs, WriteTmp(r) PROVE Solo'
  <2>1. tmpFile'.names = seen[r] /\ UNCHANGED <<seen, stateFile>> /\ Goto(r, "rename") /\ ~Idle(r)
    BY <1>11 DEF WriteTmp, Solo, Forward, Idle
  <2> QED
    BY <1>7, <2>1 DEF Recording
<1>12. ASSUME NEW r \in Runs, Rename(r) PROVE Solo'
  <2>1. \A q \in Runs : q # r => pc[q] = "idle"
    BY <1>12 DEF Rename, Solo, Idle
  <2>2. \A q \in Runs : pc'[q] = "idle" /\ seen'[q] = NoBoot
    BY <1>0, <1>12, <2>1, ExitEffect DEF Rename
  <2> QED
    BY <2>2 DEF Solo, Forward, Idle
<1>13. CASE Reboot
  BY <1>2, <1>13 DEF Reboot
<1>14. CASE Commit \/ Flush \/ Rest \/ UNCHANGED vars
  BY <1>3, <1>14 DEF Commit, Flush, Rest, vars, run, file
<1>15. ASSUME NEW r \in Runs,
              DetectError(r) \/ SendLost(r) \/ SendFailed(r) \/ SaveFailed(r) \/ Kill(r)
       PROVE  Solo'
  BY <1>1, <1>3, <1>15 DEF DetectError, SendLost, SendFailed, SaveFailed, Kill, run, file
<1> QED
  BY <1>5, <1>6, <1>8, <1>9, <1>10, <1>11, <1>12, <1>13, <1>14, <1>15 DEF Next, Step

LEMMA ForwardAlone == ASSUME "overlap" \notin Faults PROVE Spec => [][GoesForward]_vars
<1>1. Init => Solo
  BY DEF Init, Solo, Forward, Idle
<1>2. IInv /\ Solo /\ [Next]_vars => Solo'
  BY SoloStep
<1>3. ASSUME IInv, Solo, [Next]_vars PROVE GoesForward
  <2>1. ASSUME NEW r \in Runs, Rename(r) PROVE GoesForward
    <3>1. stateFile' = seen[r] /\ seen[r] # NoBoot /\ seen[r] \in Nat /\ stateFile \in Nat
      BY <1>3, <2>1
         DEF Rename, Solo, Forward, IInv, PhaseInv, PhaseOK, TypeOK, FileType, Recording,
             Boots, NoBoot
    <3> QED
      BY <1>3, <3>1 DEF Solo, Forward, GoesForward
  <2> QED
    BY <1>3, <2>1, OnlyRename DEF IInv
<1> QED
  BY Invariant, <1>1, <1>2, <1>3, PTL DEF Spec

\* The record is taken back to an earlier boot by a power loss and by nothing else,
\* whatever a run has read long ago and whosever temporary file it renames, unless runs
\* overlap about a marker that was late: then one may be about an older boot.
THEOREM RecordNeverGoesBack ==
  ASSUME "late" \notin Faults \/ "overlap" \notin Faults PROVE Spec => RecordMovesForward
<1>1. Spec => [][GoesForward]_vars
  BY ForwardWithMarkers, ForwardAlone
<1> QED
  BY <1>1 DEF RecordMovesForward, GoesForward
=============================================================================
