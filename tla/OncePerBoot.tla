----------------------------- MODULE OncePerBoot -----------------------------
(***************************************************************************)
(* What the boot-time notifier promises: every boot is reported only after *)
(* it has happened, at most once, and never after a later boot has been    *)
(* reported, save for boots that something went wrong with.                *)
(***************************************************************************)
EXTENDS Naturals

CONSTANT MaxBoots    \* bound: how often the machine boots

VARIABLES
  boot,      \* the current boot, counted from 1
  posted,    \* how many messages about each boot the channel has received
  excused    \* the boots something went wrong with

vars == <<boot, posted, excused>>

Boots == 1 .. MaxBoots

Init ==
  /\ boot = 1
  /\ posted = [b \in Boots |-> 0]
  /\ excused = {}

Boot ==
  /\ boot < MaxBoots
  /\ boot' = boot + 1
  /\ UNCHANGED posted

Report(b) ==
  /\ b <= boot
  /\ \A c \in Boots : c >= b => posted[c] = 0 \/ c \in excused
  /\ posted' = [posted EXCEPT ![b] = @ + 1]
  /\ UNCHANGED boot

Next ==
  /\ excused \subseteq excused'
  /\ Boot \/ (\E b \in Boots : Report(b)) \/ UNCHANGED <<boot, posted>>

Spec == Init /\ [][Next]_vars
=============================================================================
