---------------------------- MODULE MCBootNotify ----------------------------
(* The sets of faults the instances of BootNotify allow.                     *)
EXTENDS BootNotify

MCAllFaults == AllFaults

\* Nothing that ends a run early or keeps it from finding the boot.
MCLiveFaults == {"overlap", "force", "exclude", "interrupt", "power", "disk"}

MCLate == {"late"}
=============================================================================
