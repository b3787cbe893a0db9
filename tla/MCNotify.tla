------------------------------ MODULE MCNotify ------------------------------
(* The numbers of the boot-time call: 12 attempts, 15 s base wait, 20 s per  *)
(* exchange, a 20 s ceiling on a server's delay.  An exchange takes no time  *)
(* or its whole timeout; every class of status and of delay is present.      *)
EXTENDS Notify

MCDurations == {0, SendTimeout}
MCStatuses == {204, 301, 404, 429, 503}
MCDelays == {Absent, NaN, -1, 16, 3600}
=============================================================================
