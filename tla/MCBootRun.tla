----------------------------- MODULE MCBootRun ------------------------------
(* The numbers of the scheduled task: 6 queries 5 s apart, 12 attempts of    *)
(* 20 s at most 20 s apart, 600 s in all; a query is instant or takes 19 s,  *)
(* which is all the slack there is.                                          *)
EXTENDS BootRun

MCQueryTimes == {0, SlowestQuery}
=============================================================================
