----------------------------- MODULE MCSessions -----------------------------
(* Half-minutes: nearBoot reaches 2 minutes back and 15 minutes on, and the  *)
(* service takes a request for the one under way for 5 minutes.              *)
EXTENDS Sessions

Asked(kind, process, user, type, flags) ==
  [kind |-> kind, process |-> process, user |-> user, type |-> type,
   code |-> [readable |-> TRUE, flags |-> flags]]

\* A planned power-off by SYSTEM, which the update heuristic alone would take for
\* an update; a restart by servicing; a planned restart by a person.
MCRequests ==
  {Asked("shutdown", "other", "system", "power off", {"planned"}),
   Asked("update", "servicing", "system", "restart", {}),
   Asked("manual", "other", "person", "restart", {"planned"})}

\* A restart by a person only.
MCManual == {r \in MCRequests : r.kind = "manual"}

MCDowntimes == {1}
MCLongDowntimes == {1, 24}
MCUptimes == {1}
MCClosings == {1, 12}
MCQuickClosings == {1}
MCLags == {0, 2}
MCNoSteps == {}
MCSteps == {-20, 20}
MCStopRecords == {<<13, 6006>>, <<6006>>}

\* The instance without clock steps has the pace that the proofs about Latest assume.
ASSUME SteadyAssumption == Steps = {} => Separate /\ Punctual
=============================================================================
