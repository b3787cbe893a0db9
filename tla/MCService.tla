----------------------------- MODULE MCService ------------------------------
(* A limit of 3 records in batches of 2 against logs of up to 5 entries (the *)
(* code: 50 in batches of 16).  Two attempts of 8 s, 1.5 s between them, and *)
(* a WaitHint of 25 s leave 7.5 s for the configuration and the query.       *)
EXTENDS Service

Entry(event, at) == [event |-> event, own |-> TRUE, at |-> at, data |-> [type |-> "none"]]
Asked(at) == Entry(1074, at)
Boot(at) == Entry(12, at)
Other(at) == Entry(13, at)

\* The request under way on top, below other entries, beyond the limit; of an
\* earlier session; too old; none at all.
MCLogs ==
  {<<>>,
   <<Asked(20), Boot(10)>>,
   <<Other(20), Asked(19), Boot(18), Asked(17)>>,
   <<Other(20), Other(20), Other(20), Asked(19), Boot(10)>>,
   <<Boot(20), Asked(19), Boot(18)>>,
   <<Asked(5), Boot(1)>>}

MCTimes == {0, 15}
MCSendTimes == {0, SendTimeout}
MCStatuses == {204, 301, 404, 429, 503}
=============================================================================
