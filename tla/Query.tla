------------------------------- MODULE Query --------------------------------
(***************************************************************************)
(* winevent.Query: one XPath query of the System log, read newest-first in *)
(* batches until Limit records are there or the result is at its end.  An  *)
(* entry that cannot be rendered or parsed is passed over.  An error is    *)
(* returned only when it left nothing at all.                              *)
(***************************************************************************)
EXTENDS Integers, Sequences

CONSTANTS
  Limit,   \* how many records the caller wants
  Batch    \* how many handles one EvtNext asks for at most

ASSUME QueryAssumption == Limit \in Nat \ {0} /\ Batch \in Nat \ {0}

VARIABLES
  entries,    \* how many entries of the log match; 1 is the newest
  damaged,    \* those that cannot be rendered or parsed
  qpc,        \* where Query is: "open", "next", "render" or "done"
  handles,    \* how many handles of the batch are still to be rendered
  pos,        \* how many entries have been rendered
  read,       \* the entries whose records are in the result
  firstErr,   \* whether an error was met
  cut         \* history: whether EvtQuery or EvtNext failed

progress == <<qpc, handles, pos, read, firstErr, cut>>
queryVars == <<entries, damaged, progress>>

QueryInit ==
  /\ qpc = "open" /\ handles = 0 /\ pos = 0 /\ read = <<>>
  /\ firstErr = FALSE /\ cut = FALSE

\* What Query returns once it is done.
QueryFailed == read = <<>> /\ firstErr

-----------------------------------------------------------------------------
Open ==
  /\ qpc = "open"
  /\ qpc' = "next"
  /\ UNCHANGED <<entries, damaged, handles, pos, read, firstErr, cut>>

\* EvtQuery fails, or EvtNext does for another reason than the end of the result.
CallFails ==
  /\ qpc \in {"open", "next"}
  /\ qpc' = "done"
  /\ firstErr' = TRUE /\ cut' = TRUE
  /\ UNCHANGED <<entries, damaged, handles, pos, read>>

\* Mutant: a whole batch is requested, however few records are still wanted.
RequestedWhole == Batch

\* Never more handles than records that are still wanted.
Requested == IF Limit - Len(read) < Batch THEN Limit - Len(read) ELSE Batch

\* EvtNext hands out some of the handles it was asked for.
NextBatch ==
  /\ qpc = "next"
  /\ \E n \in 1 .. Requested : n <= entries - pos /\ handles' = n
  /\ qpc' = "render"
  /\ UNCHANGED <<entries, damaged, pos, read, firstErr, cut>>

\* ERROR_NO_MORE_ITEMS: the end of the result, and no error.
NoMore ==
  /\ qpc = "next" /\ pos = entries
  /\ qpc' = "done"
  /\ UNCHANGED <<entries, damaged, handles, pos, read, firstErr, cut>>

\* Mutant: a damaged entry is passed over without a trace.
KeptErrorNone == firstErr

\* firstErr after entry pos + 1.
KeptError == firstErr \/ pos + 1 \in damaged

\* Mutant: a damaged entry ends the query.
AfterRenderStrict(result) ==
  IF pos + 1 \in damaged THEN "done"
  ELSE IF handles > 1 THEN "render" ELSE IF Len(result) < Limit THEN "next" ELSE "done"

\* Where the two loops go on after an entry.
AfterRender(result) ==
  IF handles > 1 THEN "render" ELSE IF Len(result) < Limit THEN "next" ELSE "done"

\* renderXML and parseRecord of the next handle.
Render ==
  /\ qpc = "render"
  /\ read' = IF pos + 1 \in damaged THEN read ELSE Append(read, pos + 1)
  /\ firstErr' = KeptError
  /\ pos' = pos + 1 /\ handles' = handles - 1
  /\ qpc' = AfterRender(read')
  /\ UNCHANGED <<entries, damaged, cut>>

QueryNext == Open \/ CallFails \/ NextBatch \/ NoMore \/ Render

-----------------------------------------------------------------------------
QueryTypeOK ==
  /\ entries \in Nat /\ damaged \subseteq 1 .. entries
  /\ qpc \in {"open", "next", "render", "done"}
  /\ handles \in Nat /\ pos \in 0 .. entries
  /\ read \in Seq(1 .. entries)
  /\ firstErr \in BOOLEAN /\ cut \in BOOLEAN

\* winevent.go:63-64 -- the result cannot overshoot, and it is the newest readable
\* entries in their order: what is missing from it is older than all of it.
ReadIsNewest ==
  /\ Len(read) <= Limit
  /\ \A j, k \in DOMAIN read : j < k => read[j] < read[k]
  /\ {read[k] : k \in DOMAIN read} = (1 .. pos) \ damaged

\* winevent.go:104-105 -- an empty result without an error means that nothing in
\* the log matches.
EmptyIsTrue == (qpc = "done" /\ read = <<>> /\ ~QueryFailed) => entries = 0
=============================================================================
