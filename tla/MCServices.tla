----------------------------- MODULE MCServices -----------------------------
(* The canonical name, one of an older version and one of somebody else whose *)
(* name begins alike, each with what can be registered under it.              *)
EXTENDS Services

MCNames == {"svc", "old", "alike"}
MCPrefixed == {"svc", "old"}
MCLookalikes == {"alike"}

Running(image, line) ==
  [state |-> "running", marked |-> FALSE, held |-> FALSE, image |-> image, line |-> line,
   guarded |-> FALSE]

Both == {"executable", "service"}
Usual == Running("ours", Both)

\* What an earlier command has deleted, kept by its process or by a handle.
Deleted == [Usual EXCEPT !.marked = TRUE]
Kept == [Deleted EXCEPT !.state = "stopped", !.held = TRUE]

\* Ours or another's, whatever its command line mentions; ours by another executable
\* name, or guarded.
MCLeft ==
  [svc |-> {Usual, [Usual EXCEPT !.state = "stopped"], Deleted, Kept},
   old |-> {Running("ours", {"service"}), Kept},
   alike |-> {Running("other", line) : line \in SUBSET Both}
               \cup {Usual, Deleted, Running("ours", {"service"}), [Usual EXCEPT !.guarded = TRUE]}]
=============================================================================
