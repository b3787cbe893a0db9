------------------------------- MODULE Config -------------------------------
(***************************************************************************)
(* internal/config: which file a process takes its configuration from, and *)
(* what it makes of it.  Load looks at the disk twice, with a stat when it *)
(* resolves the path and with a read, so it comes in two operators: the    *)
(* disk can change in between.                                             *)
(*                                                                         *)
(* A file is [kind, url, start].  Its kind:                                *)
(*   "absent"   nothing is there                                           *)
(*   "odd"      something that is no regular file                          *)
(*   "barred"   a stat is refused                                          *)
(*   "private"  a configuration that SYSTEM is refused                     *)
(*   "locked"   a stat says regular file and a read is refused             *)
(*   "broken"   it does not decode                                         *)
(*   "config"   it decodes, to the webhook URL url and the gate start      *)
(***************************************************************************)
EXTENDS Integers, Sequences, FiniteSetsExt

\* No webhook URL: an empty or blank value, or none at all.
NoURL == [set |-> FALSE, parses |-> TRUE, scheme |-> "none", host |-> "none", sample |-> FALSE]

\* The path when there is none, and the value of an unset path variable.
None == "none"

\* The places probed when nobody names a file, highest priority first.
SearchPaths == <<"beside", "programdata">>

\* Default: no URL, and the shutdown notice is on.
Default == [ok |-> TRUE, used |-> None, url |-> NoURL, start |-> TRUE]

Failure(used) == [ok |-> FALSE, used |-> used, url |-> NoURL, start |-> FALSE]

\* Where a path leads a process: a relative one depends on its working directory.
Place(path, who) ==
  IF path = "relative" THEN (IF who = "operator" THEN "named" ELSE "elsewhere") ELSE path

\* What a process finds there.
Kind(files, path, who) ==
  LET kind == files[Place(path, who)].kind
  IN  IF kind = "private" THEN (IF who = "system" THEN "barred" ELSE "config") ELSE kind

-----------------------------------------------------------------------------
\* Mutant: whatever is not a readable regular file is passed over like an absent one.
ProbedQuiet(kind) == IF kind \in {"absent", "odd", "barred"} THEN "next" ELSE "take"

\* isConfigFile: only plain absence gives the next place its turn.
Probed(kind) ==
  IF kind = "absent" THEN "next"
  ELSE IF kind \in {"odd", "barred"} THEN "fail" ELSE "take"

\* Mutant: only -config names a file; one named by the variable may be absent.
NamedByFlagOnly(explicit, vars) == explicit # None

\* resolvePath's bool: whether the operator named the file.
Named(explicit, vars) == explicit # None \/ vars.config # None

\* resolvePath: -config, then RESTART_MESSAGE_CONFIG, then the search.
ResolvePath(explicit, vars, files, who) ==
  LET Found(path) == [ok |-> TRUE, path |-> path, named |-> Named(explicit, vars)]
      hits == {k \in DOMAIN SearchPaths : Probed(Kind(files, SearchPaths[k], who)) # "next"}
      hit == SearchPaths[Min(hits)]
  IN  IF explicit # None THEN Found(explicit)
      ELSE IF vars.config # None THEN Found(vars.config)
      ELSE IF hits = {} THEN Found(None)
      ELSE [Found(hit) EXCEPT !.ok = Probed(Kind(files, hit, who)) = "take"]

\* validateWebhookURL: https with a host, or http to this machine.
ValidWebhookURL(url) ==
  url.set => /\ url.parses
             /\ url.scheme = "https" \/ (url.scheme = "http" /\ url.host = "loopback")
             /\ url.host # "none"

\* os.ReadFile and json.Unmarshal of the path that was resolved: a candidate that
\* is gone by now leaves the defaults, a named one does not.
ReadConfig(resolved, files, who) ==
  LET kind == Kind(files, resolved.path, who)
      file == files[Place(resolved.path, who)]
  IN  IF resolved.path = None \/ (kind = "absent" /\ ~resolved.named) THEN Default
      ELSE IF kind = "config"
        THEN [ok |-> TRUE, used |-> resolved.path, url |-> file.url, start |-> file.start]
      ELSE Failure(IF kind = "broken" THEN resolved.path ELSE None)

\* Load after resolvePath: DISCORD_WEBHOOK_URL wins over the file, and the URL that
\* is in effect is checked last.
Load(resolved, vars, files, who) ==
  LET cfg == ReadConfig(resolved, files, who)
      url == IF vars.webhook.set THEN vars.webhook ELSE cfg.url
  IN  IF ~resolved.ok THEN Failure(None)
      ELSE IF ~cfg.ok THEN cfg
      ELSE IF ~ValidWebhookURL(url) THEN Failure(cfg.used)
      ELSE [cfg EXCEPT !.url = url]
=============================================================================
