---------------------------- MODULE Registration ----------------------------
(***************************************************************************)
(* From install to the next boot: the operator's process judges whether    *)
(* the configuration will do, registers the command line, and SYSTEM later *)
(* loads the configuration for itself, with another environment, another   *)
(* working directory and other rights.  Files can be edited at any moment. *)
(* One process at a time; a load is two steps.                             *)
(***************************************************************************)
EXTENDS Config, InstallGate

CONSTANTS
  Kinds,       \* the files there can be in each place
  Variables,   \* what the environment of a user, and of the machine, can hold
  Explicit,    \* what can be given as -config
  MaxEdits     \* bound: how often a file is changed

\* A path that somebody gives is neither of the places that are searched.
ASSUME PathAssumption ==
  /\ Explicit \subseteq {None, "named", "relative"}
  /\ \A v \in Variables : v.config \in {None, "named", "relative"}

VARIABLES
  files,     \* the files by place
  user,      \* the operator's own environment variables
  machine,   \* the machine-wide ones, which SYSTEM has too
  edits,     \* how often a file was changed
  pc,        \* "idle", or what the running process is about to do
  given,     \* the arguments of the running command
  resolved,  \* what resolvePath has returned to it
  task,      \* the registered command line, and what the gate said about it
  loaded,    \* the result of the latest load, and whose it was
  fresh,     \* history: whether no file has changed since that load began
  intact     \* history: nor since the install that made the registration

disk == <<files, edits>>
environment == <<user, machine>>
vars == <<disk, environment, pc, given, resolved, task, loaded, fresh, intact>>

Nothing == [config |-> None, webhook |-> NoURL]

\* Mutant: only RESTART_MESSAGE_CONFIG is removed from the environment.
ClearEnvConfigOnly(variables) == [variables EXCEPT !.config = None]

\* clearEnv: what the gate's load finds of the two variables.
ClearEnv(variables) == Nothing

\* What a process of the operator finds of them: the user's own win.
OperatorEnv ==
  [config |-> IF user.config # None THEN user.config ELSE machine.config,
   webhook |-> IF user.webhook.set THEN user.webhook ELSE machine.webhook]

\* filepath.Abs, in the operator's working directory.
Absolute(path) == IF path = "relative" THEN "named" ELSE path

Unregistered == [exists |-> FALSE, config |-> None, passed |-> FALSE, used |-> None, notes |-> {}]

Init ==
  /\ files \in [{"named", "beside", "programdata", "elsewhere"} -> UNION {Kinds[p] : p \in DOMAIN Kinds}]
  /\ \A p \in DOMAIN files : files[p] \in Kinds[p]
  /\ user \in Variables /\ machine \in Variables
  /\ edits = 0 /\ pc = "idle"
  /\ given = [config |-> None, allow |-> FALSE]
  /\ resolved = [ok |-> TRUE, path |-> None, named |-> FALSE]
  /\ task = Unregistered
  /\ loaded = [by |-> "nobody", result |-> Default, config |-> None]
  /\ fresh = TRUE /\ intact = TRUE

-----------------------------------------------------------------------------
\* Somebody writes, replaces, removes or protects a file.
Edit(p, file) ==
  /\ edits < MaxEdits /\ files[p] # file
  /\ files' = [files EXCEPT ![p] = file] /\ edits' = edits + 1
  /\ fresh' = FALSE /\ intact' = FALSE
  /\ UNCHANGED <<environment, pc, given, resolved, task, loaded>>

\* A load begins: resolvePath.
Begins(config, variables, who) ==
  /\ resolved' = ResolvePath(config, variables, files, who)
  /\ fresh' = TRUE

\* It ends: the read and what follows.
Ends(by, config, variables, who) ==
  loaded' = [by |-> by, config |-> config, result |-> Load(resolved, variables, files, who)]

\* install or install-service, up to the stat: the two variables are removed.
Install(config, allow) ==
  /\ pc = "idle"
  /\ pc' = "check"
  /\ given' = [config |-> Absolute(config), allow |-> allow]
  /\ Begins(Absolute(config), ClearEnv(OperatorEnv), "operator")
  /\ UNCHANGED <<disk, environment, task, loaded, intact>>

\* gatherInstallFacts.
Facts(result) ==
  [loaded |-> result.ok, webhookSet |-> result.url.set, placeholder |-> result.url.sample,
   envConfigSet |-> OperatorEnv.config # None, envWebhookSet |-> OperatorEnv.webhook.set,
   forService |-> FALSE, shutdownStart |-> result.start]

\* The gate decides; schtasks or the SCM then takes the registration, or does not.
Check(accepted) ==
  /\ pc = "check"
  /\ pc' = "idle"
  /\ Ends("install", given.config, ClearEnv(OperatorEnv), "operator")
  /\ LET f == Facts(loaded'.result)
     IN  IF InstallGate(f, given.allow) /\ accepted
           THEN /\ task' = [exists |-> TRUE, config |-> given.config, passed |-> Passes(f),
                            used |-> loaded'.result.used, notes |-> Notes(f)]
                /\ intact' = fresh
           ELSE UNCHANGED <<task, intact>>
  /\ UNCHANGED <<disk, environment, given, resolved, fresh>>

\* uninstall: schtasks removes the task, or fails.
Uninstall ==
  /\ pc = "idle" /\ task.exists
  /\ task' \in {task, Unregistered}
  /\ UNCHANGED <<disk, environment, pc, given, resolved, loaded, fresh, intact>>

\* status or test, typed by the operator.
Try(config) ==
  /\ pc = "idle"
  /\ pc' = "try"
  /\ given' = [config |-> config, allow |-> FALSE]
  /\ Begins(config, OperatorEnv, "operator")
  /\ UNCHANGED <<disk, environment, task, loaded, intact>>

Tried ==
  /\ pc = "try"
  /\ pc' = "idle"
  /\ Ends("try", given.config, OperatorEnv, "operator")
  /\ UNCHANGED <<disk, environment, given, resolved, task, fresh, intact>>

\* The registered command runs as SYSTEM.
Run ==
  /\ pc = "idle" /\ task.exists
  /\ pc' = "run"
  /\ Begins(task.config, machine, "system")
  /\ UNCHANGED <<disk, environment, given, task, loaded, intact>>

Ran ==
  /\ pc = "run"
  /\ pc' = "idle"
  /\ Ends("run", task.config, machine, "system")
  /\ UNCHANGED <<disk, environment, given, resolved, task, fresh, intact>>

Next ==
  \/ \E p \in DOMAIN Kinds : \E file \in Kinds[p] : Edit(p, file)
  \/ \E config \in Explicit :
       \/ \E allow \in BOOLEAN : Install(config, allow)
       \/ Try(config)
  \/ (\E accepted \in BOOLEAN : Check(accepted)) \/ Uninstall
  \/ Tried \/ Run \/ Ran

Spec == Init /\ [][Next]_vars

-----------------------------------------------------------------------------
\* The configuration can be notified with.
Usable(result) == result.ok /\ result.url.set /\ ~result.url.sample

\* SYSTEM's latest load is of the registration as install left it.
ServesRegistration == loaded.by = "run" /\ loaded.config = task.config /\ task.exists /\ intact

\* main.go:538-539 -- the gate lets a registration through if and only if it will
\* work, and has read the file that it will read: as long as the operator's rights
\* do not exceed SYSTEM's and no machine-wide variable is set, which the gate cannot
\* tell from the operator's own.
VerdictIsSystems ==
  (/\ ServesRegistration /\ machine = Nothing
   /\ \A p \in DOMAIN files : files[p].kind # "private")
    => /\ task.passed <=> Usable(loaded.result)
       /\ task.passed => task.used = loaded.result.used

\* The configuration file that the running process was told to use: by -config, or by
\* the RESTART_MESSAGE_CONFIG that it finds.
ToldToUse ==
  LET flag == IF pc = "run" THEN task.config ELSE given.config
      variable == [check |-> None, try |-> OperatorEnv.config, run |-> machine.config]
  IN  IF flag # None THEN flag ELSE variable[pc]

Reader == IF pc = "run" THEN "system" ELSE "operator"

\* config.go:57-79, 178-191, 214-222 -- a load that succeeds has passed nothing over.
\* The file named, by either channel, is the one used, even if it comes and goes
\* during the load.  If none is named, the file used is the first that there is; the
\* defaults stand only where there is none, or where the one found has gone by the time
\* it is read.  What is used is there, and what it says is what counts.
LoadPassesNothing ==
  LET result == loaded'.result
      Gone(p) == files[p].kind = "absent"
  IN  /\ ToldToUse # None => result.used = ToldToUse
      /\ ToldToUse = None =>
           /\ result.used \in {None, "beside", "programdata"}
           /\ result.used = None => resolved.path = None \/ Gone(resolved.path)
           /\ fresh /\ result.used \in {None, "programdata"} => Gone("beside")
           /\ fresh /\ result.used = None => Gone("programdata")
      /\ result.used # None =>
           LET file == files[Place(result.used, Reader)]
           IN  file.kind \in {"config", "private"} /\ result.start = file.start

NothingPassedOver ==
  [][pc # "idle" /\ pc' = "idle" /\ loaded'.result.ok => LoadPassesNothing]_vars

\* main.go:575 -- "the file this registration really reads is ...": what the note on
\* a pass says of the registration.
NoteIsTrue ==
  (ServesRegistration /\ "reads this file" \in task.notes) => loaded.result.used = task.used
=============================================================================
