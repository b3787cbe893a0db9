------------------------------ MODULE Services ------------------------------
(***************************************************************************)
(* install-service and uninstall-service against the service control       *)
(* manager: find the registrations that are ours, stop and delete each of  *)
(* them, and register the canonical one anew.                              *)
(*                                                                         *)
(* A deleted registration stays, marked, until its process is gone and     *)
(* nobody holds a handle to it; until then its name cannot be used again.  *)
(* A service can hang in its stop, somebody can hold a handle for good,    *)
(* and any call can fail.                                                  *)
(***************************************************************************)
EXTENDS InstallGate, Integers, FiniteSets

CONSTANTS
  Names,        \* the names registrations can have
  Canonical,    \* serviceName
  Prefixed,     \* the names with the prefix "restart-message-", Canonical too
  Lookalikes,   \* the names that only begin with "restart-message"
  Left,         \* by name, the registrations there can be at the start
  MaxPolls,     \* how often a stopping service is looked at before the deadline
  MaxTries      \* how often CreateService is called for a marked name

VARIABLES
  reg,      \* the registrations by name, Gone where there is none
  pc,       \* where the command is
  command,  \* "install" or "uninstall"
  todo,     \* the names still to be removed
  current,  \* the one being removed
  polls,    \* how often its state was looked at
  tries,    \* how often CreateService was called
  failed,   \* the names that could not be removed
  listed,   \* whether the registrations could be enumerated
  outcome   \* what the command has returned: "none" while it runs

progress == <<todo, current, polls, tries, failed, listed>>
vars == <<reg, pc, command, progress, outcome>>

Gone ==
  [state |-> "none", marked |-> FALSE, held |-> FALSE, image |-> "none", line |-> {},
   guarded |-> FALSE]

\* image says whose executable it really runs, "new" the one that installs now; line
\* which of the texts that are looked for its command line holds, the base name of
\* this executable and " service"; guarded that it cannot be opened.
Registrations ==
  [state : {"stopped", "running", "stopping"}, marked : BOOLEAN, held : BOOLEAN,
   image : {"ours", "new", "other"}, line : SUBSET {"executable", "service"}, guarded : BOOLEAN]

ASSUME NamesAssumption ==
  /\ Canonical \in Prefixed /\ Prefixed \subseteq Names
  /\ Lookalikes \subseteq Names \ Prefixed
  /\ Left \in [Names -> SUBSET Registrations]
  /\ MaxPolls \in Nat /\ MaxTries \in Nat \ {0}

Created ==
  [state |-> "stopped", marked |-> FALSE, held |-> FALSE, image |-> "new",
   line |-> {"executable", "service"}, guarded |-> FALSE]

Exists(n) == reg[n] # Gone
Live(n) == Exists(n) /\ ~reg[n].marked

\* Both texts occur somewhere in the command line, whatever it runs.
Mentions(n) == {"executable", "service"} \subseteq reg[n].line

\* serviceUsesBinary: a service that cannot be opened is not ours.
UsesBinary(n) == Exists(n) /\ ~reg[n].guarded /\ Mentions(n)

\* Mutants: the prefix without its hyphen; only the canonical name is ours.
IsOwnLoose(n) == n \in Prefixed \cup Lookalikes \/ UsesBinary(n)
IsOwnCanonical(n) == n = Canonical

\* What findOwnServices keeps: by name, or by command line.
IsOwn(n) == n \in Prefixed \/ UsesBinary(n)

\* Registrations as other programs, older versions and earlier commands leave them.
Init ==
  /\ reg \in [Names -> Registrations \cup {Gone}]
  /\ \A n \in Names : Exists(n) => reg[n] \in Left[n]
  /\ pc = "idle" /\ command = "none"
  /\ todo = {} /\ current = Canonical /\ polls = 0 /\ tries = 0
  /\ failed = {} /\ listed = TRUE /\ outcome = "none"

-----------------------------------------------------------------------------
(* The service control manager and everybody else.                         *)

\* A service that was told to stop has stopped.
Stops(n) ==
  /\ reg[n].state = "stopping"
  /\ reg' = [reg EXCEPT ![n].state = "stopped"]
  /\ UNCHANGED <<pc, command, progress, outcome>>

\* services.msc and its kin open and close handles.
Hold(n) ==
  /\ Exists(n)
  /\ reg' = [reg EXCEPT ![n].held = ~@]
  /\ UNCHANGED <<pc, command, progress, outcome>>

\* The command itself has the registration open while it removes it.
Open(n) == reg[n].held \/ (current = n /\ pc \in {"poll", "delete"})

\* A marked registration goes when nothing keeps it.
Vanish(n) ==
  /\ reg[n].marked /\ reg[n].state = "stopped" /\ ~Open(n)
  /\ reg' = [reg EXCEPT ![n] = Gone]
  /\ UNCHANGED <<pc, command, progress, outcome>>

-----------------------------------------------------------------------------
(* The commands.                                                           *)

Return(words) == pc' = "end" /\ outcome' = words

\* cmdInstallService up to the gate: nothing has been touched when it refuses.
Install(f, allow) ==
  /\ pc = "idle"
  /\ command' = "install"
  /\ IF InstallGate(f, allow) THEN pc' = "connect" /\ UNCHANGED outcome ELSE Return("refused")
  /\ UNCHANGED <<reg, progress>>

Uninstall ==
  /\ pc = "idle"
  /\ command' = "uninstall" /\ pc' = "connect"
  /\ UNCHANGED <<reg, progress, outcome>>

\* mgr.Connect: without the rights of an administrator that is all.
Connect ==
  /\ pc = "connect"
  /\ (pc' = "list" /\ UNCHANGED outcome) \/ Return("error")
  /\ UNCHANGED <<reg, command, progress>>

\* findOwnServices.
List ==
  /\ pc = "list"
  /\ todo' = {n \in Names : Exists(n) /\ IsOwn(n)}
  /\ IF command = "uninstall" /\ todo' = {}
       THEN Return("not found")
       ELSE pc' = "next" /\ UNCHANGED outcome
  /\ UNCHANGED <<reg, command, current, polls, tries, failed, listed>>

\* The enumeration fails: uninstall gives up, install goes on.
ListFails ==
  /\ pc = "list"
  /\ listed' = FALSE
  /\ IF command = "uninstall" THEN Return("error") ELSE pc' = "create" /\ UNCHANGED outcome
  /\ UNCHANGED <<reg, command, todo, current, polls, tries, failed>>

\* removeService opens the registration and tells the service to stop.  One that is
\* gone already is as good as removed; one that is stopped needs no waiting; a
\* control that fails otherwise is only logged.
Remove(n) ==
  /\ pc = "next" /\ n \in todo
  /\ todo' = todo \ {n} /\ current' = n /\ polls' = 0
  /\ \/ ~Exists(n) /\ UNCHANGED <<reg, pc, failed>>
     \/ /\ Exists(n)
        /\ failed' = failed \cup {n}
        /\ UNCHANGED <<reg, pc>>
     \/ /\ Exists(n) /\ ~reg[n].guarded /\ reg[n].state = "stopped"
        /\ pc' = "delete" /\ UNCHANGED <<reg, failed>>
     \/ /\ Exists(n) /\ ~reg[n].guarded /\ reg[n].state # "stopped"
        /\ \/ reg' = [reg EXCEPT ![n].state = "stopping"]
           \/ UNCHANGED reg
        /\ pc' = "poll" /\ UNCHANGED failed
  /\ UNCHANGED <<command, tries, listed, outcome>>

\* Mutant: the wait has no deadline.
DeadlineNever == FALSE

\* Ten seconds have passed since the service was told to stop.
Deadline == polls >= MaxPolls

\* The wait for Stopped.
Poll ==
  /\ pc = "poll" /\ ~Deadline /\ reg[current].state # "stopped"
  /\ polls' = IF polls < MaxPolls THEN polls + 1 ELSE polls
  /\ UNCHANGED <<reg, pc, command, todo, current, tries, failed, listed, outcome>>

\* It ends with the service stopped or at the deadline; the deletion is tried anyway.
PollEnds ==
  /\ pc = "poll" /\ (Deadline \/ reg[current].state = "stopped")
  /\ pc' = "delete"
  /\ UNCHANGED <<reg, command, progress, outcome>>

\* So it is when the state cannot be queried.
QueryFails ==
  /\ pc = "poll"
  /\ pc' = "delete"
  /\ UNCHANGED <<reg, command, progress, outcome>>

\* Mutant: a deletion that fails is not counted.
DeleteFailedUncounted == failed

\* The failures after a deletion that fails.
DeleteFailed == failed \cup {current}

\* Delete marks the registration; one that is marked already counts as removed.
Delete ==
  /\ pc = "delete"
  /\ pc' = "next"
  /\ \/ reg' = [reg EXCEPT ![current].marked = TRUE] /\ UNCHANGED failed
     \/ /\ ~reg[current].marked
        /\ failed' = DeleteFailed /\ UNCHANGED reg
  /\ UNCHANGED <<command, todo, current, polls, tries, listed, outcome>>

\* Every registration has had its turn.
Removed ==
  /\ pc = "next" /\ todo = {}
  /\ IF command = "install"
       THEN pc' = "create" /\ UNCHANGED outcome
       ELSE Return(IF failed = {} THEN "uninstalled" ELSE "error")
  /\ UNCHANGED <<reg, command, progress>>

\* CreateService succeeds only when the name is free; whether the service then starts
\* changes nothing about the result.
Create ==
  /\ pc = "create" /\ ~Exists(Canonical)
  /\ \E state \in {"stopped", "running"} :
       reg' = [reg EXCEPT ![Canonical] = [Created EXCEPT !.state = state]]
  /\ Return("installed")
  /\ UNCHANGED <<command, progress>>

\* ERROR_SERVICE_MARKED_FOR_DELETE: half a second later it is tried again.
CreateMarked ==
  /\ pc = "create" /\ Exists(Canonical) /\ reg[Canonical].marked
  /\ tries' = tries + 1
  /\ IF tries' < MaxTries THEN UNCHANGED <<pc, outcome>> ELSE Return("error")
  /\ UNCHANGED <<reg, command, todo, current, polls, failed, listed>>

\* The name is taken, or CreateService fails for another reason.
CreateFails ==
  /\ pc = "create"
  /\ Return("error")
  /\ UNCHANGED <<reg, command, progress>>

Command ==
  \/ Connect \/ List \/ ListFails \/ (\E n \in Names : Remove(n)) \/ Poll \/ PollEnds \/ Delete
  \/ Removed \/ Create \/ CreateMarked \/ CreateFails

\* What the gate can have observed.
GateFacts ==
  {f \in [loaded : BOOLEAN, webhookSet : BOOLEAN, placeholder : BOOLEAN, envConfigSet : {FALSE},
          envWebhookSet : {FALSE}, forService : {TRUE}, shutdownStart : BOOLEAN] :
     /\ f.webhookSet \/ f.shutdownStart => f.loaded
     /\ f.placeholder => f.webhookSet}

Next ==
  \/ \E f \in GateFacts, allow \in BOOLEAN : Install(f, allow)
  \/ Uninstall \/ Command \/ QueryFails
  \/ \E n \in Names : Stops(n) \/ Hold(n) \/ Vanish(n)

\* The command goes on and its calls return.  No service has to stop, no handle has
\* to be closed, and no query has to fail.
Spec == Init /\ [][Next]_vars /\ WF_vars(Command)

-----------------------------------------------------------------------------
TypeOK ==
  /\ reg \in [Names -> Registrations \cup {Gone}]
  /\ pc \in {"idle", "connect", "list", "next", "poll", "delete", "create", "end"}
  /\ command \in {"none", "install", "uninstall"}
  /\ todo \subseteq Names /\ current \in Names /\ failed \subseteq Names
  /\ polls \in 0 .. MaxPolls /\ tries \in 0 .. MaxTries /\ listed \in BOOLEAN
  /\ outcome \in {"none", "refused", "not found", "error", "uninstalled", "installed"}

\* Somebody tells the service to stop or deletes its registration.
Touched(n) ==
  /\ Exists(n)
  /\ \/ reg'[n].state = "stopping" /\ reg[n].state # "stopping"
     \/ reg'[n].marked /\ ~reg[n].marked

\* By name, or by what it really runs.
Ours(n) == n \in Prefixed \/ reg[n].image \in {"ours", "new"}

\* What cannot be told by anybody: no name of ours, and it cannot be opened or goes
\* by another executable name.
Hidden(n) == n \notin Prefixed /\ (reg[n].guarded \/ ~Mentions(n))

\* service_windows.go:292-298, 309-313 -- whatever happens between the enumeration and
\* the removal: a service is stopped or deleted only if it can be opened and has a
\* name of ours, prefix and hyphen included, or a command line that mentions both this
\* executable and the subcommand.
OnlyClaimedTouched ==
  [][\A n \in Names :
       Touched(n) => ~reg[n].guarded /\ (n \in Prefixed \/ Mentions(n))]_vars

\* service_windows.go:293-296, 318-319 -- "if its image is this exe (matched by base
\* name) invoked with the service subcommand": no service of another program is stopped
\* or deleted.
ForeignUntouched == [][\A n \in Names : Touched(n) => Ours(n)]_vars

\* service_windows.go:142-146 -- after an install that met no failure the new
\* registration is the only one of ours that is not hidden: every other is gone or
\* about to go.
InstalledIsAlone ==
  (outcome = "installed" /\ listed /\ failed = {}) =>
    /\ Live(Canonical) /\ reg[Canonical].image = "new"
    /\ \A n \in Names \ {Canonical} : Live(n) => ~Ours(n) \/ Hidden(n)

\* An uninstall without an error leaves no live registration of ours that is not hidden.
UninstallIsComplete ==
  outcome = "uninstalled" => \A n \in Names : Live(n) => ~Ours(n) \/ Hidden(n)

\* service_windows.go:271-273 -- no stuck service holds the command up.
CommandEnds == pc = "connect" ~> pc = "end"
=============================================================================
