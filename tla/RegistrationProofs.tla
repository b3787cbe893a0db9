------------------------- MODULE RegistrationProofs -------------------------
(***************************************************************************)
(* What install judges is what SYSTEM will load, and no file is passed     *)
(* over, for any files, variables and number of edits: a load that no edit *)
(* disturbs depends on the files alone, and who reads them only matters    *)
(* for a private file or a relative path.                                  *)
(***************************************************************************)
EXTENDS Registration, TLAPS

Places == {"named", "beside", "programdata", "elsewhere"}

\* A whole load of the files as they are.
Whole(config, variables, who) ==
  Load(ResolvePath(config, variables, files, who), variables, files, who)

\* The registered path is absolute and the installing process judged the files as
\* they are, if none has changed since.
Judged ==
  /\ task.exists => task.config \in {None, "named"}
  /\ task.exists /\ intact =>
       LET result == Whole(task.config, Nothing, "operator")
       IN  (task.passed <=> Usable(result)) /\ task.used = result.used

\* What the running process has resolved is right, if no file has changed since.
Resolving ==
  /\ pc = "run" /\ intact => fresh
  /\ pc = "check" => given.config \in {None, "named"}
  /\ pc = "check" /\ fresh => resolved = ResolvePath(given.config, Nothing, files, "operator")
  /\ pc = "try" => given.config \in {None, "named", "relative"}
  /\ pc = "try" /\ fresh => resolved = ResolvePath(given.config, OperatorEnv, files, "operator")
  /\ pc = "run" => task.exists
  /\ pc = "run" /\ fresh => resolved = ResolvePath(task.config, machine, files, "system")

\* Whatever becomes of the files, the process keeps to the file it was told to use, or
\* to what it has found.
KeepsTo ==
  pc # "idle" =>
    IF ToldToUse # None THEN resolved = [ok |-> TRUE, path |-> ToldToUse, named |-> TRUE]
    ELSE resolved.named = FALSE /\ resolved.path \in {None, "beside", "programdata"}

\* SYSTEM's latest load is a whole one, if no file has changed since install.
LoadedWhole ==
  loaded.by = "run" /\ intact /\ task.exists =>
    loaded.result = Whole(loaded.config, machine, "system")

IInv ==
  /\ DOMAIN files = Places
  /\ user \in Variables /\ machine \in Variables
  /\ pc \in {"idle", "check", "try", "run"}
  /\ fresh \in BOOLEAN /\ intact \in BOOLEAN
  /\ Judged /\ Resolving /\ KeepsTo /\ LoadedWhole

-----------------------------------------------------------------------------
(* A load.                                                                 *)

\* The places where a search by who finds something.
Hits(who) == {k \in DOMAIN SearchPaths : Probed(Kind(files, SearchPaths[k], who)) # "next"}

Found(path, named) == [ok |-> TRUE, path |-> path, named |-> named]

Searched(who) ==
  LET hit == SearchPaths[Min(Hits(who))]
  IN  [Found(hit, FALSE) EXCEPT !.ok = Probed(Kind(files, hit, who)) = "take"]

LEMMA Paths == /\ DOMAIN SearchPaths = {1, 2}
               /\ SearchPaths[1] = "beside" /\ SearchPaths[2] = "programdata"
  BY DEF SearchPaths

\* The first of the places found.
LEMMA FirstHit ==
  ASSUME NEW S \in SUBSET {1, 2}, S # {}
  PROVE  (Min(S) = 1 /\ 1 \in S) \/ (Min(S) = 2 /\ 2 \in S /\ 1 \notin S)
<1>1. \E x \in S : \A y \in S : x <= y
  <2>1. CASE 1 \in S
    <3>1. \A y \in S : 1 <= y
      OBVIOUS
    <3> QED
      BY <2>1, <3>1
  <2>2. CASE 1 \notin S
    <3>1. S = {2}
      BY <2>2
    <3> QED
      BY <3>1
  <2> QED
    BY <2>1, <2>2
<1>2. Min(S) \in S /\ \A y \in S : Min(S) <= y
  BY <1>1 DEF Min
<1>3. Min(S) \in {1, 2}
  BY <1>2
<1> QED
  BY <1>2, <1>3

\* Only an absent file is passed over, and absence is the same for everyone.
LEMMA NextIsAbsent ==
  ASSUME NEW path \in {"beside", "programdata"}, NEW who \in {"operator", "system"}
  PROVE  /\ Probed(Kind(files, path, who)) = "next" <=> files[path].kind = "absent"
         /\ Probed(Kind(files, path, who)) = "next" <=> Kind(files, path, who) = "absent"
  BY DEF Probed, Kind, Place

\* What resolvePath returns.
LEMMA Resolved ==
  ASSUME NEW config, NEW variables, NEW who
  PROVE  ResolvePath(config, variables, files, who) =
           IF config # None THEN Found(config, TRUE)
           ELSE IF variables.config # None THEN Found(variables.config, TRUE)
           ELSE IF Hits(who) = {} THEN Found(None, FALSE)
           ELSE Searched(who)
  BY DEF ResolvePath, Named, Found, Hits, Searched

\* A load that succeeds has used the path it was given.
LEMMA UsesWhatIsThere ==
  ASSUME NEW resolved0, NEW variables, NEW who,
         Load(resolved0, variables, files, who).ok
  PROVE  LET used == Load(resolved0, variables, files, who).used
         IN  \/ used = resolved0.path
             \/ /\ used = None
                /\ resolved0.path = None \/ (Kind(files, resolved0.path, who) = "absent" /\ ~resolved0.named)
<1> DEFINE cfg == ReadConfig(resolved0, files, who)
           url == IF variables.webhook.set THEN variables.webhook ELSE cfg.url
<1>1. \/ cfg = Default /\ (resolved0.path = None \/ (Kind(files, resolved0.path, who) = "absent" /\ ~resolved0.named))
      \/ cfg.ok /\ cfg.used = resolved0.path /\ cfg = [ok |-> cfg.ok, used |-> cfg.used, url |-> cfg.url, start |-> cfg.start]
      \/ ~cfg.ok
  BY DEF ReadConfig, Failure
<1>2. Load(resolved0, variables, files, who) =
        IF ~resolved0.ok THEN Failure(None)
        ELSE IF ~cfg.ok THEN cfg
        ELSE IF ~ValidWebhookURL(url) THEN Failure(cfg.used)
        ELSE [cfg EXCEPT !.url = url]
  BY DEF Load
<1> HIDE DEF cfg, url
<1>3. cfg.ok /\ Load(resolved0, variables, files, who) = [cfg EXCEPT !.url = url]
  BY <1>2 DEF Failure
<1>4. CASE cfg = Default
  BY <1>1, <1>3, <1>4 DEF Default
<1>5. CASE cfg # Default
  BY <1>1, <1>3, <1>5
<1> QED
  BY <1>4, <1>5

\* The file used is the one named, or the first place that holds anything.
LEMMA NothingPassed ==
  ASSUME NEW config \in {None, "named", "relative"}, NEW variables,
         variables.config \in {None, "named", "relative"}, NEW who \in {"operator", "system"},
         Whole(config, variables, who).ok
  PROVE  LET used == Whole(config, variables, who).used
         IN  /\ used = None \/ used = "programdata" => files["beside"].kind = "absent"
             /\ used = None => files["programdata"].kind = "absent"
             /\ config # None => used = config
<1> DEFINE used == Whole(config, variables, who).used
           path == ResolvePath(config, variables, files, who).path
           named == ResolvePath(config, variables, files, who).named
<1>1. \/ used = path
      \/ used = None /\ (path = None \/ (Kind(files, path, who) = "absent" /\ ~named))
  BY UsesWhatIsThere DEF Whole
<1>2. CASE config # None
  <2>1. path = config /\ named = TRUE
    <3>1. ResolvePath(config, variables, files, who) = Found(config, TRUE)
      BY <1>2, Resolved
    <3> QED
      BY <3>1 DEF Found
  <2> HIDE DEF used, path, named
  <2>2. used = config
    BY <1>1, <1>2, <2>1
  <2> QED
    BY <1>2, <2>2 DEF None, used
<1>3. CASE config = None /\ variables.config # None
  <2>1. path = variables.config /\ named = TRUE
    <3>1. ResolvePath(config, variables, files, who) = Found(variables.config, TRUE)
      BY <1>3, Resolved
    <3> QED
      BY <3>1 DEF Found
  <2> HIDE DEF used, path, named
  <2>2. used = variables.config
    BY <1>1, <1>3, <2>1
  <2> QED
    BY <1>3, <2>2 DEF None, used
<1>4. CASE config = None /\ variables.config = None /\ Hits(who) = {}
  <2>1. 1 \notin Hits(who) /\ 2 \notin Hits(who)
    BY <1>4
  <2>2. files["beside"].kind = "absent" /\ files["programdata"].kind = "absent"
    BY <2>1, Paths, NextIsAbsent DEF Hits
  <2> QED
    BY <1>4, <2>2
<1>5. CASE config = None /\ variables.config = None /\ Hits(who) # {}
  <2> DEFINE hit == SearchPaths[Min(Hits(who))]
  <2>1. path = hit
    <3>1. ResolvePath(config, variables, files, who) = Searched(who)
      BY <1>5, Resolved
    <3> QED
      BY <3>1 DEF Searched, Found
  <2>2. Hits(who) \in SUBSET {1, 2}
    BY Paths DEF Hits
  <2>3. \/ hit = "beside" /\ 1 \in Hits(who)
        \/ hit = "programdata" /\ 2 \in Hits(who) /\ 1 \notin Hits(who)
    BY <1>5, <2>2, Paths, FirstHit
  <2>4. Kind(files, hit, who) # "absent"
    BY <2>3, Paths, NextIsAbsent DEF Hits
  <2>5. hit = "programdata" => files["beside"].kind = "absent"
    BY <2>3, Paths, NextIsAbsent DEF Hits
  <2> HIDE DEF used, path, named, hit
  <2>6. used = hit
    BY <1>1, <2>1, <2>3, <2>4 DEF None
  <2> QED
    BY <1>5, <2>3, <2>5, <2>6 DEF None, used
<1> QED
  BY <1>2, <1>3, <1>4, <1>5

\* What a process keeps to from then on.
LEMMA Settles ==
  ASSUME NEW config, NEW variables, NEW who
  PROVE  LET r == ResolvePath(config, variables, files, who)
         IN  IF config # None THEN r = Found(config, TRUE)
             ELSE IF variables.config # None THEN r = Found(variables.config, TRUE)
             ELSE r.named = FALSE /\ r.path \in {None, "beside", "programdata"}
<1> DEFINE r == ResolvePath(config, variables, files, who)
<1>1. r = IF config # None THEN Found(config, TRUE)
          ELSE IF variables.config # None THEN Found(variables.config, TRUE)
          ELSE IF Hits(who) = {} THEN Found(None, FALSE)
          ELSE Searched(who)
  BY Resolved, Zenon
<1>2. Hits(who) # {} => SearchPaths[Min(Hits(who))] \in {"beside", "programdata"}
  <2>1. Hits(who) \in SUBSET {1, 2}
    BY Paths DEF Hits
  <2> QED
    BY <2>1, Paths, FirstHit
<1> HIDE DEF r
<1>3. ASSUME r = Found(None, FALSE) \/ (Hits(who) # {} /\ r = Searched(who))
      PROVE  r.named = FALSE /\ r.path \in {None, "beside", "programdata"}
  BY <1>2, <1>3 DEF Found, Searched
<1> QED
  BY <1>1, <1>3 DEF r

\* What a load that succeeds has used is there, and decides.
LEMMA UsedDecides ==
  ASSUME NEW resolved0, NEW variables, NEW who,
         Load(resolved0, variables, files, who).ok,
         Load(resolved0, variables, files, who).used # None
  PROVE  LET result == Load(resolved0, variables, files, who)
             file == files[Place(result.used, who)]
         IN  file.kind \in {"config", "private"} /\ result.start = file.start
<1> DEFINE cfg == ReadConfig(resolved0, files, who)
           url == IF variables.webhook.set THEN variables.webhook ELSE cfg.url
           file == files[Place(resolved0.path, who)]
<1>1. \/ cfg = Default
      \/ /\ Kind(files, resolved0.path, who) = "config"
         /\ cfg = [ok |-> TRUE, used |-> resolved0.path, url |-> file.url, start |-> file.start]
      \/ ~cfg.ok
  BY DEF ReadConfig, Failure
<1>2. Load(resolved0, variables, files, who) =
        IF ~resolved0.ok THEN Failure(None)
        ELSE IF ~cfg.ok THEN cfg
        ELSE IF ~ValidWebhookURL(url) THEN Failure(cfg.used)
        ELSE [cfg EXCEPT !.url = url]
  BY DEF Load
<1>3. Kind(files, resolved0.path, who) = "config" => file.kind \in {"config", "private"}
  BY DEF Kind
<1> HIDE DEF cfg, url
<1>4. cfg.ok /\ Load(resolved0, variables, files, who) = [cfg EXCEPT !.url = url]
  BY <1>2 DEF Failure
<1>5. cfg # Default
  BY <1>4 DEF Default
<1> QED
  BY <1>1, <1>3, <1>4, <1>5

\* Without a private file and with an absolute path, everyone loads the same.
LEMMA SameForBoth ==
  ASSUME DOMAIN files = Places, \A p \in Places : files[p].kind # "private",
         NEW config \in {None, "named"}
  PROVE  Whole(config, Nothing, "operator") = Whole(config, Nothing, "system")
<1>1. \A p \in Places : /\ Kind(files, p, "operator") = Kind(files, p, "system")
                        /\ Place(p, "operator") = p /\ Place(p, "system") = p
  BY DEF Kind, Place, Places
<1>2. Hits("operator") = Hits("system")
  <2>1. \A k \in DOMAIN SearchPaths :
          Kind(files, SearchPaths[k], "operator") = Kind(files, SearchPaths[k], "system")
    BY <1>1, Paths DEF Places
  <2> QED
    BY <2>1 DEF Hits
<1>3. Hits("system") # {} => SearchPaths[Min(Hits("system"))] \in Places
  <2>1. Hits("system") \in SUBSET {1, 2}
    BY Paths DEF Hits
  <2> QED
    BY <2>1, Paths, FirstHit DEF Places
<1> DEFINE r == ResolvePath(config, Nothing, files, "system")
<1>r. r = ResolvePath(config, Nothing, files, "system")
  OBVIOUS
<1> HIDE DEF r
<1>4. r = ResolvePath(config, Nothing, files, "operator") /\ (r.path = None \/ r.path \in Places)
  <2>0. Nothing.config = None
    BY DEF Nothing
  <2>1. CASE config # None
    <3>1. r = Found(config, TRUE) /\ ResolvePath(config, Nothing, files, "operator") = Found(config, TRUE)
      BY <1>r, <2>1, Resolved
    <3> QED
      BY <2>1, <3>1 DEF Found, Places
  <2>2. CASE config = None /\ Hits("system") = {}
    <3>1. r = Found(None, FALSE) /\ ResolvePath(config, Nothing, files, "operator") = Found(None, FALSE)
      BY <1>r, <1>2, <2>0, <2>2, Resolved
    <3> QED
      BY <3>1 DEF Found
  <2>3. CASE config = None /\ Hits("system") # {}
    <3> DEFINE hit == SearchPaths[Min(Hits("system"))]
    <3>1. Kind(files, hit, "operator") = Kind(files, hit, "system")
      BY <1>1, <1>3, <2>3
    <3>2. r = Searched("system")
      BY <1>r, <2>0, <2>3, Resolved
    <3>3. ResolvePath(config, Nothing, files, "operator") = Searched("operator")
      BY <1>2, <2>0, <2>3, Resolved
    <3>4. Searched("operator") = Searched("system")
      BY <1>2, <3>1 DEF Searched
    <3>5. r.path = hit
      BY <3>2 DEF Searched, Found
    <3> QED
      BY <1>3, <2>3, <3>2, <3>3, <3>4, <3>5
  <2> QED
    BY <2>1, <2>2, <2>3
<1>6. ReadConfig(r, files, "operator") = ReadConfig(r, files, "system")
  BY <1>1, <1>4 DEF ReadConfig
<1>7. Load(r, Nothing, files, "operator") = Load(r, Nothing, files, "system")
  BY <1>6 DEF Load
<1> QED
  BY <1>r, <1>4, <1>7 DEF Whole

-----------------------------------------------------------------------------
(* The steps.                                                              *)

LEMMA PassesIsUsable == ASSUME NEW result PROVE Passes(Facts(result)) <=> Usable(result)
  BY DEF Passes, Facts, Usable

LEMMA Starts == Init => IInv
<1> SUFFICES ASSUME Init PROVE IInv
  OBVIOUS
<1>1. DOMAIN files = Places
  BY DEF Init, Places
<1>2. pc = "idle" /\ task.exists = FALSE /\ loaded.by = "nobody" /\ fresh = TRUE /\ intact = TRUE
  BY DEF Init, Unregistered
<1>3. Judged /\ Resolving /\ KeepsTo /\ LoadedWhole
  BY <1>2 DEF Judged, Resolving, KeepsTo, LoadedWhole
<1>4. user \in Variables /\ machine \in Variables
  BY DEF Init
<1> QED
  BY <1>1, <1>2, <1>3, <1>4 DEF IInv

\* After an edit nothing is claimed of what was loaded before.
LEMMA EditKeeps == ASSUME IInv, NEW p, NEW file, Edit(p, file) PROVE IInv'
<1>1. fresh' = FALSE /\ intact' = FALSE /\ files' = [files EXCEPT ![p] = file]
      /\ UNCHANGED <<user, machine, pc, given, resolved, task, loaded>>
  BY DEF Edit, environment
<1>2. DOMAIN files' = Places
  BY <1>1 DEF IInv
<1>3. Judged' /\ Resolving' /\ LoadedWhole'
  BY <1>1 DEF IInv, Judged, Resolving, LoadedWhole
<1>4. KeepsTo'
  BY <1>1 DEF IInv, KeepsTo, ToldToUse, OperatorEnv
<1> QED
  BY <1>1, <1>2, <1>3, <1>4 DEF IInv

LEMMA InstallKeeps ==
  ASSUME IInv, NEW config \in Explicit, NEW allow, Install(config, allow) PROVE IInv'
<1>1. /\ pc = "idle" /\ pc' = "check" /\ fresh' = TRUE
      /\ given'.config = Absolute(config)
      /\ resolved' = ResolvePath(Absolute(config), Nothing, files, "operator")
      /\ UNCHANGED <<disk, environment, task, loaded, intact>>
  BY DEF Install, Begins, ClearEnv
<1>2. Absolute(config) \in {None, "named"}
  BY PathAssumption DEF Absolute
<1>3. UNCHANGED <<files, user, machine, task, loaded, intact>>
  BY <1>1 DEF disk, environment
<1>4. Judged'
  BY <1>3 DEF IInv, Judged, Whole
<1>5. Resolving'
  BY <1>1, <1>2, <1>3 DEF Resolving
<1>6. LoadedWhole'
  BY <1>1, <1>3 DEF IInv, LoadedWhole, Whole
<1>7. KeepsTo'
  <2>1. ToldToUse' = Absolute(config)
    BY <1>1 DEF ToldToUse
  <2>2. Nothing.config = None
    BY DEF Nothing
  <2> QED
    BY <1>1, <2>1, <2>2, Settles DEF KeepsTo, Found
<1> QED
  BY <1>1, <1>3, <1>4, <1>5, <1>6, <1>7 DEF IInv

\* If no file has changed since install began, what it judged is a whole load.
LEMMA CheckKeeps == ASSUME IInv, NEW accepted, Check(accepted) PROVE IInv'
<1> DEFINE result == Load(resolved, Nothing, files, "operator")
<1>1. /\ pc = "check" /\ pc' = "idle"
      /\ loaded' = [by |-> "install", config |-> given.config, result |-> result]
      /\ UNCHANGED <<disk, environment, given, resolved, fresh>>
  BY DEF Check, Ends, ClearEnv
<1>2. UNCHANGED <<files, user, machine>>
  BY <1>1 DEF disk, environment
<1>3. given.config \in {None, "named"} /\ (fresh => result = Whole(given.config, Nothing, "operator"))
  BY <1>1 DEF IInv, Resolving, Whole
<1>4. \/ UNCHANGED <<task, intact>>
      \/ /\ task'.config = given.config /\ (task'.passed <=> Usable(result))
         /\ task'.used = result.used /\ intact' = fresh
  <2>1. loaded'.result = result
    BY <1>1
  <2> HIDE DEF result
  <2>2. \/ UNCHANGED <<task, intact>>
        \/ /\ task' = [exists |-> TRUE, config |-> given.config, passed |-> Passes(Facts(result)),
                       used |-> result.used, notes |-> Notes(Facts(result))]
           /\ intact' = fresh
    BY <2>1 DEF Check
  <2>3. Passes(Facts(result)) <=> Usable(result)
    BY PassesIsUsable
  <2> QED
    BY <2>2, <2>3
<1> HIDE DEF result
<1>5. Judged'
  <2>1. CASE UNCHANGED <<task, intact>>
    BY <1>2, <2>1 DEF IInv, Judged, Whole
  <2>2. CASE /\ task'.config = given.config /\ (task'.passed <=> Usable(result))
             /\ task'.used = result.used /\ intact' = fresh
    <3>1. task'.config \in {None, "named"}
      BY <1>3, <2>2
    <3>2. ASSUME intact' PROVE /\ task'.passed <=> Usable(Whole(task.config, Nothing, "operator"))'
                               /\ task'.used = Whole(task.config, Nothing, "operator").used'
      BY <1>1, <1>2, <1>3, <2>2, <3>2 DEF Whole
    <3> QED
      BY <3>1, <3>2 DEF Judged
  <2> QED
    BY <1>4, <2>1, <2>2
<1>6. Resolving'
  BY <1>1 DEF Resolving
<1>7. LoadedWhole' /\ KeepsTo'
  <2>1. loaded'.by = "install"
    BY <1>1
  <2> QED
    BY <1>1, <2>1 DEF LoadedWhole, KeepsTo
<1>8. intact' \in BOOLEAN
  BY <1>1, <1>4 DEF IInv
<1> QED
  BY <1>1, <1>2, <1>5, <1>6, <1>7, <1>8 DEF IInv

LEMMA UninstallKeeps == ASSUME IInv, Uninstall PROVE IInv'
<1>1. pc = "idle" /\ UNCHANGED <<files, user, machine, pc, given, resolved, loaded, fresh, intact>>
  BY DEF Uninstall, disk, environment
<1>2. task' = task \/ task'.exists = FALSE
  BY DEF Uninstall, Unregistered
<1>3. Judged'
  BY <1>1, <1>2 DEF IInv, Judged, Whole
<1>4. Resolving'
  BY <1>1 DEF Resolving
<1>5. LoadedWhole' /\ KeepsTo'
  BY <1>1, <1>2 DEF IInv, LoadedWhole, Whole, KeepsTo
<1> QED
  BY <1>1, <1>3, <1>4, <1>5 DEF IInv

LEMMA TryKeeps == ASSUME IInv, NEW config \in Explicit, Try(config) PROVE IInv'
<1>1. /\ pc = "idle" /\ pc' = "try" /\ fresh' = TRUE
      /\ given'.config = config
      /\ resolved' = ResolvePath(config, OperatorEnv, files, "operator")
      /\ UNCHANGED <<files, user, machine, task, loaded, intact>>
  BY DEF Try, Begins, disk, environment
<1>2. config \in {None, "named", "relative"}
  BY PathAssumption
<1>3. Judged'
  BY <1>1 DEF IInv, Judged, Whole
<1>4. Resolving'
  BY <1>1, <1>2 DEF Resolving, OperatorEnv
<1>5. LoadedWhole'
  BY <1>1 DEF IInv, LoadedWhole, Whole
<1>6. KeepsTo'
  <2>1. OperatorEnv' = OperatorEnv
    BY <1>1 DEF OperatorEnv
  <2>2. ToldToUse' = IF config # None THEN config ELSE OperatorEnv.config
    BY <1>1, <2>1 DEF ToldToUse
  <2> HIDE DEF OperatorEnv
  <2>3. LET r == resolved'
        IN  IF config # None THEN r = Found(config, TRUE)
            ELSE IF OperatorEnv.config # None THEN r = Found(OperatorEnv.config, TRUE)
            ELSE r.named = FALSE /\ r.path \in {None, "beside", "programdata"}
    BY <1>1, Settles, Zenon
  <2> QED
    BY <1>1, <2>2, <2>3 DEF KeepsTo, Found
<1> QED
  BY <1>1, <1>3, <1>4, <1>5, <1>6 DEF IInv

LEMMA TriedKeeps == ASSUME IInv, Tried PROVE IInv'
<1> DEFINE result == Load(resolved, OperatorEnv, files, "operator")
<1>1. /\ pc = "try" /\ pc' = "idle"
      /\ loaded'.by = "try" /\ loaded'.config = given.config /\ loaded'.result = result
      /\ UNCHANGED <<files, user, machine, given, resolved, task, fresh, intact>>
  BY DEF Tried, Ends, disk, environment
<1>2. given.config \in {None, "named", "relative"}
      /\ (fresh => result = Whole(given.config, OperatorEnv, "operator"))
  BY <1>1 DEF IInv, Resolving, Whole
<1> HIDE DEF result
<1>3. Judged'
  BY <1>1 DEF IInv, Judged, Whole
<1>4. Resolving'
  BY <1>1 DEF Resolving
<1>5. LoadedWhole' /\ KeepsTo'
  BY <1>1, <1>2 DEF LoadedWhole, Whole, KeepsTo
<1> QED
  BY <1>1, <1>3, <1>4, <1>5 DEF IInv

LEMMA RunKeeps == ASSUME IInv, Run PROVE IInv'
<1>1. /\ pc = "idle" /\ task.exists /\ pc' = "run" /\ fresh' = TRUE
      /\ resolved' = ResolvePath(task.config, machine, files, "system")
      /\ UNCHANGED <<files, user, machine, given, task, loaded, intact>>
  BY DEF Run, Begins, disk, environment
<1>2. Judged'
  BY <1>1 DEF IInv, Judged, Whole
<1>3. Resolving'
  BY <1>1 DEF Resolving
<1>4. LoadedWhole'
  BY <1>1 DEF IInv, LoadedWhole, Whole
<1>5. KeepsTo'
  <2>1. ToldToUse' = IF task.config # None THEN task.config ELSE machine.config
    BY <1>1 DEF ToldToUse
  <2>2. LET r == resolved'
        IN  IF task.config # None THEN r = Found(task.config, TRUE)
            ELSE IF machine.config # None THEN r = Found(machine.config, TRUE)
            ELSE r.named = FALSE /\ r.path \in {None, "beside", "programdata"}
    BY <1>1, Settles, Zenon
  <2> QED
    BY <1>1, <2>1, <2>2 DEF KeepsTo, Found
<1> QED
  BY <1>1, <1>2, <1>3, <1>4, <1>5 DEF IInv

\* The registration and its files are what they were when the run began.
LEMMA RanKeeps == ASSUME IInv, Ran PROVE IInv'
<1> DEFINE result == Load(resolved, machine, files, "system")
<1>1. /\ pc = "run" /\ pc' = "idle"
      /\ loaded'.by = "run" /\ loaded'.config = task.config /\ loaded'.result = result
      /\ UNCHANGED <<files, user, machine, given, resolved, task, fresh, intact>>
  BY DEF Ran, Ends, disk, environment
<1>2. task.config \in {None, "named"} /\ (intact => fresh)
      /\ (fresh => result = Whole(task.config, machine, "system"))
  BY <1>1 DEF IInv, Resolving, Judged, Whole
<1> HIDE DEF result
<1>3. Judged'
  BY <1>1 DEF IInv, Judged, Whole
<1>4. Resolving'
  BY <1>1 DEF Resolving
<1>5. LoadedWhole' /\ KeepsTo'
  BY <1>1, <1>2 DEF LoadedWhole, Whole, KeepsTo
<1> QED
  BY <1>1, <1>3, <1>4, <1>5 DEF IInv

-----------------------------------------------------------------------------
(* The theorems.                                                           *)

THEOREM Invariant == Spec => []IInv
<1>1. ASSUME IInv, Next PROVE IInv'
  <2>1. ASSUME NEW p \in DOMAIN Kinds, NEW file \in Kinds[p], Edit(p, file) PROVE IInv'
    BY <1>1, <2>1, EditKeeps
  <2>2. ASSUME NEW config \in Explicit, NEW allow \in BOOLEAN, Install(config, allow) PROVE IInv'
    BY <1>1, <2>2, InstallKeeps
  <2>3. ASSUME NEW config \in Explicit, Try(config) PROVE IInv'
    BY <1>1, <2>3, TryKeeps
  <2>4. ASSUME NEW accepted \in BOOLEAN, Check(accepted) PROVE IInv'
    BY <1>1, <2>4, CheckKeeps
  <2> QED
    BY <1>1, <2>1, <2>2, <2>3, <2>4, UninstallKeeps, TriedKeeps, RunKeeps, RanKeeps DEF Next
<1>2. ASSUME IInv, UNCHANGED vars PROVE IInv'
  <2>1. UNCHANGED <<files, user, machine, pc, given, resolved, task, loaded, fresh, intact>>
    BY <1>2 DEF vars, disk, environment
  <2> QED
    BY <1>2, <2>1 DEF IInv, Judged, Resolving, KeepsTo, LoadedWhole, Whole, ToldToUse, OperatorEnv
<1> QED
  BY Starts, <1>1, <1>2, PTL DEF Spec

\* What the gate has passed is what SYSTEM can notify with, and what it has refused is
\* not, as long as no file is private to the operator and no machine-wide variable is
\* set: for any files and any edits before or between install and the run.
THEOREM VerdictHolds == Spec => []VerdictIsSystems
<1>1. ASSUME IInv PROVE VerdictIsSystems
  <2> SUFFICES ASSUME ServesRegistration, machine = Nothing,
                      \A p \in DOMAIN files : files[p].kind # "private"
               PROVE  /\ task.passed <=> Usable(loaded.result)
                      /\ task.passed => task.used = loaded.result.used
    BY DEF VerdictIsSystems
  <2>1. loaded.by = "run" /\ loaded.config = task.config /\ task.exists /\ intact
    BY DEF ServesRegistration
  <2>2. loaded.result = Whole(task.config, Nothing, "system")
    BY <1>1, <2>1 DEF IInv, LoadedWhole
  <2>3. task.config \in {None, "named"}
    BY <1>1, <2>1 DEF IInv, Judged
  <2>4. Whole(task.config, Nothing, "operator") = Whole(task.config, Nothing, "system")
    <3>1. DOMAIN files = Places
      BY <1>1 DEF IInv
    <3>2. PICK config \in {None, "named"} : config = task.config
      BY <2>3
    <3> QED
      BY <3>1, <3>2, SameForBoth
  <2> QED
    BY <1>1, <2>1, <2>2, <2>4 DEF IInv, Judged
<1> QED
  BY <1>1, Invariant, PTL

\* The end of a load by a process with these arguments, variables and rights.
LEMMA LoadEnds ==
  ASSUME IInv, pc # "idle",
         NEW config \in {None, "named", "relative"}, NEW variables,
         variables.config \in {None, "named", "relative"}, NEW who \in {"operator", "system"},
         ToldToUse = IF config # None THEN config ELSE variables.config,
         Reader = who,
         fresh => resolved = ResolvePath(config, variables, files, who),
         loaded'.result = Load(resolved, variables, files, who), loaded'.result.ok
  PROVE  LoadPassesNothing
<1> DEFINE result == loaded'.result
<1>1. /\ ToldToUse # None => resolved = [ok |-> TRUE, path |-> ToldToUse, named |-> TRUE]
      /\ ToldToUse = None => resolved.named = FALSE /\ resolved.path \in {None, "beside", "programdata"}
  BY DEF IInv, KeepsTo
<1>2. \/ result.used = resolved.path
      \/ /\ result.used = None
         /\ \/ resolved.path = None
            \/ Kind(files, resolved.path, who) = "absent" /\ ~resolved.named
  BY UsesWhatIsThere
<1>3. result.used # None =>
        LET file == files[Place(result.used, who)]
        IN  file.kind \in {"config", "private"} /\ result.start = file.start
  BY UsedDecides
<1>4. ASSUME fresh, ToldToUse = None
      PROVE  /\ result.used \in {None, "programdata"} => files["beside"].kind = "absent"
             /\ result.used = None => files["programdata"].kind = "absent"
  <2>1. config = None /\ variables.config = None
    BY <1>4
  <2>2. result = Whole(config, variables, who) /\ Whole(config, variables, who).ok
    BY <1>4 DEF Whole
  <2> HIDE DEF result
  <2> QED
    BY <2>2, NothingPassed
<1>5. ASSUME ToldToUse = None, result.used = None
      PROVE  resolved.path = None \/ files[resolved.path].kind = "absent"
  <2>1. resolved.path = None \/ Kind(files, resolved.path, who) = "absent"
    BY <1>2, <1>5
  <2>2. resolved.path \in {None, "beside", "programdata"}
    BY <1>1, <1>5
  <2> QED
    BY <2>1, <2>2, NextIsAbsent
<1> HIDE DEF result
<1>6. ToldToUse # None => result.used = ToldToUse
  BY <1>1, <1>2
<1>7. ToldToUse = None => result.used \in {None, "beside", "programdata"}
  BY <1>1, <1>2
<1> QED
  BY <1>3, <1>4, <1>5, <1>6, <1>7 DEF LoadPassesNothing, result

\* A load that succeeds has passed over nothing: the file named by -config or by the
\* variable is the one used, whatever is edited meanwhile; the defaults, or the second
\* place, are used only when what comes first is absent; and what the file used says
\* is what counts.
THEOREM NoneIsPassedOver == Spec => NothingPassedOver
<1> DEFINE Ends0 == pc # "idle" /\ pc' = "idle" /\ loaded'.result.ok
<1>1. ASSUME IInv, Next PROVE Ends0 => LoadPassesNothing
  <2> SUFFICES ASSUME Ends0 PROVE LoadPassesNothing
    OBVIOUS
  <2>0. /\ user.config \in {None, "named", "relative"} /\ machine.config \in {None, "named", "relative"}
        /\ OperatorEnv.config \in {None, "named", "relative"} /\ Nothing.config = None
    <3>1. /\ user.config \in {None, "named", "relative"}
          /\ machine.config \in {None, "named", "relative"}
      BY <1>1, PathAssumption DEF IInv
    <3> QED
      BY <3>1 DEF Nothing, OperatorEnv
  <2>1. ASSUME NEW accepted \in BOOLEAN, Check(accepted) PROVE LoadPassesNothing
    <3>1. /\ pc = "check" /\ loaded'.result = Load(resolved, Nothing, files, "operator")
          /\ given.config \in {None, "named"}
          /\ fresh => resolved = ResolvePath(given.config, Nothing, files, "operator")
      BY <1>1, <2>1 DEF Check, Ends, ClearEnv, IInv, Resolving
    <3>2. ToldToUse = given.config /\ Reader = "operator"
      BY <3>1 DEF ToldToUse, Reader
    <3> QED
      BY <1>1, <2>0, <3>1, <3>2, LoadEnds
  <2>2. CASE Tried
    <3>1. /\ pc = "try" /\ loaded'.result = Load(resolved, OperatorEnv, files, "operator")
          /\ given.config \in {None, "named", "relative"}
          /\ fresh => resolved = ResolvePath(given.config, OperatorEnv, files, "operator")
      BY <1>1, <2>2 DEF Tried, Ends, IInv, Resolving
    <3>2. /\ ToldToUse = IF given.config # None THEN given.config ELSE OperatorEnv.config
          /\ Reader = "operator"
      BY <3>1 DEF ToldToUse, Reader
    <3> HIDE DEF OperatorEnv
    <3> QED
      BY <1>1, <2>0, <3>1, <3>2, LoadEnds
  <2>3. CASE Ran
    <3>1. /\ pc = "run" /\ loaded'.result = Load(resolved, machine, files, "system")
          /\ task.config \in {None, "named"}
          /\ fresh => resolved = ResolvePath(task.config, machine, files, "system")
      BY <1>1, <2>3 DEF Ran, Ends, IInv, Resolving, Judged
    <3>2. /\ ToldToUse = IF task.config # None THEN task.config ELSE machine.config
          /\ Reader = "system"
      BY <3>1 DEF ToldToUse, Reader
    <3> QED
      BY <1>1, <2>0, <3>1, <3>2, LoadEnds
  <2>4. CASE \/ \E p \in DOMAIN Kinds : \E file \in Kinds[p] : Edit(p, file)
             \/ \E config \in Explicit : (\E allow \in BOOLEAN : Install(config, allow)) \/ Try(config)
             \/ Uninstall \/ Run
    BY <2>4 DEF Edit, Install, Try, Uninstall, Run
  <2> QED
    BY <1>1, <2>1, <2>2, <2>3, <2>4 DEF Next
<1>2. IInv /\ [Next]_vars => [Ends0 => LoadPassesNothing]_vars
  BY <1>1
<1>3. [][Ends0 => LoadPassesNothing]_vars => NothingPassedOver
  BY DEF NothingPassedOver
<1> QED
  BY Invariant, <1>2, <1>3, PTL DEF Spec
=============================================================================
