--------------------------- MODULE ServicesProofs ---------------------------
(***************************************************************************)
(* The safety of install-service and uninstall-service for any names,      *)
(* however many, and any numbers of polls and tries.                       *)
(***************************************************************************)
EXTENDS Services, TLAPS

Removing == pc \in {"poll", "delete"}

\* Where the command is in its work, and what it has opened.
Place ==
  /\ pc # "end" => tries < MaxTries
  /\ outcome # "none" => pc = "end"
  /\ Removing => Exists(current)
  /\ listed \/ pc \in {"create", "end"}

\* What findOwnServices may leave alone: what is not ours, and ours that is hidden.
PassedOver(n) == ~Ours(n) \/ Hidden(n)

\* What is on the list and still exists is claimed, and so is what has been opened.
ListIsClaimed ==
  /\ \A n \in todo : Exists(n) => n \in Prefixed \/ Mentions(n)
  /\ Removing => /\ ~reg[current].guarded
                 /\ current \in Prefixed \/ Mentions(current)

\* The live registrations of ours that the command still has to see to, or could not
\* remove.
Due == todo \cup failed \cup IF Removing THEN {current} ELSE {}

\* Everything else of ours is gone or marked, from the enumeration on; after an
\* install there is the new one.
Cleared ==
  /\ listed /\ pc \in {"next", "poll", "delete", "create"} =>
       \A n \in Names : Live(n) => PassedOver(n) \/ n \in Due
  /\ listed /\ pc = "create" => todo = {}
  /\ outcome = "uninstalled" => \A n \in Names : Live(n) => PassedOver(n)
  /\ outcome = "installed" =>
       /\ Live(Canonical) /\ reg[Canonical].image = "new"
       /\ listed => \A n \in Names \ {Canonical} : Live(n) => PassedOver(n) \/ n \in failed

IInv == TypeOK /\ Place /\ ListIsClaimed /\ Cleared

\* What every step but the creation does to the registrations: none appears, none
\* changes hands, and what the command has open stays.
Keeps ==
  \A m \in Names :
    /\ Live(m)' => Live(m)
    /\ Exists(m)' => Exists(m) /\ reg'[m].image = reg[m].image /\ reg'[m].line = reg[m].line
                     /\ reg'[m].guarded = reg[m].guarded
    /\ Removing /\ m = current => Exists(m)'

-----------------------------------------------------------------------------
(* Single registrations.                                                   *)

\* Gone is no registration: a change to a registration leaves one.
LEMMA GoneIsNone == Gone \notin Registrations
  BY DEF Gone, Registrations

\* Whatever findOwnServices keeps is claimed.
LEMMA OwnIsClaimed == ASSUME NEW n, IsOwn(n) PROVE n \in Prefixed \/ Mentions(n)
  BY DEF IsOwn, UsesBinary

\* And what it leaves is passed over.
LEMMA OtherIsPassedOver == ASSUME NEW n, Exists(n), ~IsOwn(n) PROVE PassedOver(n)
  BY DEF IsOwn, UsesBinary, PassedOver, Hidden

\* As long as a registration keeps what it runs, so does what is said of it.
LEMMA Same ==
  ASSUME NEW m, reg'[m].image = reg[m].image, reg'[m].line = reg[m].line,
         reg'[m].guarded = reg[m].guarded
  PROVE  (PassedOver(m)' <=> PassedOver(m)) /\ (Mentions(m)' <=> Mentions(m))
  BY DEF PassedOver, Hidden, Ours, Mentions

-----------------------------------------------------------------------------
\* The initial states.
LEMMA Start == Init => IInv
<1> SUFFICES ASSUME Init PROVE IInv
  OBVIOUS
<1>1. TypeOK
  BY NamesAssumption DEF Init, TypeOK
<1>2. Place /\ ListIsClaimed /\ Cleared
  BY NamesAssumption DEF Init, Place, ListIsClaimed, Cleared, Removing
<1> QED
  BY <1>1, <1>2 DEF IInv

\* Types are kept.
LEMMA Types == ASSUME IInv, [Next]_vars PROVE TypeOK'
<1> USE NamesAssumption
<1> TypeOK /\ Place
  BY DEF IInv
<1>1. ASSUME NEW f \in GateFacts, NEW allow \in BOOLEAN, Install(f, allow) PROVE TypeOK'
  BY <1>1 DEF Install, Return, TypeOK, progress
<1>2. CASE Uninstall
  BY <1>2 DEF Uninstall, TypeOK, progress
<1>3. CASE Connect
  BY <1>3 DEF Connect, Return, TypeOK, progress
<1>4. CASE List
  BY <1>4 DEF List, Return, TypeOK
<1>5. CASE ListFails
  BY <1>5 DEF ListFails, Return, TypeOK
<1>6. ASSUME NEW n \in Names, Remove(n) PROVE TypeOK'
  <2>1. Exists(n) => reg[n] \in Registrations
    BY DEF TypeOK, Exists
  <2>2. Exists(n) => [reg[n] EXCEPT !.state = "stopping"] \in Registrations
    BY <2>1 DEF Registrations
  <2>3. reg' \in [Names -> Registrations \cup {Gone}]
    BY <1>6, <2>2 DEF Remove, TypeOK
  <2>4. pc' \in {pc, "poll", "delete"} /\ failed' \in {failed, failed \cup {n}}
    BY <1>6 DEF Remove
  <2>5. todo' = todo \ {n} /\ current' = n /\ polls' = 0
        /\ command' = command /\ tries' = tries /\ listed' = listed /\ outcome' = outcome
    BY <1>6 DEF Remove
  <2>6. 0 \in 0 .. MaxPolls
    OBVIOUS
  <2> QED
    BY <2>3, <2>4, <2>5, <2>6 DEF TypeOK
<1>7. CASE Poll
  <2>1. polls \in 0 .. MaxPolls /\ MaxPolls \in Nat
    BY DEF TypeOK
  <2>2. polls' = IF polls < MaxPolls THEN polls + 1 ELSE polls
    BY <1>7 DEF Poll
  <2>3. polls' \in 0 .. MaxPolls
    BY <2>1, <2>2
  <2> QED
    BY <1>7, <2>3 DEF Poll, TypeOK
<1>8. CASE PollEnds \/ QueryFails
  BY <1>8 DEF PollEnds, QueryFails, TypeOK, progress
<1>9. CASE Delete
  <2>1. reg[current] \in Registrations
    BY <1>9 DEF Delete, TypeOK, Place, Removing, Exists
  <2>2. [reg[current] EXCEPT !.marked = TRUE] \in Registrations
    BY <2>1 DEF Registrations
  <2>3. reg' \in [Names -> Registrations \cup {Gone}]
    BY <1>9, <2>2 DEF Delete, TypeOK
  <2> QED
    BY <1>9, <2>3 DEF Delete, TypeOK, DeleteFailed
<1>10. CASE Removed
  BY <1>10 DEF Removed, Return, TypeOK, progress
<1>11. CASE Create
  <2>1. \A s \in {"stopped", "running"} : [Created EXCEPT !.state = s] \in Registrations
    BY DEF Created, Registrations
  <2>2. reg' \in [Names -> Registrations \cup {Gone}]
    BY <1>11, <2>1 DEF Create, TypeOK
  <2> QED
    BY <1>11, <2>2 DEF Create, Return, TypeOK, progress
<1>12. CASE CreateMarked \/ CreateFails
  <2>1. tries \in 0 .. MaxTries /\ MaxTries \in Nat /\ tries < MaxTries
    BY <1>12 DEF CreateMarked, CreateFails, TypeOK, Place
  <2>2. tries' \in {tries, tries + 1}
    BY <1>12 DEF CreateMarked, CreateFails, progress
  <2>3. tries' \in 0 .. MaxTries
    BY <2>1, <2>2
  <2> QED
    BY <1>12, <2>3 DEF CreateMarked, CreateFails, Return, TypeOK, progress
<1>13. ASSUME NEW n \in Names, Stops(n) \/ Hold(n) \/ Vanish(n) PROVE TypeOK'
  <2>1. reg' \in [Names -> Registrations \cup {Gone}]
    <3>1. CASE Stops(n)
      <4>1. reg[n] \in Registrations
        <5>1. reg[n] # Gone
          BY <3>1 DEF Stops, Gone
        <5> QED
          BY <5>1 DEF TypeOK
      <4>2. [reg[n] EXCEPT !.state = "stopped"] \in Registrations
        BY <4>1 DEF Registrations
      <4> QED
        BY <3>1, <4>2 DEF Stops, TypeOK
    <3>2. CASE Hold(n)
      <4>1. reg[n] \in Registrations
        BY <3>2 DEF Hold, TypeOK, Exists
      <4>2. [reg[n] EXCEPT !.held = ~@] \in Registrations
        BY <4>1 DEF Registrations
      <4> QED
        BY <3>2, <4>2 DEF Hold, TypeOK
    <3>3. CASE Vanish(n)
      BY <3>3 DEF Vanish, TypeOK
    <3> QED
      BY <1>13, <3>1, <3>2, <3>3
  <2> QED
    BY <1>13, <2>1 DEF Stops, Hold, Vanish, TypeOK, progress
<1>14. CASE UNCHANGED vars
  BY <1>14 DEF vars, progress, TypeOK
<1> QED
  BY <1>1, <1>2, <1>3, <1>4, <1>5, <1>6, <1>7, <1>8, <1>9, <1>10, <1>11, <1>12, <1>13, <1>14
  DEF Next, Command

\* Where the command is.
LEMMA Places == ASSUME IInv, [Next]_vars PROVE Place'
<1> USE NamesAssumption
<1> TypeOK /\ Place
  BY DEF IInv
<1>1. ASSUME NEW f \in GateFacts, NEW allow \in BOOLEAN, Install(f, allow) PROVE Place'
  BY <1>1 DEF Install, Return, Place, Removing, progress
<1>2. CASE Uninstall
  BY <1>2 DEF Uninstall, Place, Removing, progress
<1>3. CASE Connect
  BY <1>3 DEF Connect, Return, Place, Removing, progress
<1>4. CASE List
  BY <1>4 DEF List, Return, Place, Removing
<1>5. CASE ListFails
  BY <1>5 DEF ListFails, Return, Place, Removing
<1>6. ASSUME NEW n \in Names, Remove(n) PROVE Place'
  <2>1. Exists(n) => [reg[n] EXCEPT !.state = "stopping"] # Gone
    BY GoneIsNone DEF TypeOK, Exists, Registrations, Gone
  <2>2. Removing' => Exists(current)'
    BY <1>6, <2>1 DEF Remove, Removing, Exists, TypeOK
  <2> QED
    BY <1>6, <2>2 DEF Remove, Place, Removing
<1>7. CASE Poll \/ PollEnds \/ QueryFails
  BY <1>7 DEF Poll, PollEnds, QueryFails, Place, Removing, Exists, progress
<1>8. CASE Delete
  BY <1>8 DEF Delete, Place, Removing
<1>9. CASE Removed
  BY <1>9 DEF Removed, Return, Place, Removing, progress
<1>10. CASE Create
  BY <1>10 DEF Create, Return, Place, Removing, progress
<1>11. CASE CreateMarked
  <2>1. tries' < MaxTries \/ pc' = "end"
    BY <1>11 DEF CreateMarked, Return
  <2> QED
    BY <1>11, <2>1 DEF CreateMarked, Return, Place, Removing
<1>12. CASE CreateFails
  BY <1>12 DEF CreateFails, Return, Place, Removing, progress
<1>13. ASSUME NEW n \in Names, Stops(n) \/ Hold(n) \/ Vanish(n) PROVE Place'
  <2>1. Removing => Exists(current)'
    <3>1. CASE Stops(n)
      BY <3>1 DEF Stops, Place, Removing, Exists, Gone, TypeOK, progress
    <3>2. CASE Hold(n)
      BY <3>2, GoneIsNone DEF Hold, Place, Removing, Exists, Gone, TypeOK, Registrations, progress
    <3>3. CASE Vanish(n)
      BY <3>3 DEF Vanish, Open, Place, Removing, Exists, TypeOK, progress
    <3> QED
      BY <1>13, <3>1, <3>2, <3>3
  <2> QED
    BY <1>13, <2>1 DEF Stops, Hold, Vanish, Place, Removing, progress
<1>14. CASE UNCHANGED vars
  BY <1>14 DEF vars, progress, Place, Removing, Exists
<1> QED
  BY <1>1, <1>2, <1>3, <1>4, <1>5, <1>6, <1>7, <1>8, <1>9, <1>10, <1>11, <1>12, <1>13, <1>14
  DEF Next, Command

\* Every step but the creation keeps what there is.
LEMMA StepKeeps == ASSUME IInv, [Next]_vars, ~Create PROVE Keeps
<1> TypeOK /\ Place
  BY DEF IInv
<1>1. ASSUME UNCHANGED reg PROVE Keeps
  BY <1>1 DEF Keeps, Live, Exists, Place
<1>2. ASSUME NEW n \in Names, NEW r \in Registrations, reg' = [reg EXCEPT ![n] = r],
             Exists(n), r.image = reg[n].image, r.line = reg[n].line, r.guarded = reg[n].guarded,
             reg[n].marked => r.marked
      PROVE Keeps
  <2> SUFFICES ASSUME NEW m \in Names
               PROVE /\ Live(m)' => Live(m)
                     /\ reg'[m].image = reg[m].image /\ reg'[m].line = reg[m].line
                     /\ reg'[m].guarded = reg[m].guarded
                     /\ Exists(m) <=> Exists(m)'
    BY DEF Keeps, Place
  <2>1. CASE m = n
    BY <1>2, <2>1, GoneIsNone DEF TypeOK, Live, Exists
  <2>2. CASE m # n
    BY <1>2, <2>2 DEF TypeOK, Live, Exists
  <2> QED
    BY <2>1, <2>2
<1>3. ASSUME NEW n \in Names, Remove(n) PROVE Keeps
  <2>1. CASE UNCHANGED reg
    BY <2>1, <1>1
  <2>2. CASE Exists(n) /\ reg' = [reg EXCEPT ![n].state = "stopping"]
    <3>1. reg[n] \in Registrations
      BY <2>2 DEF TypeOK, Exists
    <3> DEFINE r == [reg[n] EXCEPT !.state = "stopping"]
    <3>2. r \in Registrations /\ r.image = reg[n].image /\ r.line = reg[n].line
          /\ r.guarded = reg[n].guarded /\ r.marked = reg[n].marked
      BY <3>1 DEF Registrations
    <3>3. reg' = [reg EXCEPT ![n] = r]
      BY <2>2
    <3> HIDE DEF r
    <3> QED
      BY <2>2, <3>2, <3>3, <1>2
  <2> QED
    BY <1>3, <2>1, <2>2 DEF Remove
<1>4. CASE Delete
  <2>1. current \in Names /\ Exists(current) /\ reg[current] \in Registrations
    BY <1>4 DEF Delete, TypeOK, Place, Removing, Exists
  <2>2. CASE UNCHANGED reg
    BY <2>2, <1>1
  <2>3. CASE reg' = [reg EXCEPT ![current].marked = TRUE]
    <3> DEFINE r == [reg[current] EXCEPT !.marked = TRUE]
    <3>2. r \in Registrations /\ r.image = reg[current].image /\ r.line = reg[current].line
          /\ r.guarded = reg[current].guarded /\ r.marked
      BY <2>1 DEF Registrations
    <3>3. reg' = [reg EXCEPT ![current] = r]
      BY <2>3
    <3> HIDE DEF r
    <3> QED
      BY <2>1, <3>2, <3>3, <1>2
  <2> QED
    BY <1>4, <2>2, <2>3 DEF Delete
<1>5. ASSUME NEW n \in Names, Stops(n) PROVE Keeps
  <2>1. reg[n] \in Registrations /\ Exists(n)
    <3>1. reg[n] # Gone
      BY <1>5 DEF Stops, Gone
    <3> QED
      BY <3>1 DEF TypeOK, Exists
  <2> DEFINE r == [reg[n] EXCEPT !.state = "stopped"]
  <2>2. r \in Registrations /\ r.image = reg[n].image /\ r.line = reg[n].line
        /\ r.guarded = reg[n].guarded /\ r.marked = reg[n].marked
    BY <2>1 DEF Registrations
  <2>3. reg' = [reg EXCEPT ![n] = r]
    BY <1>5 DEF Stops
  <2> HIDE DEF r
  <2> QED
    BY <2>1, <2>2, <2>3, <1>2
<1>6. ASSUME NEW n \in Names, Hold(n) PROVE Keeps
  <2>1. reg[n] \in Registrations /\ Exists(n)
    BY <1>6 DEF Hold, TypeOK, Exists
  <2> DEFINE r == [reg[n] EXCEPT !.held = ~@]
  <2>2. r \in Registrations /\ r.image = reg[n].image /\ r.line = reg[n].line
        /\ r.guarded = reg[n].guarded /\ r.marked = reg[n].marked
    BY <2>1 DEF Registrations
  <2>3. reg' = [reg EXCEPT ![n] = r]
    BY <1>6 DEF Hold
  <2> HIDE DEF r
  <2> QED
    BY <2>1, <2>2, <2>3, <1>2
<1>7. ASSUME NEW n \in Names, Vanish(n) PROVE Keeps
  <2> SUFFICES ASSUME NEW m \in Names
               PROVE /\ Live(m)' => Live(m)
                     /\ Exists(m)' => Exists(m) /\ reg'[m].image = reg[m].image
                                      /\ reg'[m].line = reg[m].line
                                      /\ reg'[m].guarded = reg[m].guarded
                     /\ Removing /\ m = current => Exists(m)'
    BY DEF Keeps
  <2>1. CASE m = n
    BY <1>7, <2>1 DEF Vanish, TypeOK, Live, Exists, Gone, Open, Removing
  <2>2. CASE m # n
    BY <1>7, <2>2 DEF Vanish, TypeOK, Live, Exists, Place
  <2> QED
    BY <2>1, <2>2
<1>8. CASE UNCHANGED vars
  BY <1>8, <1>1 DEF vars
<1> QED
  BY <1>1, <1>3, <1>4, <1>5, <1>6, <1>7, <1>8
  DEF Next, Command, Install, Uninstall, Connect, List, ListFails, Poll, PollEnds, QueryFails,
      Removed, CreateMarked, CreateFails, progress


\* The creation: one new registration of ours, under a name that was free.
LEMMA CreateAdds ==
  ASSUME IInv, Create
  PROVE /\ Live(Canonical)' /\ reg'[Canonical].image = "new"
        /\ reg'[Canonical].state # "stopping"
        /\ \A m \in Names \ {Canonical} : reg'[m] = reg[m]
<1> USE NamesAssumption
<1>1. PICK s \in {"stopped", "running"} :
        reg' = [reg EXCEPT ![Canonical] = [Created EXCEPT !.state = s]]
  BY DEF Create
<1>2. reg'[Canonical] = [Created EXCEPT !.state = s]
  BY <1>1 DEF IInv, TypeOK
<1>3. /\ reg'[Canonical].image = "new" /\ ~reg'[Canonical].marked /\ reg'[Canonical] # Gone
      /\ reg'[Canonical].state = s
  BY <1>2 DEF Created, Gone
<1> QED
  BY <1>1, <1>3 DEF Live, Exists, IInv, TypeOK

\* The list holds nothing that is not claimed.
LEMMA Lists == ASSUME IInv, [Next]_vars PROVE ListIsClaimed'
<1> USE NamesAssumption
<1> TypeOK /\ Place /\ ListIsClaimed /\ TypeOK'
  BY Types DEF IInv
<1>1. CASE Create
  <2>1. ~Removing' /\ todo' = todo
    BY <1>1 DEF Create, Return, Removing, progress
  <2>2. ASSUME NEW n \in todo, Exists(n)' PROVE n \in Prefixed \/ Mentions(n)'
    <3>1. CASE n = Canonical
      BY <3>1
    <3>2. CASE n # Canonical
      BY <1>1, <2>2, <3>2, CreateAdds DEF ListIsClaimed, Mentions, Exists, TypeOK
    <3> QED
      BY <3>1, <3>2
  <2> QED
    BY <2>1, <2>2 DEF ListIsClaimed
<1> SUFFICES ASSUME ~Create PROVE ListIsClaimed'
  BY <1>1
<1>2. \A m \in Names : Exists(m)' => /\ Exists(m) /\ (Mentions(m)' <=> Mentions(m))
                                    /\ reg'[m].guarded = reg[m].guarded
  BY StepKeeps, Same DEF Keeps
<1>3. \A m \in Names : Removing /\ m = current => Exists(m)'
  BY StepKeeps DEF Keeps
<1>4. CASE List
  <2>1. todo' \subseteq Names /\ \A n \in todo' : n \in Prefixed \/ Mentions(n)
    BY <1>4, OwnIsClaimed DEF List
  <2>2. ~Removing'
    BY <1>4 DEF List, Return, Removing
  <2> QED
    BY <1>2, <2>1, <2>2 DEF ListIsClaimed
<1>5. ASSUME NEW n \in Names, Remove(n) PROVE ListIsClaimed'
  <2>1. todo' \subseteq todo /\ current' = n /\ n \in todo
    BY <1>5 DEF Remove
  <2>2. Removing' => Exists(n) /\ ~reg[n].guarded
    BY <1>5 DEF Remove, Removing
  <2>3. Removing' => Exists(n)'
    BY <2>1, Places DEF Place
  <2> QED
    BY <1>2, <2>1, <2>2, <2>3 DEF ListIsClaimed, TypeOK
<1>6. ASSUME todo' = todo, current' = current, Removing' => Removing PROVE ListIsClaimed'
  BY <1>2, <1>3, <1>6 DEF ListIsClaimed, TypeOK
<1> QED
  BY <1>4, <1>5, <1>6
  DEF Next, Command, vars, progress, Removing, Return, Install, Uninstall, Connect, ListFails,
      Poll, PollEnds, QueryFails, Delete, Removed, CreateMarked, CreateFails, Stops, Hold, Vanish

\* Only what is claimed is stopped or deleted.
LEMMA TouchesClaimed ==
  ASSUME IInv, [Next]_vars, NEW m \in Names, Touched(m)
  PROVE  ~reg[m].guarded /\ (m \in Prefixed \/ Mentions(m))
<1> USE NamesAssumption
<1> TypeOK /\ Place /\ ListIsClaimed
  BY DEF IInv
<1>1. reg'[m] # reg[m] /\ Exists(m)
  BY DEF Touched
<1>2. ASSUME NEW n \in Names, Remove(n)
      PROVE  ~reg[m].guarded /\ (m \in Prefixed \/ Mentions(m))
  <2>1. m = n
    BY <1>1, <1>2 DEF Remove, TypeOK
  <2>2. n \in todo /\ ~reg[n].guarded
    BY <1>1, <1>2 DEF Remove
  <2> QED
    BY <1>1, <2>1, <2>2 DEF ListIsClaimed
<1>3. CASE Delete
  <2>1. m = current /\ Removing
    BY <1>1, <1>3 DEF Delete, TypeOK, Removing
  <2> QED
    BY <2>1 DEF ListIsClaimed
<1>4. ~Create
  BY <1>1, CreateAdds DEF Create, Touched
<1>5. ASSUME NEW n \in Names, Stops(n) \/ Hold(n) \/ Vanish(n) PROVE FALSE
  <2>1. m = n
    BY <1>1, <1>5 DEF Stops, Hold, Vanish, TypeOK
  <2>2. CASE Vanish(n)
    BY <2>1, <2>2 DEF Vanish, Touched, Gone, TypeOK
  <2>3. reg[m] \in Registrations
    BY <1>1 DEF TypeOK, Exists
  <2>4. CASE Stops(n)
    <3>1. reg'[m] = [reg[m] EXCEPT !.state = "stopped"]
      BY <2>1, <2>4 DEF Stops, TypeOK
    <3> QED
      BY <2>3, <3>1 DEF Touched, Registrations
  <2>5. CASE Hold(n)
    <3>1. reg'[m] = [reg[m] EXCEPT !.held = ~@]
      BY <2>1, <2>5 DEF Hold, TypeOK
    <3> QED
      BY <2>3, <3>1 DEF Touched, Registrations
  <2> QED
    BY <1>5, <2>2, <2>4, <2>5
<1> QED
  BY <1>1, <1>2, <1>3, <1>4, <1>5
  DEF Next, Command, vars, progress, Return, Install, Uninstall, Connect, List, ListFails,
      Poll, PollEnds, QueryFails, Removed, CreateMarked, CreateFails

\* What the command has to do shrinks only by what it has done.
LEMMA Clears == ASSUME IInv, [Next]_vars PROVE Cleared'
<1> USE NamesAssumption
<1> TypeOK /\ Place /\ Cleared /\ TypeOK'
  BY Types DEF IInv
<1>1. CASE Create
  <2>1. /\ pc = "create" /\ pc' = "end" /\ outcome' = "installed"
        /\ listed' = listed /\ failed' = failed /\ todo' = todo
    BY <1>1 DEF Create, Return, progress
  <2>2. ASSUME listed, NEW n \in Names \ {Canonical}, Live(n)' PROVE PassedOver(n)' \/ n \in failed'
    <3>1. Live(n) /\ (PassedOver(n) => PassedOver(n)')
      BY <1>1, <2>2, CreateAdds, Same DEF Live, Exists
    <3> QED
      BY <2>1, <2>2, <3>1 DEF Cleared, Due, Removing
  <2> QED
    BY <1>1, <2>1, <2>2, CreateAdds DEF Cleared
<1> SUFFICES ASSUME ~Create PROVE Cleared'
  BY <1>1
<1>2. \A m \in Names :
        Live(m)' => /\ Live(m)
                    /\ reg'[m].image = reg[m].image
                    /\ PassedOver(m) => PassedOver(m)'
  <2> SUFFICES ASSUME NEW m \in Names, Live(m)'
               PROVE  Live(m) /\ reg'[m].image = reg[m].image /\ (PassedOver(m) => PassedOver(m)')
    OBVIOUS
  <2>1. Live(m) /\ Exists(m)'
    BY StepKeeps DEF Keeps, Live
  <2> QED
    BY <2>1, StepKeeps, Same DEF Keeps
<1>3. CASE List
  <2>1. ASSUME NEW n \in Names, Live(n)' PROVE PassedOver(n)' \/ n \in todo'
    BY <1>2, <1>3, <2>1, OtherIsPassedOver DEF List, Live
  <2>2. outcome' \in {"none", "not found"} /\ pc' \in {"next", "end"}
    BY <1>3 DEF List, Return, Place, TypeOK
  <2> QED
    BY <2>1, <2>2 DEF Cleared, Due
<1>4. ASSUME NEW n \in Names, Remove(n) PROVE Cleared'
  <2>1. pc = "next" /\ pc' \in {"next", "poll", "delete"} /\ outcome = "none" /\ outcome' = "none"
    BY <1>4 DEF Remove, Place, TypeOK
  <2>2. ASSUME NEW m \in Names, Live(m)', m \in Due PROVE m \in Due'
    BY <1>2, <1>4, <2>1, <2>2 DEF Remove, Due, Removing, Live
  <2> QED
    BY <1>2, <2>1, <2>2 DEF Cleared, Place
<1>5. CASE Delete
  <2>1. pc = "delete" /\ pc' = "next" /\ outcome = "none" /\ outcome' = "none"
    BY <1>5 DEF Delete, Place, TypeOK
  <2>2. \/ failed' = failed \cup {current}
        \/ ~Live(current)' /\ failed' = failed
    <3>1. CASE failed' = failed /\ reg' = [reg EXCEPT ![current].marked = TRUE]
      <4>1. reg[current] \in Registrations
        BY <2>1 DEF TypeOK, Place, Removing, Exists
      <4>2. reg'[current].marked
        BY <3>1, <4>1 DEF TypeOK, Registrations
      <4>3. current' = current
        BY <1>5 DEF Delete
      <4> QED
        BY <3>1, <4>2, <4>3 DEF Live
    <3> QED
      BY <1>5, <3>1 DEF Delete, DeleteFailed
  <2>3. ASSUME NEW m \in Names, Live(m)', m \in Due PROVE m \in Due'
    BY <1>5, <2>1, <2>2, <2>3 DEF Delete, Due, Removing, Live, Exists
  <2> QED
    BY <1>2, <2>1, <2>3 DEF Cleared, Place
<1>6. CASE Removed
  <2>1. command = "install" => pc' = "create" /\ outcome' = outcome
    BY <1>6 DEF Removed
  <2>2. command # "install" =>
           pc' = "end" /\ outcome' = IF failed = {} THEN "uninstalled" ELSE "error"
    BY <1>6 DEF Removed, Return
  <2>3. /\ pc = "next" /\ todo = {}
        /\ listed' = listed /\ failed' = failed /\ todo' = todo
    BY <1>6 DEF Removed, progress
  <2>4. outcome = "none" /\ listed
    BY <2>3 DEF Place, TypeOK
  <2>5. \A m \in Names : Live(m) => PassedOver(m) \/ m \in failed
    BY <2>3, <2>4 DEF Cleared, Due, Removing
  <2> QED
    BY <1>2, <2>1, <2>2, <2>3, <2>4, <2>5 DEF Cleared, Due
<1>7. ASSUME outcome' \notin {"installed", "uninstalled"},
             listed' /\ pc' \in {"next", "poll", "delete", "create"} =>
               /\ listed /\ pc \in {"next", "poll", "delete", "create"}
               /\ Due' = Due /\ todo' = todo
               /\ pc' = "create" => pc = "create"
      PROVE Cleared'
  BY <1>2, <1>7 DEF Cleared
<1>8. ASSUME NEW f \in GateFacts, NEW allow \in BOOLEAN, Install(f, allow) PROVE Cleared'
  BY <1>7, <1>8 DEF Install, Return, Place, TypeOK
<1>9. CASE Uninstall \/ Connect \/ ListFails
  BY <1>7, <1>9 DEF Uninstall, Connect, ListFails, Return, Place, TypeOK
<1>10. CASE Poll \/ PollEnds \/ QueryFails
  <2>1. Due' = Due
    BY <1>10 DEF Poll, PollEnds, QueryFails, Due, Removing, progress
  <2> QED
    BY <1>7, <1>10, <2>1 DEF Poll, PollEnds, QueryFails, Place, TypeOK, progress
<1>11. CASE CreateMarked \/ CreateFails
  <2>1. pc' # "end" => Due' = Due
    BY <1>11 DEF CreateMarked, CreateFails, Return, Due, Removing, progress
  <2> QED
    BY <1>7, <1>11, <2>1 DEF CreateMarked, CreateFails, Return, Place, TypeOK, progress
<1>12. ASSUME UNCHANGED <<pc, progress, outcome>>, Live(Canonical) => Live(Canonical)' PROVE Cleared'
  <2>1. Due' = Due
    BY <1>12 DEF Due, Removing, progress
  <2> QED
    BY <1>2, <1>12, <2>1 DEF Cleared, progress
<1>13. ASSUME NEW n \in Names, Stops(n) \/ Hold(n) \/ Vanish(n)
       PROVE Live(Canonical) => Live(Canonical)'
  <2> SUFFICES ASSUME Live(Canonical) PROVE Live(Canonical)'
    OBVIOUS
  <2>1. reg[Canonical] \in Registrations
    BY DEF Live, Exists, TypeOK
  <2>2. CASE n # Canonical
    BY <1>13, <2>2 DEF Stops, Hold, Vanish, Live, Exists, TypeOK
  <2>3. CASE n = Canonical
    <3>1. ~Vanish(n)
      BY <2>3 DEF Vanish, Live
    <3>2. reg'[Canonical] \in Registrations /\ ~reg'[Canonical].marked
      <4>1. CASE Stops(n)
        BY <2>1, <2>3, <4>1 DEF Stops, Live, TypeOK, Registrations
      <4>2. CASE Hold(n)
        BY <2>1, <2>3, <4>2 DEF Hold, Live, TypeOK, Registrations
      <4> QED
        BY <1>13, <3>1, <4>1, <4>2
    <3> QED
      BY <3>2, GoneIsNone DEF Live, Exists
  <2> QED
    BY <2>2, <2>3
<1>14. ASSUME NEW n \in Names, Stops(n) \/ Hold(n) \/ Vanish(n) PROVE Cleared'
  BY <1>12, <1>13, <1>14 DEF Stops, Hold, Vanish
<1>15. CASE UNCHANGED vars
  BY <1>12, <1>15 DEF vars, Live, Exists
<1> QED
  BY <1>3, <1>4, <1>5, <1>6, <1>8, <1>9, <1>10, <1>11, <1>14, <1>15 DEF Next, Command

-----------------------------------------------------------------------------
(* The theorems.                                                           *)

\* The inductive invariant.
THEOREM Invariant == Spec => []IInv
<1>1. IInv /\ [Next]_vars => IInv'
  BY Types, Places, Lists, Clears DEF IInv
<1> QED
  BY Start, <1>1, PTL DEF Spec

\* Types.
THEOREM TypeCorrect == Spec => []TypeOK
<1>1. IInv => TypeOK
  BY DEF IInv
<1> QED
  BY Invariant, <1>1, PTL

\* Only a registration that can be opened and is claimed, by its name or by its command
\* line, is ever stopped or deleted, whatever changes hands, hangs or fails between the
\* enumeration and the removal.
THEOREM TouchesOnlyClaimed == Spec => OnlyClaimedTouched
<1> DEFINE Claims ==
      \A n \in Names : Touched(n) => ~reg[n].guarded /\ (n \in Prefixed \/ Mentions(n))
<1>1. IInv /\ [Next]_vars => [Claims]_vars
  BY TouchesClaimed
<1>2. [][Claims]_vars => OnlyClaimedTouched
  BY DEF OnlyClaimedTouched
<1> QED
  BY Invariant, <1>1, <1>2, PTL DEF Spec

\* An install that met no failure leaves the new registration as the only one.
THEOREM InstallReplaces == Spec => []InstalledIsAlone
<1>1. IInv => InstalledIsAlone
  BY DEF IInv, Cleared, InstalledIsAlone, PassedOver
<1> QED
  BY Invariant, <1>1, PTL

\* An uninstall that reports success has removed every registration.
THEOREM UninstallRemovesAll == Spec => []UninstallIsComplete
<1>1. IInv => UninstallIsComplete
  BY DEF IInv, Cleared, UninstallIsComplete, PassedOver
<1> QED
  BY Invariant, <1>1, PTL


-----------------------------------------------------------------------------
(* That the command is bounded: every step of it lessens what is ahead.    *)

\* The stages still ahead.
Stage ==
  CASE pc = "idle" -> 5 [] pc = "connect" -> 4 [] pc = "list" -> 3
    [] pc \in {"next", "poll", "delete"} -> 2 [] pc = "create" -> 1 [] OTHER -> 0

\* The steps ahead before the stage or the list changes.
Within ==
  CASE pc = "poll" -> 2 + (MaxPolls - polls) [] pc = "delete" -> 1
    [] pc = "create" -> MaxTries - tries [] OTHER -> 0

\* Stage, list and steps as one order; it is well-founded as the names are finitely many.
Nearer ==
  \/ Stage' < Stage
  \/ Stage' = Stage /\ todo' \subseteq todo /\ todo' # todo
  \/ Stage' = Stage /\ todo' = todo /\ Within' < Within

\* Nothing is counted below zero.
LEMMA Counted == ASSUME IInv PROVE Stage \in Nat /\ Within \in Nat
<1>1. Stage \in Nat
  BY DEF Stage
<1>2. polls \in 0 .. MaxPolls /\ tries \in 0 .. MaxTries /\ MaxPolls \in Nat /\ MaxTries \in Nat
  BY NamesAssumption DEF IInv, TypeOK
<1>3. Within \in Nat
  BY <1>2 DEF Within
<1> QED
  BY <1>1, <1>3

\* Each step of the command lessens it.
LEMMA CommandAdvances == ASSUME IInv, Command \/ QueryFails PROVE Nearer
<1> USE NamesAssumption
<1> TypeOK
  BY DEF IInv
<1>1. CASE Connect
  BY <1>1 DEF Connect, Return, Nearer, Stage
<1>2. CASE List
  <2>1. pc = "list" /\ pc' \in {"next", "end"}
    BY <1>2 DEF List, Return
  <2> QED
    BY <2>1 DEF Nearer, Stage
<1>3. CASE ListFails
  BY <1>3 DEF ListFails, Return, Nearer, Stage
<1>4. ASSUME NEW n \in Names, Remove(n) PROVE Nearer
  <2>1. pc = "next" /\ pc' \in {"next", "poll", "delete"}
    BY <1>4 DEF Remove
  <2>2. todo' \subseteq todo /\ todo' # todo
    BY <1>4 DEF Remove
  <2> QED
    BY <2>1, <2>2 DEF Nearer, Stage
<1>5. CASE Poll
  <2>0. polls \in 0 .. MaxPolls
    BY DEF TypeOK
  <2>1. polls \in 0 .. MaxPolls /\ polls < MaxPolls
    BY <1>5, <2>0 DEF Poll, Deadline
  <2>2. pc = "poll" /\ pc' = pc /\ todo' = todo
        /\ polls' = IF polls < MaxPolls THEN polls + 1 ELSE polls
    BY <1>5 DEF Poll
  <2>3. polls' = polls + 1
    BY <2>1, <2>2
  <2> QED
    BY <2>1, <2>2, <2>3 DEF Nearer, Stage, Within
<1>6. CASE PollEnds \/ QueryFails
  <2>1. polls \in 0 .. MaxPolls
    BY DEF TypeOK
  <2>2. pc = "poll" /\ pc' = "delete" /\ todo' = todo
    BY <1>6 DEF PollEnds, QueryFails, progress
  <2> QED
    BY <2>1, <2>2 DEF Nearer, Stage, Within
<1>7. CASE Delete
  BY <1>7 DEF Delete, Nearer, Stage, Within
<1>8. CASE Removed
  BY <1>8 DEF Removed, Return, Nearer, Stage
<1>9. CASE Create \/ CreateFails
  BY <1>9 DEF Create, CreateFails, Return, Nearer, Stage
<1>10. CASE CreateMarked
  <2>1. tries \in 0 .. MaxTries /\ tries' = tries + 1 /\ pc = "create" /\ todo' = todo
    BY <1>10 DEF CreateMarked, TypeOK
  <2>2. pc' \in {"create", "end"}
    BY <1>10 DEF CreateMarked, Return
  <2> QED
    BY <2>1, <2>2 DEF Nearer, Stage, Within
<1> QED
  BY <1>1, <1>2, <1>3, <1>4, <1>5, <1>6, <1>7, <1>8, <1>9, <1>10 DEF Command

\* From the connection to the return every step of a command takes it nearer to its end,
\* whatever is stuck, held or marked, and nobody else's step takes it back: what
\* CommandEnds needs besides that the command goes on.
THEOREM CommandIsBounded ==
  Spec => [][/\ Command \/ QueryFails => Nearer
             /\ ~Nearer => UNCHANGED <<pc, progress>>]_vars
<1> DEFINE Bounded ==
      /\ Command \/ QueryFails => Nearer
      /\ ~Nearer => UNCHANGED <<pc, progress>>
<1>1. ASSUME IInv, [Next]_vars PROVE [Bounded]_vars
  <2>1. CASE Command \/ QueryFails
    BY <1>1, <2>1, CommandAdvances
  <2>2. ASSUME NEW f \in GateFacts, NEW allow \in BOOLEAN, Install(f, allow) PROVE Nearer
    BY <2>2 DEF Install, Return, Nearer, Stage
  <2>3. CASE Uninstall
    BY <2>3 DEF Uninstall, Nearer, Stage
  <2>4. ASSUME NEW n \in Names, Stops(n) \/ Hold(n) \/ Vanish(n) PROVE UNCHANGED <<pc, progress>>
    BY <2>4 DEF Stops, Hold, Vanish
  <2> QED
    BY <1>1, <2>1, <2>2, <2>3, <2>4 DEF Next
<1> HIDE DEF Bounded
<1>2. Spec => [][Bounded]_vars
  BY <1>1, Invariant, PTL DEF Spec
<1> QED
  BY <1>2 DEF Bounded

=============================================================================
