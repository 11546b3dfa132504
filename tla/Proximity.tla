----------------------------- MODULE Proximity -----------------------------
(***************************************************************************)
(* Who talks to whom: the tick's zone detection and proximity clustering,  *)
(* which keep, per player, the zones the player is in and the proximity    *)
(* A/V group (a LiveKit room) the player was last told to join.            *)
(*                                                                         *)
(* proximity.join and proximity.leave are published exactly when           *)
(* currentProximityGroup changes, so group is also what a browser that     *)
(* gets every event is connected to.                                       *)
(*                                                                         *)
(* Abstracted: feet positions to cells on a strip; currentZones to the     *)
(* proximity zones of others and whether any zone is av_enabled; a group   *)
(* id, a hash of its first members, to the set of those members; Available *)
(* and Busy to "not in dnd".  TickCount % 5 is a choice of the tick.       *)
(***************************************************************************)
EXTENDS Integers

CONSTANTS
  Players,                       \* entity ids, numbered in their sort order
  Maps, LastCell,
  Places,                        \* where players can be
  AvEnabled,                     \* places inside an av_enabled zone
  proximityRadius, proximityExitRadius,
  proximityStationaryThreshold,
  Portals,                       \* places a map transition leads to
  DndUsers,                      \* players who ever choose DoNotDisturb
  None

Place == [map: Maps, cell: 0..LastCell]
NoGroup == {}

ASSUME ProximityAssumption ==
  /\ Players \subseteq Nat
  /\ Places \subseteq Place
  /\ AvEnabled \subseteq Places
  /\ proximityRadius \in Nat /\ proximityExitRadius \in Nat
  /\ proximityRadius < proximityExitRadius
  /\ proximityStationaryThreshold \in Nat \ {0}
  /\ Portals \subseteq Places
  /\ DndUsers \subseteq Players
  /\ None \notin Place

VARIABLES
  place,       \* Position of each connected player's entity, or None
  nearby,      \* currentZones: whose "prox-" zones the player is in
  inAvZone,    \* currentZones: players in some av_enabled zone
  stationary,  \* stationaryTicks, up to the threshold; Dirty: dirtyPosition
  dnd,         \* players whose Status is DoNotDisturb
  group        \* currentProximityGroup, or NoGroup

vars == <<place, nearby, inAvZone, stationary, dnd, group>>

Dirty == -1

\* Types; and a room has the name of a circle of two or more.
TypeOK ==
  /\ place \in [Players -> Places \cup {None}]
  /\ nearby \in [Players -> SUBSET Players]
  /\ inAvZone \subseteq Players
  /\ stationary \in [Players -> Dirty..proximityStationaryThreshold]
  /\ dnd \subseteq Players
  /\ group \in [Players -> SUBSET Players]
  /\ \A e, f \in Players : group[e] # {f}

Init ==
  /\ place = [e \in Players |-> None]
  /\ nearby = [e \in Players |-> {}]
  /\ inAvZone = {}
  /\ stationary = [e \in Players |-> 0]
  /\ dnd = {}
  /\ group = [e \in Players |-> NoGroup]

Live(e) == place[e] # None

\* Distances know coordinates only.
Within(e, f, radius) ==
  /\ place[e].cell - place[f].cell <= radius
  /\ place[f].cell - place[e].cell <= radius

-----------------------------------------------------------------------------
(* MovementSystem and ZoneSystem, the first two steps of a tick.           *)

\* updateStationaryTicks; replication clears dirtyPosition before the next.
Ticked(e) ==
  IF ~Live(e) THEN 0
  ELSE IF stationary[e] < proximityStationaryThreshold THEN stationary[e] + 1
  ELSE stationary[e]

\* The proximity zones e is in: those ZonesAtPoint finds on e's map, and
\* those e was in whose owner's feet are not beyond the exit radius.
ZonesAround(e) ==
  {f \in Players \ {e} :
     /\ Live(e) /\ Live(f)
     /\ \/ place[e].map = place[f].map /\ Within(e, f, proximityRadius)
        \/ f \in nearby[e] /\ Within(e, f, proximityExitRadius)}

AvZones == {e \in Players : Live(e) /\ place[e] \in AvEnabled}

-----------------------------------------------------------------------------
(* ProximitySystem, over the zones the tick has just found.                *)

Candidates(av) == {e \in Players : Live(e) /\ e \notin dnd /\ e \notin av}

Linked(near, a, b) == a # b /\ (b \in near[a] \/ a \in near[b])

\* The connected component of e in the graph of P and its links.
Closed(near, P, S) == \A a \in S, b \in P : Linked(near, a, b) => b \in S
Circle(near, P, e) ==
  LET closed == {S \in SUBSET P : e \in S /\ Closed(near, P, S)} IN
  {f \in P : \A S \in closed : f \in S}

Least(S) == CHOOSE e \in S : \A f \in S : e <= f

\* Mutant: every circle gets the id of its present members.
GroupOfRehashed(C, ticks, e) ==
  IF C = {e} THEN NoGroup
  ELSE IF \A f \in C : ticks[f] = proximityStationaryThreshold \/ group[f] # NoGroup THEN C
  ELSE NoGroup

\* Mutant: who has a group keeps it.
GroupOfOwn(C, ticks, e) ==
  LET grouped == {f \in C : group[f] # NoGroup} IN
  IF C = {e} THEN NoGroup
  ELSE IF group[e] # NoGroup THEN group[e]
  ELSE IF grouped # {} THEN group[Least(grouped)]
  ELSE IF \A f \in C : ticks[f] = proximityStationaryThreshold THEN C
  ELSE NoGroup

\* Mutant: a player alone is a circle like any other.
GroupOfAlone(C, ticks, e) ==
  LET grouped == {f \in C : group[f] # NoGroup} IN
  IF grouped # {} THEN group[Least(grouped)]
  ELSE IF \A f \in C : ticks[f] = proximityStationaryThreshold THEN C
  ELSE NoGroup

\* The group id of circle C (of e): the id its first member with one has, a
\* new one if all stand still, and none for a player alone.
GroupOf(C, ticks, e) ==
  LET grouped == {f \in C : group[f] # NoGroup} IN
  IF C = {e} THEN NoGroup
  ELSE IF grouped # {} THEN group[Least(grouped)]
  ELSE IF \A f \in C : ticks[f] = proximityStationaryThreshold THEN C
  ELSE NoGroup

\* Mutant: one tick more than the count reaches is asked for.
AssignedLate(near, av, ticks, e) ==
  IF group[e] = NoGroup /\ ticks[e] <= proximityStationaryThreshold THEN NoGroup
  ELSE GroupOf(Circle(near, Candidates(av), e), ticks, e)

\* Who moves joins no group: the next clustering tries again.
Assigned(near, av, ticks, e) ==
  IF group[e] = NoGroup /\ ticks[e] < proximityStationaryThreshold THEN NoGroup
  ELSE GroupOf(Circle(near, Candidates(av), e), ticks, e)

\* Mutant: the loop over the players in av_enabled zones is missing.
ClusteredOnce(near, av, ticks) ==
  [e \in Players |-> IF e \in Candidates(av) THEN Assigned(near, av, ticks, e) ELSE group[e]]

\* Players in an av_enabled zone leave their group; do-not-disturb players
\* are looked at by neither loop.
Clustered(near, av, ticks) ==
  [e \in Players |->
     IF e \in Candidates(av) THEN Assigned(near, av, ticks, e)
     ELSE IF e \in av \ dnd THEN NoGroup
     ELSE group[e]]

-----------------------------------------------------------------------------
(* The tick, under s.mu from the stationary ticks on.  (runMovement moves  *)
(* the players one by one before; nothing reads them until it is done.)    *)
Tick(clustering) ==
  /\ stationary' = [e \in Players |-> Ticked(e)]
  /\ nearby' = [e \in Players |-> ZonesAround(e)]
  /\ inAvZone' = AvZones
  /\ group' = IF clustering THEN Clustered(nearby', inAvZone', stationary') ELSE group
  /\ UNCHANGED <<place, dnd>>

\* runMovement with input, possibly against a wall, or a same-map teleport.
Move(e, q) ==
  /\ Live(e) /\ place[e].map = q.map
  /\ place' = [place EXCEPT ![e] = q]
  /\ stationary' = [stationary EXCEPT ![e] = Dirty]
  /\ UNCHANGED <<nearby, inAvZone, dnd, group>>

\* PortalSystem.transition: currentZones is cleared, the group is not.
Transition(e, q) ==
  /\ Live(e) /\ q \in Portals
  /\ place' = [place EXCEPT ![e] = q]
  /\ stationary' = [stationary EXCEPT ![e] = Dirty]
  /\ nearby' = [nearby EXCEPT ![e] = {}]
  /\ inAvZone' = inAvZone \ {e}
  /\ UNCHANGED <<dnd, group>>

\* provisionClient: a new entity, with the status of the user's record.
Connect(e, q) ==
  /\ ~Live(e)
  /\ place' = [place EXCEPT ![e] = q]
  /\ \/ UNCHANGED dnd
     \/ e \in DndUsers /\ dnd' = dnd \cup {e}
  /\ UNCHANGED <<nearby, inAvZone, stationary, group>>

\* despawnClientLocked publishes proximity.leave; the entity is gone, but
\* not from the others' currentZones.
Disconnect(e) ==
  /\ Live(e)
  /\ place' = [place EXCEPT ![e] = None]
  /\ nearby' = [nearby EXCEPT ![e] = {}]
  /\ inAvZone' = inAvZone \ {e}
  /\ stationary' = [stationary EXCEPT ![e] = 0]
  /\ dnd' = dnd \ {e}
  /\ group' = [group EXCEPT ![e] = NoGroup]

\* handleSetStatus
SetStatus(e) ==
  /\ Live(e) /\ e \in DndUsers
  /\ dnd' = IF e \in dnd THEN dnd \ {e} ELSE dnd \cup {e}
  /\ UNCHANGED <<place, nearby, inAvZone, stationary, group>>

Next ==
  \/ \E clustering \in BOOLEAN : Tick(clustering)
  \/ \E e \in Players :
       \/ Disconnect(e)
       \/ SetStatus(e)
       \/ \E q \in Places :
            \/ Move(e, q)
            \/ Transition(e, q)
            \/ Connect(e, q)

Spec == Init /\ [][Next]_vars

\* The ticker fires, and every fifth tick clusters.
FairSpec == Spec /\ WF_vars(Tick(TRUE))

-----------------------------------------------------------------------------
(* Properties.                                                             *)

\* A clustering leaves no two players who are linked, and so in one circle,
\* in different rooms (one of them may not be in a room yet).  Holds however
\* circles merge, split, or lose the member that named them.
Discordant(near, av, gs) ==
  \E e, f \in Candidates(av) :
    gs[e] # gs[f] /\ NoGroup \notin {gs[e], gs[f]} /\ Linked(near, e, f)
CirclesAgree == [][Discordant(nearby', inAvZone', group') => ~Tick(TRUE)]_vars

\* A player in a room stays in it when people join or leave the circle ("only
\* the joining/leaving player gets an event"): the room of someone who is
\* not alone nor in an A/V zone changes only when the circle brings together
\* players of different rooms.
RoomsAreStable ==
  [][\A e \in Candidates(inAvZone') :
       place'[e] # None /\ group[e] # NoGroup /\ group'[e] # group[e] =>
         LET C == Circle(nearby', Candidates(inAvZone'), e) IN
         C = {e} \/ \E f \in C : group[f] \notin {NoGroup, group[e]}]_vars

\* Two available players who stand within the radius of each other, in a
\* circle that stands still, end up in one room, whatever groups they and
\* the others were in before.
Together(e, f) ==
  /\ e # f /\ Live(e) /\ Live(f)
  /\ place[e].map = place[f].map /\ Within(e, f, proximityRadius)
  /\ LET P == {p \in Players \ dnd : Live(p) /\ place[p] \notin AvEnabled} IN
     /\ {e, f} \subseteq P
     /\ \A p \in P : stationary[p] = proximityStationaryThreshold
StandingTogether ==
  \A e, f \in Players :
    <>[]Together(e, f) => <>[](group[e] = group[f] /\ group[e] # NoGroup)

\* An available player in an av_enabled zone, or with nobody within the exit
\* radius (of the coordinates, whatever the map), is in no group for long.
Alone(e) ==
  /\ Live(e) /\ e \notin dnd
  /\ \/ place[e] \in AvEnabled
     \/ \A f \in Players \ {e} : Live(f) => ~Within(e, f, proximityExitRadius)
AloneLeaves == \A e \in Players : []<>(~Alone(e) \/ group[e] = NoGroup)

\* Do not disturb: the player leaves the room.
DndLeaves == \A e \in Players : []<>(e \notin dnd \/ group[e] = NoGroup)
=============================================================================
