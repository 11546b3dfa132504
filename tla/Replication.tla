---------------------------- MODULE Replication ----------------------------
(***************************************************************************)
(* What each browser shows of the world: the tick's replication batches,   *)
(* filtered by map and area of interest, the map transitions, and the      *)
(* scene that applies them.                                                *)
(*                                                                         *)
(* worldsim keeps, per entity, the clients it was spawned to, and sends    *)
(* spawns, updates and destroys from these books alone; the browser never  *)
(* reports what it has.  Frames of a client travel in order on one subject,*)
(* so a frame is applied when it is published.  There are four windows in  *)
(* which a tick can fall, and Windows says which of them are considered:   *)
(*   "auth"    between provisioning a client and its AuthResult            *)
(*   "frame"   between a teleport handler's unlock and its MapTransition   *)
(*   "load"    while the browser loads the assets of another map           *)
(* and "return" lets an entity be back on the map it left (or never leave  *)
(* it) before the tick that announces its departure.  What a browser loses *)
(* by each of them is in the history variable `dropped`, pair by pair,     *)
(* until a batch makes up for it.                                          *)
(*                                                                         *)
(* Abstracted: positions to cells of the AOI grid, on a strip; entities to *)
(* avatars; components other than the position.  A client id is never used *)
(* again, so the entries of an ended one are dropped from the books.  One  *)
(* map transition per player at a time: the next waits for the load.       *)
(***************************************************************************)
EXTENDS Integers

CONSTANTS
  Players,            \* an entity and the client that plays it
  Maps,
  LastCell,           \* cells of a map: 0..LastCell
  aoiSubscribeRadius, aoiUnsubscribeRadius,
  Windows,
  None

ASSUME ReplicationAssumption ==
  /\ LastCell \in Nat
  /\ aoiSubscribeRadius \in Nat /\ aoiUnsubscribeRadius \in Nat
  /\ aoiSubscribeRadius < aoiUnsubscribeRadius
  /\ Windows \subseteq {"auth", "frame", "load", "return"}
  /\ None \notin Players
  /\ None \notin [map: Maps, cell: 0..LastCell]

VARIABLES
  place,      \* Position of each live entity, or None
  spawnedTo,  \* e.spawnedTo: the clients that were sent a SpawnEntity for e
  dirty,      \* entities with dirtyPosition
  destroyed,  \* s.destroyedEntities: ids to announce in the next tick
  unsent,     \* the player a goroutine has moved but not yet told so
  scene,      \* the browser of each player
  dropped     \* history: <<c, e>> since c was sent something of e that it did not apply

vars == <<place, spawnedTo, dirty, destroyed, unsent, scene, dropped>>

Cells == 0..LastCell
Place == [map: Maps, cell: Cells]
Avatars == [Players -> Place \cup {None}]
NoAvatars == [e \in Players |-> None]

\* The goroutines that move players to other maps: the tick (portal zones)
\* and the worldsim.entity.teleport subscription.
Movers == {"tick", "teleport"}

\* "first" and "again": a new page, or a reconnecting one, awaits AuthResult.
\* While a scene is loading, its avatars are those it will start with, pendingSpawns.
Phases == {"off", "first", "again", "live", "loading"}
Scene == [phase: Phases, avatars: Avatars]

NewScene(phase) == [phase |-> phase, avatars |-> NoAvatars]

TypeOK ==
  /\ place \in Avatars
  /\ spawnedTo \in [Players -> SUBSET Players]
  /\ dirty \subseteq Players
  /\ destroyed \subseteq Players
  /\ unsent \in [Movers -> Players \cup {None}]
  /\ scene \in [Players -> Scene]
  /\ dropped \subseteq Players \X Players

Init ==
  /\ place = NoAvatars
  /\ spawnedTo = [e \in Players |-> {}]
  /\ dirty = {}
  /\ destroyed = {}
  /\ unsent = [w \in Movers |-> None]
  /\ scene = [c \in Players |-> NewScene("off")]
  /\ dropped = {}

Live(p) == place[p] # None
SameMap(c, e) == place[c].map = place[e].map

\* AOIGrid.EntitiesInRadius
Near(c, e, radius) ==
  /\ place[e].cell - place[c].cell <= radius
  /\ place[c].cell - place[e].cell <= radius

-----------------------------------------------------------------------------
(* The batch replicateToClient builds for client c.                        *)

\* Mutant: what was spawned once stays until it leaves the map.
SpawnedLingers(c) ==
  {e \in Players :
     /\ Live(e) /\ SameMap(c, e)
     /\ e = c \/ c \in spawnedTo[e] \/ Near(c, e, aoiSubscribeRadius)}

\* The entities c has been sent after this batch: its own, and those on its
\* map in the unsubscribe radius that were spawned to it before, or are
\* in the subscribe radius.
Spawned(c) ==
  {e \in Players :
     /\ Live(e) /\ SameMap(c, e)
     /\ \/ e = c
        \/ /\ Near(c, e, aoiUnsubscribeRadius)
           /\ c \in spawnedTo[e] \/ Near(c, e, aoiSubscribeRadius)}

Spawns(c) == {e \in Spawned(c) : c \notin spawnedTo[e]}
Updates(c) == {e \in Spawned(c) : c \in spawnedTo[e] /\ e \in dirty}

\* Entities on c's map that left the unsubscribe radius ...
OutOfRange(c) ==
  {e \in Players : Live(e) /\ SameMap(c, e) /\ c \in spawnedTo[e]} \ Spawned(c)

\* ... and what was destroyed, unless it is (again) on c's map.
Destroys(c) == OutOfRange(c) \cup {e \in destroyed : ~(Live(e) /\ SameMap(c, e))}

\* Mutant: spawns during a load are dropped.
AppliedUnbuffered(c) ==
  IF scene[c].phase = "loading" THEN scene[c]
  ELSE [scene[c] EXCEPT !.avatars = [e \in Players |->
          IF e \in Destroys(c) THEN None
          ELSE IF e \in Updates(c) /\ @[e] # None THEN place[e]
          ELSE IF e \in Spawns(c) /\ @[e] = None THEN place[e]
          ELSE @[e]]]

\* handleReplication: a scene spawns what it does not have, then updates and
\* destroys what it has; one that is loading keeps the spawns, the first of
\* each entity, and drops the rest.
Applied(c) ==
  LET loading == scene[c].phase = "loading"
      spawns == Spawns(c)
      updates == IF loading THEN {} ELSE Updates(c)
      destroys == IF loading THEN {} ELSE Destroys(c)
  IN  [scene[c] EXCEPT !.avatars = [e \in Players |->
         IF e \in destroys THEN None
         ELSE IF e \in updates /\ @[e] # None THEN place[e]
         ELSE IF e \in spawns /\ @[e] = None THEN place[e]
         ELSE @[e]]]

\* The avatars of c that a batch leaves wrong: those of `dropped` it says nothing
\* about; those it spawns a second time, or would destroy if the destroy were not
\* filtered out; in a loading scene also those it updates or destroys.
Dropped(c) ==
  LET loading == scene[c].phase = "loading"
      shown == {e \in Players : scene[c].avatars[e] # None}
      spawns == Spawns(c)
      updates == Updates(c)
      destroys == Destroys(c)
      taken == (spawns \ shown) \cup IF loading THEN {} ELSE destroys \cup (updates \cap shown)
      ignored == shown \cap (spawns \cup (destroyed \ destroys)
                               \cup IF loading THEN updates \cup destroys ELSE {})
  IN  ({e \in Players : <<c, e>> \in dropped} \ taken) \cup ignored

\* The scene of p starts from nothing: the avatars that p was sent are lost.
Forgotten(p) ==
  {pair \in Players \X Players :
     IF pair[1] = p THEN p \in spawnedTo[pair[2]] ELSE pair \in dropped}

\* Where a tick may fall.
TickMayRun ==
  /\ unsent["tick"] = None
  /\ "frame" \in Windows \/ unsent["teleport"] = None
  /\ \A p \in Players :
       /\ scene[p].phase = "loading" => "load" \in Windows
       /\ scene[p].phase \in {"first", "again"} => "auth" \in Windows

\* rebuildAOIGrids and ReplicationSystem.Step: a batch for every client,
\* then the dirty flags and the destroy queue are cleared.  Entries for
\* entities on other maps are left as they are.
Tick ==
  /\ TickMayRun
  /\ dirty' = {} /\ destroyed' = {}
  /\ UNCHANGED <<place, unsent>>
  /\ scene' = [c \in Players |-> IF Live(c) THEN Applied(c) ELSE scene[c]]
  /\ LET spawned == [c \in Players |-> IF Live(c) THEN Spawned(c) ELSE {}]
     IN  spawnedTo' = [e \in Players |->
           {c \in Players : \/ e \in spawned[c]
                            \/ c \in spawnedTo[e] /\ ~(Live(c) /\ Live(e) /\ SameMap(c, e))}]
  /\ LET after == [c \in Players |-> IF Live(c) THEN Dropped(c) ELSE {}]
     IN  dropped' = {pair \in Players \X Players : pair[2] \in after[pair[1]]}

-----------------------------------------------------------------------------
(* What happens between ticks.                                             *)

\* Movement on a map: walking, or teleport_to_entity.
Move(p, cell) ==
  /\ Live(p)
  /\ place' = [place EXCEPT ![p].cell = cell]
  /\ dirty' = dirty \cup {p}
  /\ UNCHANGED <<spawnedTo, destroyed, unsent, scene, dropped>>

\* provisionClient: a new entity, and a new client id.  (A reconnecting page
\* still has its old avatars, which AuthResult clears whatever they are.)
Join(p, at, phase) ==
  /\ ~Live(p)
  /\ p \in destroyed => "return" \in Windows
  /\ place' = [place EXCEPT ![p] = at]
  /\ scene' = [scene EXCEPT ![p] = NewScene(phase)]
  /\ dropped' = Forgotten(p)
  /\ UNCHANGED <<spawnedTo, dirty, destroyed, unsent>>

\* The browser gets AuthResult.  A new page goes on with what it has, or,
\* when it has loaded another map, loads the right one; a reconnecting page
\* clears its avatars.
AuthResult(p) ==
  /\ \/ /\ scene[p].phase = "first"
        /\ \/ scene' = [scene EXCEPT ![p].phase = "live"] /\ UNCHANGED dropped
           \/ scene' = [scene EXCEPT ![p] = NewScene("loading")] /\ dropped' = Forgotten(p)
     \/ /\ scene[p].phase = "again"
        /\ scene' = [scene EXCEPT ![p] = NewScene("live")]
        /\ dropped' = Forgotten(p)
  /\ UNCHANGED <<place, spawnedTo, dirty, destroyed, unsent>>

\* Mutant: nobody is told.
LeaveUnannounced(p) ==
  /\ Live(p)
  /\ place' = [place EXCEPT ![p] = None]
  /\ spawnedTo' = [e \in Players |-> IF e = p THEN {} ELSE spawnedTo[e] \ {p}]
  /\ dirty' = dirty \ {p}
  /\ unsent' = [w \in Movers |-> IF unsent[w] = p THEN None ELSE unsent[w]]
  /\ scene' = [scene EXCEPT ![p] = NewScene("off")]
  /\ UNCHANGED <<destroyed, dropped>>

\* despawnClientLocked, whoever asks for it.
Leave(p) ==
  /\ Live(p)
  /\ place' = [place EXCEPT ![p] = None]
  /\ spawnedTo' = [e \in Players |-> IF e = p THEN {} ELSE spawnedTo[e] \ {p}]
  /\ dirty' = dirty \ {p}
  /\ destroyed' = destroyed \cup {p}
  /\ unsent' = [w \in Movers |-> IF unsent[w] = p THEN None ELSE unsent[w]]
  /\ scene' = [scene EXCEPT ![p] = NewScene("off")]
  /\ dropped' = {pair \in dropped : pair[1] # p}

\* Mutant: the entity's own books are reset, but not what others hold of
\* the client that moves.
TransitionOneSided(w, p, at) ==
  /\ unsent[w] = None
  /\ Live(p) /\ scene[p].phase = "live" /\ \A v \in Movers : unsent[v] # p
  /\ at.map = place[p].map \/ p \in destroyed => "return" \in Windows
  /\ place' = [place EXCEPT ![p] = at]
  /\ spawnedTo' = [spawnedTo EXCEPT ![p] = {}]
  /\ dirty' = dirty \cup {p}
  /\ destroyed' = destroyed \cup {p}
  /\ unsent' = [unsent EXCEPT ![w] = p]
  /\ UNCHANGED <<scene, dropped>>

\* PortalSystem.transition, its locked part.
Transition(w, p, at) ==
  /\ unsent[w] = None
  /\ Live(p) /\ scene[p].phase = "live" /\ \A v \in Movers : unsent[v] # p
  /\ at.map = place[p].map \/ p \in destroyed => "return" \in Windows
  /\ place' = [place EXCEPT ![p] = at]
  /\ spawnedTo' = [e \in Players |-> IF e = p THEN {} ELSE spawnedTo[e] \ {p}]
  /\ dirty' = dirty \cup {p}
  /\ destroyed' = destroyed \cup {p}
  /\ unsent' = [unsent EXCEPT ![w] = p]
  /\ UNCHANGED <<scene, dropped>>

\* PublishMapTransition, after s.mu is released: the browser starts to load.
SendTransition(w) ==
  /\ unsent[w] # None
  /\ scene' = [scene EXCEPT ![unsent[w]] =
                 NewScene("loading")]
  /\ unsent' = [unsent EXCEPT ![w] = None]
  /\ dropped' = Forgotten(unsent[w])
  /\ UNCHANGED <<place, spawnedTo, dirty, destroyed>>

\* The assets are there: the scene restarts with the buffered spawns.
Loaded(p) ==
  /\ scene[p].phase = "loading"
  /\ scene' = [scene EXCEPT ![p].phase = "live"]
  /\ UNCHANGED <<place, spawnedTo, dirty, destroyed, unsent, dropped>>

-----------------------------------------------------------------------------
Next ==
  \/ Tick
  \/ \E p \in Players :
       \/ AuthResult(p) \/ Leave(p) \/ Loaded(p)
       \/ \E cell \in Cells : Move(p, cell)
       \/ \E at \in Place :
            \/ \E phase \in {"first", "again"} : Join(p, at, phase)
            \/ \E w \in Movers : Transition(w, p, at)
  \/ \E w \in Movers : SendTransition(w)

Spec == Init /\ [][Next]_vars

-----------------------------------------------------------------------------
(* Properties.                                                             *)

\* The books only pair an entity with a client on its map, so that no update
\* of another map is sent: every way to change maps, leave or come back
\* resets both the entity's entry and what others hold for its client.
SpawnedOnMap ==
  \A c, e \in Players :
    c \in spawnedTo[e] => Live(c) /\ Live(e) /\ SameMap(c, e)

\* Updates are sent for what was spawned, and the browser ignores those for
\* entities it does not have: whatever the books say a client was sent, its
\* scene shows, or will show when it has loaded; unless the scene was cleared
\* after it was sent, by a frame that a tick has overtaken.
UpdatesLand ==
  \A c, e \in Players :
    c \in spawnedTo[e] /\ <<c, e>> \notin dropped => scene[c].avatars[e] # None

\* No ghosts: an avatar on a screen is one the books know of, or one whose
\* destroy is queued, or the player is about to be moved to another map; or its
\* destroy was dropped, by a scene that was loading or by the filter of the queue.
NoGhost ==
  \A c, e \in Players :
    scene[c].phase = "live" /\ scene[c].avatars[e] # None =>
      \/ c \in spawnedTo[e]
      \/ e \in destroyed
      \/ <<c, e>> \in dropped
      \/ \E w \in Movers : unsent[w] = c

\* After a tick every screen is right: it shows, where they are, all avatars
\* in the subscribe radius, and none beyond the unsubscribe radius, on
\* another map, or gone; but for those it has dropped something of, until the
\* next batch about them that it applies.
Right(c, e) ==
  LET shown == scene[c].avatars[e] IN
  /\ Live(e) /\ SameMap(c, e) /\ Near(c, e, aoiSubscribeRadius) => shown = place[e]
  /\ shown # None =>
       Live(e) /\ SameMap(c, e) /\ Near(c, e, aoiUnsubscribeRadius) /\ shown = place[e]

TickIsExact ==
  [][Tick =>
       \A c, e \in Players :
         Live(c) /\ scene[c].phase = "live" /\ (\A w \in Movers : unsent[w] # c)
           /\ <<c, e>> \notin dropped' => Right(c, e)']_vars
=============================================================================
