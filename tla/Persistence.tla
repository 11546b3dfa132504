---------------------------- MODULE Persistence ----------------------------
(***************************************************************************)
(* Where one logged-in player is, and where PocketBase says the player is. *)
(*                                                                         *)
(* The place in memory is under s.mu; the record's position and map_id are *)
(* two separate writes that goroutines make after releasing it: the        *)
(* persister's timer, the handlers that despawn a client, and a map        *)
(* transition (which saves map_id alone).  A session starts from whatever  *)
(* the record holds at that moment.                                        *)
(*                                                                         *)
(* Abstracted: coordinates and direction are one value, known to belong to *)
(* the map where the player could have had them; the sessions' tables are  *)
(* those of module Session.  All maps stay loaded.                         *)
(***************************************************************************)
EXTENDS Naturals, Sequences, FiniteSets

CONSTANTS
  Coords,      \* values of (x, y, dir)
  Maps,
  Home,        \* [Coords -> Maps]: the map on which the coordinates are valid
  None,
  Faults,      \* subset of {"displace", "crash", "store"}
  MaxWriters   \* bound: goroutines writing at once

ASSUME PersistenceAssumption ==
  /\ Home \in [Coords -> Maps]
  /\ Faults \subseteq {"displace", "crash", "store"}
  /\ MaxWriters \in Nat \ {0}
  /\ None \notin [coords: Coords, map: Maps]

VARIABLES
  record,      \* the user's row: pos_x, pos_y, dir and map_id
  session,     \* Position of the live entity, or None
  lastSaved,   \* s.lastSavedPos[entityID]: what the persister last saved
  task,        \* the writes each goroutine still has to make
  left,        \* history: where the last session ended, if one goroutine alone saves it
  failed,      \* history: a save failed since this session began
  clash        \* history: goroutines wrote at once, and no full save since then

vars == <<record, session, lastSaved, task, left, failed, clash>>

Place == [coords: Coords, map: Maps]
At(q) == [coords |-> q, map |-> Home[q]]

\* The goroutines that write: the persister, the two kinds of despawning
\* subscription or timer, the tick (portal zones) and the teleport handlers.
Despawners == {"disconnect", "reaper"}
Movers == {"tick", "teleport"}
Workers == {"persister"} \cup Despawners \cup Movers
Steps == {"position", "map", "remember"}
Tasks == [todo: Seq(Steps), place: Place]

ASSUME IdleAssumption == None \notin Tasks

TypeOK ==
  /\ record \in Place
  /\ session \in Place \cup {None}
  /\ lastSaved \in Place \cup {None}
  /\ task \in [Workers -> Tasks \cup {None}]
  /\ left \in Place \cup {None}
  /\ failed \in BOOLEAN /\ clash \in BOOLEAN

Idle(w) == task[w] = None
Quiet == \A w \in Workers : Idle(w)
AtWork == {w \in Workers : ~Idle(w)}

Init ==
  /\ \E q \in Coords : record = At(q)
  /\ session = None
  /\ lastSaved = None
  /\ task = [w \in Workers |-> None]
  /\ left = record
  /\ failed = FALSE /\ clash = FALSE

\* A goroutine starts to write: both halves of a place, or just its map_id.  What
\* two of them leave in the record stands until one saves all of a place alone.
Start(w, todo, place) ==
  /\ Idle(w) /\ Cardinality(AtWork) < MaxWriters
  /\ task' = [task EXCEPT ![w] = [todo |-> todo, place |-> place]]
  /\ clash' = (~Quiet \/ (clash /\ w \in Movers))

-----------------------------------------------------------------------------
(* Sessions.                                                               *)

\* provisionClient restores the stored position and map.
Connect ==
  /\ session = None
  /\ session' = record
  /\ left' = None /\ failed' = FALSE
  /\ UNCHANGED <<record, lastSaved, task, clash>>

\* Movement within a map.  The tick goroutine also runs PortalSystem.Step,
\* so nobody moves while it saves a map_id.
Move(q) ==
  /\ Idle("tick")
  /\ session # None /\ Home[q] = session.map
  /\ session' = [session EXCEPT !.coords = q]
  /\ UNCHANGED <<record, lastSaved, task, left, failed, clash>>

\* PortalSystem.transition: the place changes under the lock, then the sink
\* saves map_id.
Transition(w, q) ==
  /\ session # None
  /\ session' = At(q)
  /\ Start(w, <<"map">>, At(q))
  /\ UNCHANGED <<record, lastSaved, left, failed>>

\* Mutant: lastSavedPos keeps the entry of the despawned entity.
EndSessionKeeps(w) ==
  /\ session # None
  /\ session' = None
  /\ left' = IF Quiet THEN session ELSE None
  /\ Start(w, <<"position", "map">>, session)
  /\ UNCHANGED <<record, lastSaved, failed>>

\* Mutant: despawnClient saves nothing, the persister has done it.
EndSessionUnsaved(w) ==
  /\ Idle(w)
  /\ session # None
  /\ session' = None
  /\ lastSaved' = None
  /\ left' = IF Quiet THEN session ELSE None
  /\ UNCHANGED <<record, task, failed, clash>>

\* despawnClient: the entity and its lastSavedPos entry go under the lock,
\* then position and map_id are saved.
EndSession(w) ==
  /\ session # None
  /\ session' = None
  /\ lastSaved' = None
  /\ left' = IF Quiet THEN session ELSE None
  /\ Start(w, <<"position", "map">>, session)
  /\ UNCHANGED <<record, failed>>

\* A second window with force: despawnClientLocked alone, whose result
\* nobody saves, and a new entity from the record, in one critical section.
Displace ==
  /\ "displace" \in Faults
  /\ session # None
  /\ lastSaved' = None
  /\ session' = record
  /\ left' = None /\ failed' = FALSE
  /\ UNCHANGED <<record, task, clash>>

\* worldsim dies.
Crash ==
  /\ "crash" \in Faults
  /\ session' = None
  /\ lastSaved' = None
  /\ left' = IF session = None /\ Quiet THEN left ELSE None
  /\ task' = [w \in Workers |-> None]
  /\ UNCHANGED <<record, failed, clash>>

-----------------------------------------------------------------------------
(* Writers.                                                                *)

\* Mutant: a player is checkpointed once per session.
CheckpointOnce ==
  /\ session # None /\ lastSaved = None
  /\ Start("persister", <<"position", "map", "remember">>, session)
  /\ UNCHANGED <<record, session, lastSaved, left, failed>>

\* collectChangedPositionsLocked: skip what lastSavedPos says is saved.
Checkpoint ==
  /\ session # None /\ lastSaved # session
  /\ Start("persister", <<"position", "map", "remember">>, session)
  /\ UNCHANGED <<record, session, lastSaved, left, failed>>

\* The next step of w's task is done.
Advance(w) ==
  LET t == task[w]
      rest == [t EXCEPT !.todo = Tail(t.todo)]
  IN  task' = [task EXCEPT ![w] = IF Len(t.todo) = 1 THEN None ELSE rest]

\* SavePosition, SaveMapID, or the persister's note of both.
Write(w) ==
  /\ ~Idle(w)
  /\ LET step == Head(task[w].todo)
         place == task[w].place
     IN  /\ record' = CASE step = "position" -> [record EXCEPT !.coords = place.coords]
                        [] step = "map" -> [record EXCEPT !.map = place.map]
                        [] step = "remember" -> record
         /\ lastSaved' = IF step = "remember" THEN place ELSE lastSaved
  /\ Advance(w)
  /\ UNCHANGED <<session, left, failed, clash>>

\* PocketBase refuses a save: the persister skips the player, a despawn goes
\* on with its next save.
WriteFails(w) ==
  /\ "store" \in Faults
  /\ ~Idle(w) /\ Head(task[w].todo) # "remember"
  /\ IF w = "persister" THEN task' = [task EXCEPT ![w] = None] ELSE Advance(w)
  /\ failed' = TRUE
  /\ left' = IF w \in Despawners THEN None ELSE left
  /\ UNCHANGED <<record, session, lastSaved, clash>>

-----------------------------------------------------------------------------
Next ==
  \/ Connect
  \/ \E q \in Coords : Move(q) \/ \E w \in Movers : Transition(w, q)
  \/ \E w \in Despawners : EndSession(w)
  \/ Displace
  \/ Crash
  \/ Checkpoint
  \/ \E w \in Workers : Write(w) \/ WriteFails(w)

Spec == Init /\ [][Next]_vars

\* The persister's timer fires again and again, whatever else writes in
\* between (the mutex does not starve it), and PocketBase answers.
Fairness == SF_vars(Checkpoint) /\ \A w \in Workers : WF_vars(Write(w))

FairSpec == Spec /\ Fairness

-----------------------------------------------------------------------------
(* Properties.                                                             *)

\* When the persister skips a player because lastSavedPos holds the present
\* place, the record holds it too; unless PocketBase refused a save, or goroutines
\* wrote at once and none has saved the whole place since.
SkipIsSound ==
  Quiet /\ session # None /\ lastSaved = session /\ ~failed /\ ~clash => record = session

\* A player who reconnects after a despawn that could save, and has saved, is put
\* where the last session ended: same coordinates, same map; unless another
\* goroutine was writing when it ended.
RestoredWhereLeft ==
  [][session = None /\ session' # None /\ left # None /\ Quiet => session' = left]_vars

\* "so startPositionPersister can skip writes for entities that haven't moved
\* since the last 30s tick": what lastSavedPos holds of the place of a player who
\* has no save under way is what PocketBase has, unless it refused a save.
LastSavedIsPersisted ==
  Quiet /\ session # None /\ lastSaved = session /\ ~failed => record = session

\* A player's coordinates are coordinates on the player's map.
CoordsMatchMap == session # None => Home[session.coords] = session.map

\* A player who stands still is checkpointed, so that a crash loses only
\* recent movement, whatever else writes meanwhile, if not at once.
StandingIsSaved ==
  \A p \in Place : <>[](session = p /\ ~failed /\ ~clash) => <>[](record = p)
=============================================================================
