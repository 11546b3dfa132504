------------------------- MODULE ReplicationProofs -------------------------
(***************************************************************************)
(* Theorems about Replication, for every set of players and maps, every    *)
(* size of map, every pair of radii and all four windows.                  *)
(*                                                                         *)
(* They go pair by pair: what client c shows of entity e follows from what *)
(* the books, the two queues and `dropped` say of c and e.  A tick's batch *)
(* leaves a pair right or in `dropped`, whatever it was before.            *)
(***************************************************************************)
EXTENDS Replication, TLAPS

\* The client is about to be told of a transition.
Moving(c) == \E w \in Movers : unsent[w] = c

\* The books credit c with e: the avatar is there ...
Landed(c, e) ==
  c \in spawnedTo[e] /\ <<c, e>> \notin dropped => scene[c].avatars[e] # None

\* ... and where it should be, or will be after the next batch.
Accurate(c, e) ==
  c \in spawnedTo[e] /\ <<c, e>> \notin dropped /\ scene[c].avatars[e] # None =>
    scene[c].avatars[e] = place[e] \/ e \in dirty

\* They do not: the avatar will go.
Announced(c, e) ==
  c \notin spawnedTo[e] /\ <<c, e>> \notin dropped /\ scene[c].avatars[e] # None =>
    e \in destroyed \/ Moving(c)

Pairs == \A c, e \in Players : Landed(c, e) /\ Accurate(c, e) /\ Announced(c, e)

\* Who is gone shows nothing.
GoneIsBlank == \A c \in Players : ~Live(c) => scene[c].avatars = NoAvatars

ScreensInv == TypeOK /\ SpawnedOnMap /\ GoneIsBlank /\ Pairs

-----------------------------------------------------------------------------
LEMMA NoneIsNoPlace == None \notin Place
BY ReplicationAssumption DEF Place, Cells

LEMMA NewSceneType ==
  ASSUME NEW phase \in Phases PROVE NewScene(phase) \in Scene
BY DEF NewScene, Scene, NoAvatars, Avatars

\* What a batch makes of one avatar.
LEMMA AppliedIs ==
  ASSUME TypeOK, NEW c \in Players
  PROVE  /\ Applied(c).phase = scene[c].phase
         /\ \A e \in Players :
              Applied(c).avatars[e] =
                IF e \in Destroys(c) /\ scene[c].phase # "loading" THEN None
                ELSE IF e \in Updates(c) /\ scene[c].phase # "loading" /\ scene[c].avatars[e] # None
                THEN place[e]
                ELSE IF e \in Spawns(c) /\ scene[c].avatars[e] = None THEN place[e]
                ELSE scene[c].avatars[e]
<1>1. scene[c] \in Scene
  BY DEF TypeOK
<1> QED BY <1>1 DEF Applied, Scene

LEMMA AppliedType ==
  ASSUME TypeOK, NEW c \in Players, Live(c) PROVE Applied(c) \in Scene
<1>1. scene[c] \in Scene
  BY DEF TypeOK
<1>2. \A e \in Spawns(c) \cup Updates(c) : place[e] \in Place
  BY DEF Spawns, Updates, Spawned, Live, TypeOK, Avatars
<1> DEFINE after == [e \in Players |->
      IF e \in (IF scene[c].phase = "loading" THEN {} ELSE Destroys(c)) THEN None
      ELSE IF e \in (IF scene[c].phase = "loading" THEN {} ELSE Updates(c)) /\ scene[c].avatars[e] # None
      THEN place[e]
      ELSE IF e \in Spawns(c) /\ scene[c].avatars[e] = None THEN place[e]
      ELSE scene[c].avatars[e]]
<1>3. after \in Avatars
  BY <1>1, <1>2 DEF Scene, Avatars
<1>4. Applied(c) = [scene[c] EXCEPT !.avatars = after]
  BY <1>1 DEF Applied, Scene
<1> QED BY <1>1, <1>3, <1>4 DEF Scene

-----------------------------------------------------------------------------
\* Every variable keeps its type.
THEOREM TypeCorrect == Spec => []TypeOK
<1>1. Init => TypeOK
  BY NewSceneType DEF Init, TypeOK, NoAvatars, Avatars, Movers, Phases
<1>2. TypeOK /\ [Next]_vars => TypeOK'
  <2> SUFFICES ASSUME TypeOK, [Next]_vars PROVE TypeOK'
    OBVIOUS
  <2>1. CASE Tick
    BY <2>1, AppliedType DEF Tick, TypeOK
  <2>2. CASE \E p \in Players : AuthResult(p)
    BY <2>2, NewSceneType DEF AuthResult, TypeOK, Scene, Phases, Forgotten
  <2>3. CASE \E p \in Players : Leave(p)
    BY <2>3, NewSceneType DEF Leave, TypeOK, Avatars, Phases
  <2>4. CASE \E p \in Players : Loaded(p)
    BY <2>4 DEF Loaded, TypeOK, Scene, Phases
  <2>5. CASE \E p \in Players, cell \in Cells : Move(p, cell)
    BY <2>5, NoneIsNoPlace DEF Move, Live, TypeOK, Avatars, Place
  <2>6. CASE \E p \in Players, at \in Place, phase \in {"first", "again"} : Join(p, at, phase)
    BY <2>6, NewSceneType DEF Join, TypeOK, Avatars, Phases, Forgotten
  <2>7. CASE \E p \in Players, at \in Place, w \in Movers : Transition(w, p, at)
    BY <2>7 DEF Transition, TypeOK, Avatars
  <2>8. CASE \E w \in Movers : SendTransition(w)
    BY <2>8, NewSceneType DEF SendTransition, TypeOK, Phases, Forgotten
  <2>9. CASE UNCHANGED vars
    BY <2>9 DEF vars, TypeOK
  <2> QED
    BY <2>1, <2>2, <2>3, <2>4, <2>5, <2>6, <2>7, <2>8, <2>9 DEF Next
<1> QED
  BY <1>1, <1>2, PTL DEF Spec

-----------------------------------------------------------------------------
\* The books never pair an entity with a client that is gone or on another
\* map, whatever windows a tick falls in.
THEOREM BooksStayOnMap == Spec => []SpawnedOnMap
<1>1. Init => SpawnedOnMap
  BY DEF Init, SpawnedOnMap
<1>2. TypeOK /\ SpawnedOnMap /\ [Next]_vars => SpawnedOnMap'
  <2> SUFFICES ASSUME TypeOK, SpawnedOnMap, [Next]_vars PROVE SpawnedOnMap'
    OBVIOUS
  <2>1. CASE Tick
    BY <2>1 DEF Tick, SpawnedOnMap, Spawned, SameMap, Live
  <2>2. CASE \E p \in Players : AuthResult(p) \/ Loaded(p)
    BY <2>2 DEF AuthResult, Loaded, SpawnedOnMap, SameMap, Live
  <2>3. CASE \E p \in Players : Leave(p)
    BY <2>3 DEF Leave, SpawnedOnMap, SameMap, Live, TypeOK, Avatars
  <2>4. CASE \E p \in Players, cell \in Cells : Move(p, cell)
    <3>1. PICK p \in Players, cell \in Cells : Move(p, cell)
      BY <2>4
    <3>2. \A q \in Players : Live(q) => Live(q)' /\ place'[q].map = place[q].map
      BY <3>1, NoneIsNoPlace DEF Move, Live, TypeOK, Avatars, Place
    <3> QED
      BY <3>1, <3>2 DEF Move, SpawnedOnMap, SameMap
  <2>5. CASE \E p \in Players, at \in Place, phase \in {"first", "again"} : Join(p, at, phase)
    BY <2>5 DEF Join, SpawnedOnMap, SameMap, Live, TypeOK, Avatars
  <2>6. CASE \E p \in Players, at \in Place, w \in Movers : Transition(w, p, at)
    BY <2>6 DEF Transition, SpawnedOnMap, SameMap, Live, TypeOK, Avatars
  <2>7. CASE \E w \in Movers : SendTransition(w)
    BY <2>7 DEF SendTransition, SpawnedOnMap, SameMap, Live
  <2>8. CASE UNCHANGED vars
    BY <2>8 DEF vars, SpawnedOnMap, SameMap, Live
  <2> QED
    BY <2>1, <2>2, <2>3, <2>4, <2>5, <2>6, <2>7, <2>8 DEF Next
<1> QED
  BY <1>1, <1>2, TypeCorrect, PTL DEF Spec

-----------------------------------------------------------------------------
(* A tick.                                                                 *)

\* What a batch says of e to a client that stays on its map: spawn it or update
\* it, destroy it, or nothing.
LEMMA BatchIs ==
  ASSUME TypeOK, SpawnedOnMap, Tick, NEW c \in Players, NEW e \in Players, Live(c)
  PROVE  /\ c \in spawnedTo'[e] <=> e \in Spawned(c)
         /\ e \in Spawned(c) => place[e] # None /\ e \notin Destroys(c)
         /\ e \in Spawns(c) <=> e \in Spawned(c) /\ c \notin spawnedTo[e]
         /\ e \in Updates(c) <=> e \in Spawned(c) /\ c \in spawnedTo[e] /\ e \in dirty
         /\ c \in spawnedTo[e] /\ e \notin Spawned(c) => e \in Destroys(c)
<1>1. c \in spawnedTo'[e] <=> e \in Spawned(c) \/ (c \in spawnedTo[e] /\ ~(Live(c) /\ Live(e) /\ SameMap(c, e)))
  BY DEF Tick
<1> QED
  BY <1>1 DEF SpawnedOnMap, Spawned, Destroys, OutOfRange, Spawns, Updates, Live

\* What becomes of `dropped`.
LEMMA DroppedIs ==
  ASSUME Tick, NEW c \in Players, NEW e \in Players, Live(c)
  PROVE  <<c, e>> \in dropped' <=>
           \/ /\ <<c, e>> \in dropped
              /\ ~(e \in Spawns(c) /\ scene[c].avatars[e] = None)
              /\ \/ scene[c].phase = "loading"
                 \/ ~(e \in Destroys(c)) /\ ~(e \in Updates(c) /\ scene[c].avatars[e] # None)
           \/ /\ scene[c].avatars[e] # None
              /\ \/ e \in Spawns(c)
                 \/ e \in destroyed /\ e \notin Destroys(c)
                 \/ scene[c].phase = "loading" /\ e \in Updates(c) \cup Destroys(c)
<1>1. <<c, e>> \in dropped' <=> e \in Dropped(c)
  BY DEF Tick
<1> QED BY <1>1 DEF Dropped

\* A pair that a batch leaves out of `dropped`: a screen that is not about to be
\* cleared shows of e exactly what the books then hold.
LEMMA BatchIsExact ==
  ASSUME TypeOK, SpawnedOnMap, Pairs, Tick, NEW c \in Players, NEW e \in Players, Live(c),
         <<c, e>> \notin dropped'
  PROVE  /\ e \in Spawned(c) => Applied(c).avatars[e] = place[e]
         /\ Applied(c).avatars[e] # None => e \in Spawned(c) \/ Moving(c)
<1> DEFINE a == scene[c].avatars[e]
           b == c \in spawnedTo[e]
           d == <<c, e>> \in dropped
           loading == scene[c].phase = "loading"
<1>1. Applied(c).avatars[e] =
        IF e \in Destroys(c) /\ ~loading THEN None
        ELSE IF e \in Updates(c) /\ ~loading /\ a # None THEN place[e]
        ELSE IF e \in Spawns(c) /\ a = None THEN place[e]
        ELSE a
  BY AppliedIs
<1>2. /\ b /\ ~d => a # None
      /\ b /\ ~d /\ a # None => a = place[e] \/ e \in dirty
      /\ ~b /\ ~d /\ a # None => e \in destroyed \/ Moving(c)
  BY DEF Pairs, Landed, Accurate, Announced
<1>3. /\ ~d \/ (e \in Spawns(c) /\ a = None)
            \/ (~loading /\ (e \in Destroys(c) \/ (e \in Updates(c) /\ a # None)))
      /\ a # None => /\ e \notin Spawns(c)
                     /\ ~(e \in destroyed /\ e \notin Destroys(c))
                     /\ loading => e \notin Updates(c) /\ e \notin Destroys(c)
  BY DroppedIs
<1>4. /\ e \in Spawned(c) => place[e] # None /\ e \notin Destroys(c)
      /\ e \in Spawns(c) <=> e \in Spawned(c) /\ ~b
      /\ e \in Updates(c) <=> e \in Spawned(c) /\ b /\ e \in dirty
      /\ b /\ e \notin Spawned(c) => e \in Destroys(c)
  BY BatchIs
<1> HIDE DEF a, b, d, loading
<1>5. ASSUME e \in Spawned(c) PROVE Applied(c).avatars[e] = place[e]
  BY <1>1, <1>2, <1>3, <1>4, <1>5
<1>6. ASSUME e \notin Spawned(c), Applied(c).avatars[e] # None PROVE Moving(c)
  <2>1. a # None /\ (e \in Destroys(c) => loading)
    BY <1>1, <1>4, <1>6
  <2> QED BY <1>2, <1>3, <1>4, <1>6, <2>1
<1> QED BY <1>5, <1>6

LEMMA TickStep ==
  ASSUME ScreensInv, Tick
  PROVE  GoneIsBlank' /\ Pairs'
<1> USE DEF ScreensInv
<1>1. \A c \in Players : scene'[c] = IF Live(c) THEN Applied(c) ELSE scene[c]
  BY DEF Tick
<1>2. UNCHANGED <<place, unsent>>
  BY DEF Tick
<1>3. GoneIsBlank'
  BY <1>1, <1>2 DEF GoneIsBlank, Live
<1>4. ASSUME NEW c \in Players, NEW e \in Players
      PROVE  Landed(c, e)' /\ Accurate(c, e)' /\ Announced(c, e)'
  <2>1. CASE ~Live(c)
    <3>1. scene'[c].avatars[e] = None
      BY <1>1, <2>1 DEF GoneIsBlank, NoAvatars
    <3>2. c \notin spawnedTo'[e]
      BY <2>1 DEF Tick, SpawnedOnMap
    <3> QED BY <3>1, <3>2 DEF Landed, Accurate, Announced
  <2>2. CASE Live(c)
    <3>1. scene'[c].avatars[e] = Applied(c).avatars[e]
      BY <1>1, <2>2
    <3>2. /\ c \in spawnedTo'[e] <=> e \in Spawned(c)
          /\ e \in Spawned(c) => place[e] # None
      BY <2>2, BatchIs
    <3>3. <<c, e>> \notin dropped' =>
            /\ e \in Spawned(c) => Applied(c).avatars[e] = place[e]
            /\ Applied(c).avatars[e] # None => e \in Spawned(c) \/ Moving(c)
      BY <2>2, BatchIsExact
    <3>4. Moving(c)' <=> Moving(c)
      BY <1>2 DEF Moving
    <3> QED BY <1>2, <3>1, <3>2, <3>3, <3>4 DEF Landed, Accurate, Announced
  <2> QED BY <2>1, <2>2
<1> QED BY <1>3, <1>4 DEF Pairs

-----------------------------------------------------------------------------
(* Between ticks.                                                          *)

\* A scene that starts from nothing, whatever the books say.
LEMMA Blank ==
  ASSUME NEW p \in Players, NEW e \in Players, scene'[p].avatars[e] = None,
         p \in spawnedTo'[e] => <<p, e>> \in dropped'
  PROVE  Landed(p, e)' /\ Accurate(p, e)' /\ Announced(p, e)'
BY DEF Landed, Accurate, Announced

LEMMA ForgottenIs ==
  ASSUME NEW p \in Players, NEW c \in Players, NEW e \in Players
  PROVE  <<c, e>> \in Forgotten(p) <=> IF c = p THEN p \in spawnedTo[e] ELSE <<c, e>> \in dropped
BY DEF Forgotten

LEMMA AuthStep ==
  ASSUME ScreensInv, NEW p \in Players, AuthResult(p)
  PROVE  GoneIsBlank' /\ Pairs'
<1> USE DEF ScreensInv
<1>1. \A c \in Players \ {p} : scene'[c] = scene[c]
  BY DEF AuthResult, TypeOK
<1>2. UNCHANGED <<place, spawnedTo, dirty, destroyed, unsent>>
  BY DEF AuthResult
<1>3. \/ scene'[p].avatars = scene[p].avatars /\ UNCHANGED dropped
      \/ scene'[p].avatars = NoAvatars /\ dropped' = Forgotten(p)
  BY DEF AuthResult, TypeOK, Scene, NewScene
<1>4. GoneIsBlank'
  BY <1>1, <1>2, <1>3 DEF GoneIsBlank, Live
<1>5. ASSUME NEW c \in Players, NEW e \in Players
      PROVE  Landed(c, e)' /\ Accurate(c, e)' /\ Announced(c, e)'
  <2>1. CASE scene'[c].avatars = scene[c].avatars /\ (<<c, e>> \in dropped' <=> <<c, e>> \in dropped)
    BY <1>2, <2>1 DEF Pairs, Landed, Accurate, Announced, Moving
  <2>2. CASE c = p /\ scene'[p].avatars = NoAvatars /\ dropped' = Forgotten(p)
    <3>1. scene'[p].avatars[e] = None /\ (p \in spawnedTo'[e] => <<p, e>> \in dropped')
      BY <1>2, <2>2, ForgottenIs DEF NoAvatars
    <3> QED BY <2>2, <3>1, Blank
  <2> QED BY <1>1, <1>3, <2>1, <2>2, ForgottenIs
<1> QED BY <1>4, <1>5 DEF Pairs

LEMMA JoinStep ==
  ASSUME ScreensInv, NEW p \in Players, NEW at \in Place, NEW phase \in {"first", "again"},
         Join(p, at, phase)
  PROVE  GoneIsBlank' /\ Pairs'
<1> USE DEF ScreensInv
<1>1. \A c \in Players \ {p} : scene'[c] = scene[c] /\ place'[c] = place[c]
  BY DEF Join, TypeOK, Avatars
<1>2. scene'[p].avatars = NoAvatars /\ dropped' = Forgotten(p)
  BY DEF Join, TypeOK, NewScene
<1>3. UNCHANGED <<spawnedTo, dirty, destroyed, unsent>> /\ \A c \in Players : c \notin spawnedTo[p]
  BY DEF Join, SpawnedOnMap
<1>4. GoneIsBlank'
  BY <1>1, <1>2 DEF GoneIsBlank, Live
<1>5. ASSUME NEW c \in Players, NEW e \in Players
      PROVE  Landed(c, e)' /\ Accurate(c, e)' /\ Announced(c, e)'
  <2>1. CASE c = p
    <3>1. scene'[p].avatars[e] = None /\ (p \in spawnedTo'[e] => <<p, e>> \in dropped')
      BY <1>2, <1>3, ForgottenIs DEF NoAvatars
    <3> QED BY <2>1, <3>1, Blank
  <2>2. CASE c # p
    <3>1. scene'[c] = scene[c] /\ (<<c, e>> \in dropped' <=> <<c, e>> \in dropped)
      BY <1>1, <1>2, <2>2, ForgottenIs
    <3>2. c \in spawnedTo[e] => place'[e] = place[e]
      BY <1>1, <1>3
    <3> QED BY <1>3, <3>1, <3>2 DEF Pairs, Landed, Accurate, Announced, Moving
  <2> QED BY <2>1, <2>2
<1> QED BY <1>4, <1>5 DEF Pairs

LEMMA LeaveStep ==
  ASSUME ScreensInv, NEW p \in Players, Leave(p)
  PROVE  GoneIsBlank' /\ Pairs'
<1> USE DEF ScreensInv
<1>1. \A c \in Players \ {p} : scene'[c] = scene[c] /\ place'[c] = place[c]
  BY DEF Leave, TypeOK, Avatars
<1>2. scene'[p].avatars = NoAvatars
  BY DEF Leave, TypeOK, NewScene
<1>3. \A c, e \in Players :
        /\ c \in spawnedTo'[e] <=> c \in spawnedTo[e] /\ c # p /\ e # p
        /\ c # p => (<<c, e>> \in dropped' <=> <<c, e>> \in dropped)
  BY DEF Leave
<1>4. /\ p \in destroyed' /\ destroyed \subseteq destroyed'
      /\ \A e \in Players \ {p} : e \in dirty => e \in dirty'
      /\ \A c \in Players \ {p} : Moving(c) => Moving(c)'
  BY DEF Leave, Moving
<1>5. GoneIsBlank'
  BY <1>1, <1>2 DEF GoneIsBlank, Live
<1>6. ASSUME NEW c \in Players, NEW e \in Players
      PROVE  Landed(c, e)' /\ Accurate(c, e)' /\ Announced(c, e)'
  <2>1. CASE c = p
    <3>1. scene'[p].avatars[e] = None /\ p \notin spawnedTo'[e]
      BY <1>2, <1>3 DEF NoAvatars
    <3> QED BY <2>1, <3>1, Blank
  <2>2. CASE c # p /\ e = p
    BY <1>3, <1>4, <2>2 DEF Landed, Accurate, Announced
  <2>3. CASE c # p /\ e # p
    BY <1>1, <1>3, <1>4, <2>3 DEF Pairs, Landed, Accurate, Announced
  <2> QED BY <2>1, <2>2, <2>3
<1> QED BY <1>5, <1>6 DEF Pairs

LEMMA TransitionStep ==
  ASSUME ScreensInv, NEW p \in Players, NEW at \in Place, NEW w \in Movers, Transition(w, p, at)
  PROVE  GoneIsBlank' /\ Pairs'
<1> USE DEF ScreensInv
<1>1. \A c \in Players \ {p} : place'[c] = place[c]
  BY DEF Transition, TypeOK, Avatars
<1>2. UNCHANGED <<scene, dropped>> /\ Live(p)
  BY DEF Transition
<1>3. \A c, e \in Players : c \in spawnedTo'[e] <=> c \in spawnedTo[e] /\ c # p /\ e # p
  BY DEF Transition
<1>4. p \in destroyed' /\ destroyed \subseteq destroyed' /\ dirty \subseteq dirty'
  BY DEF Transition
<1>5. Moving(p)' /\ \A c \in Players : Moving(c) => Moving(c)'
  <2>1. unsent'[w] = p /\ \A v \in Movers \ {w} : unsent'[v] = unsent[v]
    BY DEF Transition, TypeOK
  <2>2. unsent[w] = None
    BY DEF Transition
  <2> QED BY <2>1, <2>2, ReplicationAssumption DEF Moving
<1>6. GoneIsBlank'
  <2>1. Live(p)'
    BY NoneIsNoPlace DEF Transition, TypeOK, Avatars, Live
  <2> QED BY <1>1, <1>2, <2>1 DEF GoneIsBlank, Live
<1>7. ASSUME NEW c \in Players, NEW e \in Players
      PROVE  Landed(c, e)' /\ Accurate(c, e)' /\ Announced(c, e)'
  <2>1. CASE c = p \/ e = p
    BY <1>3, <1>4, <1>5, <2>1 DEF Landed, Accurate, Announced
  <2>2. CASE c # p /\ e # p
    BY <1>1, <1>2, <1>3, <1>4, <1>5, <2>2 DEF Pairs, Landed, Accurate, Announced
  <2> QED BY <2>1, <2>2
<1> QED BY <1>6, <1>7 DEF Pairs

LEMMA SendStep ==
  ASSUME ScreensInv, NEW w \in Movers, SendTransition(w)
  PROVE  GoneIsBlank' /\ Pairs'
<1> USE DEF ScreensInv
<1> DEFINE p == unsent[w]
<1>1. p \in Players
  BY DEF SendTransition, TypeOK
<1> HIDE DEF p
<1>2. \A c \in Players \ {p} : scene'[c] = scene[c] /\ (Moving(c) => Moving(c)')
  BY ReplicationAssumption DEF SendTransition, TypeOK, Moving, p
<1>3. scene'[p].avatars = NoAvatars /\ dropped' = Forgotten(p)
  BY <1>1 DEF SendTransition, TypeOK, NewScene, p
<1>4. UNCHANGED <<place, spawnedTo, dirty, destroyed>>
  BY DEF SendTransition
<1>5. GoneIsBlank'
  BY <1>2, <1>3, <1>4 DEF GoneIsBlank, Live
<1>6. ASSUME NEW c \in Players, NEW e \in Players
      PROVE  Landed(c, e)' /\ Accurate(c, e)' /\ Announced(c, e)'
  <2>1. CASE c = p
    <3>1. scene'[p].avatars[e] = None /\ (p \in spawnedTo'[e] => <<p, e>> \in dropped')
      BY <1>1, <1>3, <1>4, ForgottenIs DEF NoAvatars
    <3> QED BY <1>1, <2>1, <3>1, Blank
  <2>2. CASE c # p
    <3>1. <<c, e>> \in dropped' <=> <<c, e>> \in dropped
      BY <1>1, <1>3, <2>2, ForgottenIs
    <3> QED BY <1>2, <1>4, <2>2, <3>1 DEF Pairs, Landed, Accurate, Announced
  <2> QED BY <2>1, <2>2
<1> QED BY <1>5, <1>6 DEF Pairs

LEMMA MoveStep ==
  ASSUME ScreensInv, NEW p \in Players, NEW cell \in Cells, Move(p, cell)
  PROVE  GoneIsBlank' /\ Pairs'
<1> USE DEF ScreensInv
<1>1. /\ \A c \in Players \ {p} : place'[c] = place[c]
      /\ p \in dirty' /\ dirty \subseteq dirty' /\ Live(p)
      /\ UNCHANGED <<spawnedTo, destroyed, unsent, scene, dropped>>
  BY DEF Move, TypeOK, Avatars
<1>2. GoneIsBlank'
  <2>1. place'[p] \in Place
    BY <1>1 DEF Move, TypeOK, Avatars, Place, Live
  <2>2. Live(p)'
    BY <2>1, NoneIsNoPlace DEF Live
  <2> QED BY <1>1, <2>2 DEF GoneIsBlank, Live
<1>3. Pairs'
  BY <1>1 DEF Pairs, Landed, Accurate, Announced, Moving
<1> QED BY <1>2, <1>3

LEMMA LoadedStep ==
  ASSUME ScreensInv, NEW p \in Players, Loaded(p)
  PROVE  GoneIsBlank' /\ Pairs'
<1>1. \A c \in Players : scene'[c].avatars = scene[c].avatars
  BY DEF Loaded, ScreensInv, TypeOK, Scene
<1>2. UNCHANGED <<place, spawnedTo, dirty, destroyed, unsent, dropped>>
  BY DEF Loaded
<1> QED
  BY <1>1, <1>2 DEF ScreensInv, GoneIsBlank, Live, Pairs, Landed, Accurate, Announced, Moving

LEMMA ScreensHold == Spec => []ScreensInv
<1>1. Init => GoneIsBlank /\ Pairs
  BY DEF Init, GoneIsBlank, Pairs, Landed, Accurate, Announced, NewScene, NoAvatars
<1>2. ScreensInv /\ [Next]_vars => GoneIsBlank' /\ Pairs'
  <2> SUFFICES ASSUME ScreensInv, [Next]_vars PROVE GoneIsBlank' /\ Pairs'
    OBVIOUS
  <2>1. CASE Tick
    BY <2>1, TickStep
  <2>2. ASSUME NEW p \in Players, AuthResult(p) \/ Leave(p) \/ Loaded(p)
        PROVE  GoneIsBlank' /\ Pairs'
    BY <2>2, AuthStep, LeaveStep, LoadedStep
  <2>3. ASSUME NEW p \in Players, NEW cell \in Cells, Move(p, cell)
        PROVE  GoneIsBlank' /\ Pairs'
    BY <2>3, MoveStep
  <2>4. ASSUME NEW p \in Players, NEW at \in Place, NEW phase \in {"first", "again"},
               Join(p, at, phase)
        PROVE  GoneIsBlank' /\ Pairs'
    BY <2>4, JoinStep
  <2>5. ASSUME NEW p \in Players, NEW at \in Place, NEW w \in Movers, Transition(w, p, at)
        PROVE  GoneIsBlank' /\ Pairs'
    BY <2>5, TransitionStep
  <2>6. ASSUME NEW w \in Movers, SendTransition(w)
        PROVE  GoneIsBlank' /\ Pairs'
    BY <2>6, SendStep
  <2>7. CASE UNCHANGED vars
    BY <2>7 DEF vars, ScreensInv, GoneIsBlank, Live, Pairs, Landed, Accurate, Announced, Moving
  <2> QED
    BY <2>1, <2>2, <2>3, <2>4, <2>5, <2>6, <2>7 DEF Next
<1> QED
  BY <1>1, <1>2, TypeCorrect, BooksStayOnMap, PTL DEF Spec, ScreensInv

\* A browser shows, or has buffered, every avatar the server counts as spawned
\* to it, in whatever windows ticks fall, unless its scene was cleared since by
\* an AuthResult or a MapTransition that a tick had overtaken.
THEOREM UpdatesAlwaysLand == Spec => []UpdatesLand
<1>1. ScreensInv => UpdatesLand
  BY DEF ScreensInv, Pairs, Landed, UpdatesLand
<1> QED BY <1>1, ScreensHold, PTL

\* No ghosts: an avatar on a screen is one the books know of, or one whose
\* destroy is queued, or that player is about to be moved; or its destroy was
\* dropped by a loading scene, or filtered out because its entity was back on
\* the map when the tick came.
THEOREM GhostsAreAnnounced == Spec => []NoGhost
<1>1. ScreensInv => NoGhost
  BY DEF ScreensInv, Pairs, Announced, NoGhost, Moving
<1> QED BY <1>1, ScreensHold, PTL

\* After every tick every screen that is live is exact: all avatars in the
\* subscribe radius, none beyond the unsubscribe radius, on another map or gone,
\* and each where its entity is; but for those about which something was dropped
\* that no batch has made up for.
THEOREM TicksAreExact == Spec => TickIsExact
<1>1. ScreensInv /\ [Next]_vars =>
        [Tick => \A c, e \in Players :
           Live(c) /\ scene[c].phase = "live" /\ (\A w \in Movers : unsent[w] # c)
             /\ <<c, e>> \notin dropped' => Right(c, e)']_vars
  <2> SUFFICES ASSUME ScreensInv, Tick, NEW c \in Players, NEW e \in Players,
                      Live(c), ~Moving(c), <<c, e>> \notin dropped'
               PROVE  /\ Live(e)' /\ SameMap(c, e)' /\ Near(c, e, aoiSubscribeRadius)' =>
                           scene'[c].avatars[e] = place'[e]
                      /\ scene'[c].avatars[e] # None =>
                           /\ Live(e)' /\ SameMap(c, e)' /\ Near(c, e, aoiUnsubscribeRadius)'
                           /\ scene'[c].avatars[e] = place'[e]
    BY DEF Right, Moving
  <2>1. scene'[c] = Applied(c) /\ UNCHANGED place
    BY DEF Tick
  <2>2. /\ e \in Spawned(c) => Applied(c).avatars[e] = place[e]
        /\ Applied(c).avatars[e] # None => e \in Spawned(c)
    BY BatchIsExact DEF ScreensInv
  <2>3. Near(c, c, aoiUnsubscribeRadius)
    <3>1. place[c] \in Place
      BY DEF ScreensInv, TypeOK, Avatars, Live
    <3> QED BY <3>1, ReplicationAssumption DEF Near, Place, Cells
  <2>4. Live(e) /\ SameMap(c, e) /\ Near(c, e, aoiSubscribeRadius) => e \in Spawned(c)
    <3>1. Live(e) => place[c] \in Place /\ place[e] \in Place
      BY DEF ScreensInv, TypeOK, Avatars, Live
    <3>2. Live(e) /\ Near(c, e, aoiSubscribeRadius) => Near(c, e, aoiUnsubscribeRadius)
      BY <3>1, ReplicationAssumption DEF Near, Place, Cells
    <3> QED BY <3>2 DEF Spawned
  <2>5. e \in Spawned(c) => Live(e) /\ SameMap(c, e) /\ Near(c, e, aoiUnsubscribeRadius)
    BY <2>3 DEF Spawned
  <2> QED BY <2>1, <2>2, <2>4, <2>5 DEF Live, SameMap, Near
<1> QED BY <1>1, ScreensHold, PTL DEF Spec, TickIsExact
=============================================================================
