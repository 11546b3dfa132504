--------------------------- MODULE SessionProofs ---------------------------
(***************************************************************************)
(* For every set of clients, users and maps, and every fault: the tables   *)
(* of worldsim agree, nobody is connected twice, and the zone registries   *)
(* hold exactly the zones of the avatars on their map.                     *)
(*                                                                         *)
(* The argument is about the tables alone: GoodWorld is kept by every      *)
(* function Session applies to them (the lemmas), and every action applies *)
(* one of those functions or none (the theorems).  With what a connection  *)
(* may ask (Asking) it also shows that requests are fresh, and that every  *)
(* step is one IdentityRegistry allows.                                    *)
(***************************************************************************)
EXTENDS Session, TLAPS

ZonesOn(w, m) ==
  {[id |-> w.session[c], owner |-> c] :
     c \in {d \in Clients : Live(w, d) /\ w.map[d] = m}}

GoodWorld(w) ==
  /\ w \in World
  /\ \A c \in Clients : Live(w, c) =>
       w.entity[w.session[c]] = c /\ w.holder[w.session[c]] = c
  /\ \A e \in Entities :
       /\ w.entity[e] # None => w.session[w.entity[e]] = e
       /\ w.holder[e] = w.entity[e]
  /\ \A m \in Maps : w.zones[m] = ZonesOn(w, m)

IInv == TypeOK /\ TablesAgree /\ OneZonePerAvatar

\* The invariant of the specification is GoodWorld of its tables.
LEMMA InvIsGoodWorld ==
  ASSUME TypeOK
  PROVE  TablesAgree /\ OneZonePerAvatar <=> GoodWorld(world)
BY DEF TypeOK, TablesAgree, OneZonePerAvatar, GoodWorld, ZonesOn

\* No client id is None, so that a table entry is either a client or empty.
LEMMA NoneIsNobody == None \notin Clients /\ None \notin Entities
BY SessionAssumption DEF Entities

-----------------------------------------------------------------------------
(* The functions on the tables.                                            *)

\* A registry holds one zone per id, so RemoveZone drops that of c's avatar
\* and no other.
LEMMA RemoveZoneIsExact ==
  ASSUME NEW w, GoodWorld(w), NEW c \in Clients, Live(w, c)
  PROVE  RemoveZone(w.zones[w.map[c]], w.session[c]) =
           w.zones[w.map[c]] \ {[id |-> w.session[c], owner |-> c]}
<1> DEFINE e == w.session[c]
           zs == w.zones[w.map[c]]
           own == [id |-> e, owner |-> c]
<1>1. w.map[c] \in Maps
  BY DEF GoodWorld, World
<1>2. zs = ZonesOn(w, w.map[c])
  BY <1>1 DEF GoodWorld
<1>3. own \in zs
  BY <1>2 DEF ZonesOn
<1>4. \A z \in zs : z.id = e => z = own
  <2> SUFFICES ASSUME NEW z \in zs, z.id = e PROVE z = own
    OBVIOUS
  <2>1. PICK d \in Clients : Live(w, d) /\ z = [id |-> w.session[d], owner |-> d]
    BY <1>2 DEF ZonesOn
  <2>2. w.session[d] = e
    BY <2>1
  <2>3. d = c
    BY <2>1, <2>2 DEF GoodWorld
  <2> QED BY <2>1, <2>2, <2>3
<1>5. own.id = e
  OBVIOUS
<1>6. (CHOOSE z \in zs : z.id = e) = own
  BY <1>3, <1>4, <1>5
<1> QED BY <1>3, <1>5, <1>6 DEF RemoveZone

\* Despawning a client ends its session, frees its identity, and touches
\* nobody else.
LEMMA DespawnedIsGood ==
  ASSUME NEW w, GoodWorld(w), NEW c \in Clients
  PROVE  /\ GoodWorld(Despawned(w, c))
         /\ ~Live(Despawned(w, c), c)
         /\ Live(w, c) => Despawned(w, c).holder[w.session[c]] = None
         /\ \A d \in Clients \ {c} : Despawned(w, c).session[d] = w.session[d]
<1>1. CASE ~Live(w, c)
  BY <1>1 DEF Despawned
<1>2. CASE Live(w, c)
  <2> DEFINE e == w.session[c]
             v == [w EXCEPT !.session[c] = None, !.entity[e] = None, !.holder[e] = None,
                            !.zones[w.map[c]] = RemoveZone(@, e)]
  <2>1. e \in Entities /\ w.entity[e] = c /\ w.holder[e] = c /\ w.map[c] \in Maps
    BY <1>2 DEF GoodWorld, World, Live
  <2>2. Despawned(w, c) = v
    BY <1>2, <2>1 DEF Despawned
  <2>3. w \in World
    BY DEF GoodWorld
  <2>4. /\ v.session = [w.session EXCEPT ![c] = None]
        /\ v.entity = [w.entity EXCEPT ![e] = None]
        /\ v.holder = [w.holder EXCEPT ![e] = None]
        /\ v.map = w.map
        /\ v.zones = [w.zones EXCEPT ![w.map[c]] = @ \ {[id |-> e, owner |-> c]}]
        /\ v.silent = w.silent
    BY <1>2, <2>3, RemoveZoneIsExact DEF World
  <2>5. v \in World
    BY <2>1, <2>3, <2>4 DEF World
  <2>6. \A d \in Clients : Live(v, d) =>
          v.entity[v.session[d]] = d /\ v.holder[v.session[d]] = d
    BY <2>1, <2>3, <2>4 DEF GoodWorld, World, Live
  <2>7. \A f \in Entities :
          /\ v.entity[f] # None => v.session[v.entity[f]] = f
          /\ v.holder[f] = v.entity[f]
    BY <2>1, <2>3, <2>4 DEF GoodWorld, World, Live
  <2>8. \A m \in Maps : v.zones[m] = ZonesOn(v, m)
    <3> SUFFICES ASSUME NEW m \in Maps PROVE v.zones[m] = ZonesOn(v, m)
      OBVIOUS
    <3>1. w.zones[m] = ZonesOn(w, m)
      BY DEF GoodWorld
    <3>2. \A d \in Clients : Live(v, d) <=> Live(w, d) /\ d # c
      BY <2>3, <2>4 DEF World, Live
    <3>3. \A d \in Clients : Live(v, d) => v.session[d] = w.session[d] /\ v.map[d] = w.map[d]
      BY <2>3, <2>4, <3>2 DEF World
    <3>4. CASE m = w.map[c]
      <4>1. v.zones[m] = w.zones[m] \ {[id |-> e, owner |-> c]}
        BY <2>3, <2>4, <3>4 DEF World
      <4> QED BY <3>1, <3>2, <3>3, <4>1 DEF ZonesOn
    <3>5. CASE m # w.map[c]
      <4>1. v.zones[m] = w.zones[m]
        BY <2>3, <2>4, <3>5 DEF World
      <4> QED BY <3>1, <3>2, <3>3, <3>5, <4>1 DEF ZonesOn
    <3> QED BY <3>4, <3>5
  <2>9. GoodWorld(v)
    BY <2>5, <2>6, <2>7, <2>8 DEF GoodWorld
  <2> QED
    BY <2>1, <2>2, <2>3, <2>4, <2>9 DEF World, Live
<1> QED BY <1>1, <1>2

\* After the forced displacement (if it applies) the identity is free.
LEMMA DisplacedIsGood ==
  ASSUME NEW w, GoodWorld(w), NEW c \in Clients, NEW e \in Entities, ~Live(w, c)
  PROVE  /\ GoodWorld(Displaced(w, e, c))
         /\ ~Live(Displaced(w, e, c), c)
         /\ Displaced(w, e, c).holder[e] = None
<1>1. CASE HeldByOther(w, e, c)
  <2>1. w.holder[e] \in Clients /\ w.holder[e] # c /\ w.session[w.holder[e]] = e
    BY <1>1 DEF HeldByOther, GoodWorld, World
  <2>2. Live(w, w.holder[e])
    BY <2>1, NoneIsNobody DEF Live
  <2>3. Displaced(w, e, c) = Despawned(w, w.holder[e])
    BY <1>1 DEF Displaced
  <2> QED BY <2>1, <2>2, <2>3, DespawnedIsGood DEF Live
<1>2. CASE ~HeldByOther(w, e, c)
  <2>1. Displaced(w, e, c) = w
    BY <1>2 DEF Displaced
  <2>2. w.holder[e] \in Clients \cup {None}
    BY DEF GoodWorld, World
  <2>3. w.holder[e] # None => w.session[w.holder[e]] = e
    BY DEF GoodWorld
  <2>4. w.holder[e] # c
    BY <2>3, NoneIsNobody DEF Live
  <2> QED BY <1>2, <2>1, <2>2, <2>3, <2>4 DEF HeldByOther
<1> QED BY <1>1, <1>2

\* Giving a free identity to a client without a session: there is no stale
\* zone to remove, and the new avatar's zone is the only one with its id.
LEMMA InstalledIsGood ==
  ASSUME NEW w, GoodWorld(w), NEW c \in Clients, NEW e \in Entities, NEW m \in Maps,
         ~Live(w, c), w.holder[e] = None
  PROVE  GoodWorld(Installed(w, c, e, m)) /\ Installed(w, c, e, m).session[c] = e
<1> DEFINE own == [id |-> e, owner |-> c]
           v == Installed(w, c, e, m)
<1>1. w \in World /\ w.entity[e] = None
  BY DEF GoodWorld
<1>2. StaleZoneRemoved(w, e) = w
  BY <1>1 DEF StaleZoneRemoved
<1>3. /\ v.session = [w.session EXCEPT ![c] = e]
      /\ v.entity = [w.entity EXCEPT ![e] = c]
      /\ v.holder = [w.holder EXCEPT ![e] = c]
      /\ v.map = [w.map EXCEPT ![c] = m]
      /\ v.zones = [w.zones EXCEPT ![m] = @ \cup {own}]
      /\ v.silent = w.silent \ {c}
      /\ v = [session |-> v.session, entity |-> v.entity, holder |-> v.holder,
              map |-> v.map, zones |-> v.zones, silent |-> v.silent]
  <2>1. v = [w EXCEPT !.session[c] = e, !.entity[e] = c, !.holder[e] = c, !.map[c] = m,
                      !.zones[m] = @ \cup {own}, !.silent = @ \ {c}]
    BY <1>2 DEF Installed
  <2> HIDE DEF own, v
  <2> QED BY <1>1, <2>1 DEF World
<1>4. v \in World
  <2>1. own \in Zone
    BY DEF Zone
  <2> QED BY <1>1, <1>3, <2>1 DEF World
<1>5. \A d \in Clients : d # c => w.session[d] # e
  BY <1>1, NoneIsNobody DEF GoodWorld, Live
<1>6. \A d \in Clients : Live(v, d) =>
        v.entity[v.session[d]] = d /\ v.holder[v.session[d]] = d
  BY <1>1, <1>3, <1>5, NoneIsNobody DEF GoodWorld, World, Live
<1>7. \A f \in Entities :
        /\ v.entity[f] # None => v.session[v.entity[f]] = f
        /\ v.holder[f] = v.entity[f]
  BY <1>1, <1>3, NoneIsNobody DEF GoodWorld, World, Live
<1>8. \A n \in Maps : v.zones[n] = ZonesOn(v, n)
  <2> SUFFICES ASSUME NEW n \in Maps PROVE v.zones[n] = ZonesOn(v, n)
    OBVIOUS
  <2>1. w.zones[n] = ZonesOn(w, n)
    BY DEF GoodWorld
  <2>2. \A d \in Clients : Live(v, d) <=> Live(w, d) \/ d = c
    BY <1>1, <1>3, NoneIsNobody DEF World, Live
  <2>3. \A d \in Clients \ {c} : v.session[d] = w.session[d] /\ v.map[d] = w.map[d]
    BY <1>1, <1>3 DEF World
  <2>4. v.session[c] = e /\ v.map[c] = m
    BY <1>1, <1>3 DEF World
  <2>5. CASE n = m
    <3>1. v.zones[n] = w.zones[n] \cup {own}
      BY <1>1, <1>3, <2>5 DEF World
    <3> QED BY <2>1, <2>2, <2>3, <2>4, <2>5, <3>1 DEF ZonesOn
  <2>6. CASE n # m
    <3>1. v.zones[n] = w.zones[n]
      BY <1>1, <1>3, <2>6 DEF World
    <3> QED BY <2>1, <2>2, <2>3, <2>4, <2>6, <3>1 DEF ZonesOn
  <2> QED BY <2>5, <2>6
<1>9. v.session[c] = e
  BY <1>1, <1>3 DEF World
<1> QED BY <1>4, <1>6, <1>7, <1>8, <1>9 DEF GoodWorld

\* A portal transition takes the avatar's zone along.
LEMMA TransitionIsGood ==
  ASSUME NEW w, GoodWorld(w), NEW c \in Clients, NEW m \in Maps, Live(w, c),
         NEW v,
         v = [[w EXCEPT !.zones[w.map[c]] = RemoveZone(@, w.session[c])] EXCEPT
                !.map[c] = m, !.zones[m] = @ \cup {[id |-> w.session[c], owner |-> c]}]
  PROVE  GoodWorld(v) /\ v.session = w.session
<1> DEFINE own == [id |-> w.session[c], owner |-> c]
           left == [w.zones EXCEPT ![w.map[c]] = @ \ {own}]
<1>1. w \in World /\ w.map[c] \in Maps /\ w.session[c] \in Entities
  BY NoneIsNobody DEF GoodWorld, World, Live
<1>2. /\ v.session = w.session /\ v.entity = w.entity /\ v.holder = w.holder
      /\ v.map = [w.map EXCEPT ![c] = m]
      /\ v.zones = [left EXCEPT ![m] = @ \cup {own}]
      /\ v.silent = w.silent
      /\ v = [session |-> v.session, entity |-> v.entity, holder |-> v.holder,
              map |-> v.map, zones |-> v.zones, silent |-> v.silent]
  <2>1. v = [[w EXCEPT !.zones[w.map[c]] = @ \ {own}] EXCEPT
                !.map[c] = m, !.zones[m] = @ \cup {own}]
    BY RemoveZoneIsExact
  <2> HIDE DEF own
  <2> QED BY <1>1, <2>1 DEF World
<1>3. v \in World
  <2>1. own \in Zone
    BY <1>1 DEF Zone
  <2>2. left \in [Maps -> SUBSET Zone]
    BY <1>1 DEF World
  <2>3. v.zones \in [Maps -> SUBSET Zone]
    BY <1>2, <2>1, <2>2
  <2>4. v.map \in [Clients -> Maps]
    BY <1>1, <1>2 DEF World
  <2>5. /\ v.session \in [Clients -> Entities \cup {None}]
        /\ v.entity \in [Entities -> Clients \cup {None}]
        /\ v.holder \in [Entities -> Clients \cup {None}]
        /\ v.silent \in SUBSET Clients
    BY <1>1, <1>2 DEF World
  <2> HIDE DEF own, left
  <2> QED BY <1>2, <2>3, <2>4, <2>5 DEF World
<1>4. \A n \in Maps : v.zones[n] = ZonesOn(v, n)
  <2> SUFFICES ASSUME NEW n \in Maps PROVE v.zones[n] = ZonesOn(v, n)
    OBVIOUS
  <2>1. w.zones[n] = ZonesOn(w, n)
    BY DEF GoodWorld
  <2>2. \A d \in Clients : v.map[d] = IF d = c THEN m ELSE w.map[d]
    BY <1>1, <1>2 DEF World
  <2>3. \A d \in Clients : d # c => [id |-> w.session[d], owner |-> d] # own
    OBVIOUS
  <2>4. left[n] = ZonesOn(w, n) \ {own}
    <3>1. n # w.map[c] => own \notin ZonesOn(w, n)
      BY DEF ZonesOn
    <3> QED BY <1>1, <2>1, <3>1 DEF World
  <2>5. v.zones[n] = IF n = m THEN (ZonesOn(w, n) \ {own}) \cup {own}
                     ELSE ZonesOn(w, n) \ {own}
    <3>1. left \in [Maps -> SUBSET Zone]
      BY <1>1 DEF World
    <3> QED BY <1>2, <2>4, <3>1
  <2>6. ZonesOn(v, n) = IF n = m THEN (ZonesOn(w, n) \ {own}) \cup {own}
                        ELSE ZonesOn(w, n) \ {own}
    BY <1>2, <2>2, <2>3 DEF ZonesOn, Live
  <2> QED BY <2>5, <2>6
<1>5. \A d \in Clients : Live(v, d) =>
        v.entity[v.session[d]] = d /\ v.holder[v.session[d]] = d
  BY <1>2 DEF GoodWorld, Live
<1>6. \A f \in Entities :
        /\ v.entity[f] # None => v.session[v.entity[f]] = f
        /\ v.holder[f] = v.entity[f]
  BY <1>2 DEF GoodWorld
<1> HIDE DEF own, left
<1> QED BY <1>2, <1>3, <1>4, <1>5, <1>6 DEF GoodWorld

\* Reloading a map finds the same mobile zones it had.
LEMMA ReloadIsGood ==
  ASSUME NEW w, GoodWorld(w), NEW m \in Maps
  PROVE  [w EXCEPT !.zones[m] = ZonesOn(w, m)] = w
<1>1. w.zones[m] = ZonesOn(w, m) /\ w \in World
  BY DEF GoodWorld
<1> DEFINE z == ZonesOn(w, m)
<1> HIDE DEF z
<1>2. [w.zones EXCEPT ![m] = z] = w.zones
  BY <1>1 DEF World, z
<1>3. [w EXCEPT !.zones = [w.zones EXCEPT ![m] = z]] = w
  BY <1>1, <1>2 DEF World
<1> QED BY <1>3 DEF z

\* Heartbeats do not matter to the tables.
LEMMA SilenceIsGood ==
  ASSUME NEW w, GoodWorld(w), NEW S \in SUBSET Clients
  PROVE  GoodWorld([w EXCEPT !.silent = S])
<1> DEFINE v == [w EXCEPT !.silent = S]
<1>1. w \in World
  BY DEF GoodWorld
<1>2. /\ v \in World
      /\ v.session = w.session /\ v.entity = w.entity /\ v.holder = w.holder
      /\ v.map = w.map /\ v.zones = w.zones
  BY <1>1 DEF World
<1> HIDE DEF v
<1>3. GoodWorld(v)
  BY <1>2 DEF GoodWorld, ZonesOn, Live
<1> QED BY <1>3 DEF v

\* A worldsim that just started has good tables.
LEMMA EmptyIsGood ==
  ASSUME NEW maps \in [Clients -> Maps]
  PROVE  GoodWorld(EmptyWorld(maps))
<1> DEFINE v == EmptyWorld(maps)
<1>1. v \in World
  BY DEF EmptyWorld, World
<1>2. \A c \in Clients : ~Live(v, c)
  BY DEF EmptyWorld, Live
<1>3. \A m \in Maps : v.zones[m] = ZonesOn(v, m)
  BY <1>2 DEF EmptyWorld, ZonesOn
<1> QED BY <1>1, <1>2, <1>3 DEF GoodWorld, EmptyWorld

-----------------------------------------------------------------------------
(* Every action applies one of these functions, or none.                   *)

LEMMA InitIsGood == Init => IInv
<1> SUFFICES ASSUME Init PROVE IInv
  OBVIOUS
<1>1. GoodWorld(world)
  <2>1. PICK m \in Maps : world = EmptyWorld([c \in Clients |-> m])
    BY DEF Init
  <2> QED BY <2>1, EmptyIsGood
<1>2. TypeOK
  BY <1>1 DEF Init, TypeOK, GoodWorld, WsStates, Replies
<1> QED BY <1>1, <1>2, InvIsGoodWorld DEF IInv

\* The tables stay good.
LEMMA NextKeepsWorldGood ==
  ASSUME IInv, [Next]_vars
  PROVE  GoodWorld(world')
<1> USE DEF IInv
<1>0. GoodWorld(world) /\ TypeOK
  BY InvIsGoodWorld
<1>1. ASSUME world' = world PROVE GoodWorld(world')
  BY <1>0, <1>1
<1>2. ASSUME NEW c \in Clients, Pusher(c) PROVE world' = world
  BY <1>2 DEF Pusher, Open, FirstReply, Confirm, ForcedReply, RequestTimeout, HangUp,
              DeliverForceClose
<1>3. CASE PusherCrash
  BY <1>1, <1>3 DEF PusherCrash
<1>4. CASE Provision
  <2>1. PICK c \in Clients, force \in BOOLEAN :
          \E e \in Lookup(c) :
            \/ ProvisionAsk(c, force, e)
            \/ ProvisionBanned(c, force, e)
            \/ \E m \in Maps : ProvisionNew(c, force, e, m)
    BY <1>4 DEF Provision
  <2>2. Lookup(c) \subseteq Entities
    BY SessionAssumption DEF Lookup, Entities, DefaultEntity
  <2>4. ASSUME NEW e \in Lookup(c), ProvisionAsk(c, force, e) PROVE GoodWorld(world')
    BY <1>1, <2>4 DEF ProvisionAsk
  <2>5. ASSUME NEW e \in Lookup(c), ProvisionBanned(c, force, e) PROVE GoodWorld(world')
    <3>1. world' = Displaced(world, e, c) /\ ~Live(world, c) /\ e \in Entities
      BY <2>2, <2>5 DEF ProvisionBanned, WorldBecomes
    <3> QED BY <1>0, <3>1, DisplacedIsGood
  <2>6. ASSUME NEW e \in Lookup(c), NEW m \in Maps, ProvisionNew(c, force, e, m)
        PROVE  GoodWorld(world')
    <3>1. /\ world' = Installed(Displaced(world, e, c), c, e, m)
          /\ ~Live(world, c) /\ e \in Entities
      BY <2>2, <2>6 DEF ProvisionNew, WorldBecomes
    <3> QED BY <1>0, <3>1, DisplacedIsGood, InstalledIsGood
  <2> QED BY <2>1, <2>4, <2>5, <2>6
<1>5. CASE Disconnect
  <2>1. Head(disconnectQ) \in Clients
    BY <1>0, <1>5 DEF TypeOK, Disconnect
  <2>2. world' = Despawned(world, Head(disconnectQ))
    BY <1>5 DEF Disconnect, WorldBecomes
  <2> QED BY <1>0, <2>1, <2>2, DespawnedIsGood
<1>6. CASE LoseDisconnect
  BY <1>1, <1>6 DEF LoseDisconnect
<1>7. ASSUME NEW c \in Clients, GoSilent(c) \/ Heartbeat(c) PROVE GoodWorld(world')
  <2>1. \E S \in SUBSET Clients : world' = [world EXCEPT !.silent = S]
    BY <1>0, <1>7 DEF GoSilent, Heartbeat, TypeOK, World
  <2> QED BY <1>0, <2>1, SilenceIsGood
<1>8. ASSUME NEW c \in Clients, Kick(c) PROVE world' = world
  BY <1>8 DEF Kick
<1>9. CASE Reap
  BY <1>1, <1>9 DEF Reap
<1>10. ASSUME NEW b \in Bans, IssueBan(b) PROVE world' = world
  BY <1>10 DEF IssueBan
<1>11. ASSUME NEW d \in doomed, Despawn(d) PROVE GoodWorld(world')
  <2>1. d.client \in Clients
    BY <1>0 DEF TypeOK
  <2>2. world' = Despawned(world, d.client)
    BY <1>11 DEF Despawn, WorldBecomes
  <2> QED BY <1>0, <2>1, <2>2, DespawnedIsGood
<1>12. ASSUME NEW c \in Clients, NEW m \in Maps, Transition(c, m) PROVE GoodWorld(world')
  BY <1>0, <1>12, TransitionIsGood DEF Transition
<1>13. ASSUME NEW m \in Maps, ReloadMap(m) PROVE GoodWorld(world')
  <2>1. world' = [world EXCEPT !.zones[m] = ZonesOn(world, m)]
    BY <1>13 DEF ReloadMap, ZonesOn
  <2> QED BY <1>0, <2>1, ReloadIsGood
<1>14. CASE KernelRestart
  <2>1. world' = EmptyWorld(world.map) /\ world.map \in [Clients -> Maps]
    BY <1>0, <1>14 DEF KernelRestart, WorldBecomes, TypeOK, World
  <2> QED BY <2>1, EmptyIsGood
<1>15. CASE UNCHANGED vars
  BY <1>1, <1>15 DEF vars
<1> QED
  BY <1>1, <1>2, <1>3, <1>4, <1>5, <1>6, <1>7, <1>8, <1>9, <1>10, <1>11, <1>12, <1>13,
     <1>14, <1>15 DEF Next

\* The pusher's side and the queues keep their types.
LEMMA NextKeepsTypes ==
  ASSUME IInv, [Next]_vars, world' \in World
  PROVE  TypeOK'
<1> USE DEF IInv, TypeOK
<1>1. \A c \in Clients : CloseWs(c) => ws' \in [Clients -> WsStates] /\ disconnectQ' \in Seq(Clients)
  BY DEF CloseWs, WsStates
<1>2. \A c \in Clients, r \in Replies \cup {None} :
        Answer(c, r) => reply' \in [Clients -> Replies \cup {None}]
  BY DEF Answer
<1>3. \A w : WorldBecomes(w) => ended' \subseteq Clients
  BY DEF WorldBecomes, EndedBy
<1>4. ASSUME NEW c \in Clients, Pusher(c) PROVE TypeOK'
  <2>1. CASE Open(c)
    <3>1. [client |-> c, force |-> FALSE] \in Connect
      BY DEF Connect
    <3> QED BY <2>1, <3>1 DEF Open, WsStates
  <2>2. CASE FirstReply(c)
    BY <1>1, <2>2 DEF FirstReply, WsStates
  <2>3. CASE Confirm(c)
    <3>1. [client |-> c, force |-> TRUE] \in Connect
      BY DEF Connect
    <3> QED BY <2>3, <3>1 DEF Confirm, WsStates
  <2>4. CASE ForcedReply(c)
    BY <1>1, <2>4 DEF ForcedReply, WsStates
  <2>5. CASE RequestTimeout(c)
    BY <1>1, <2>5 DEF RequestTimeout, WsStates
  <2>6. CASE HangUp(c)
    BY <1>1, <2>6 DEF HangUp
  <2>7. CASE DeliverForceClose(c)
    BY <1>1, <2>7 DEF DeliverForceClose
  <2> QED BY <1>4, <2>1, <2>2, <2>3, <2>4, <2>5, <2>6, <2>7 DEF Pusher
<1>5. CASE PusherCrash
  BY <1>5 DEF PusherCrash, WsStates
<1>6. CASE Provision
  <2>1. PICK c \in Clients, force \in BOOLEAN :
          \E e \in Lookup(c) :
            \/ ProvisionAsk(c, force, e)
            \/ ProvisionBanned(c, force, e)
            \/ \E m \in Maps : ProvisionNew(c, force, e, m)
    BY <1>6 DEF Provision
  <2>2. Receiving(c, force)
    BY <2>1 DEF ProvisionAsk, ProvisionBanned, ProvisionNew
  <2>3. /\ connectQ' \in Seq(Connect)
        /\ UNCHANGED <<ws, disconnectQ, doomed, banned>>
    BY <2>2 DEF Receiving
  <2>4. reply' \in [Clients -> Replies \cup {None}]
    <3>1. \E r \in Replies \cup {None} : Answer(c, r)
      BY <2>1 DEF ProvisionAsk, ProvisionBanned, ProvisionNew, Replies
    <3> QED BY <1>2, <3>1
  <2>5. ended' \subseteq Clients
    BY <1>3, <2>1 DEF ProvisionAsk, ProvisionBanned, ProvisionNew
  <2>6. forceClose' \subseteq Clients
    <3>1. \A e \in Entities : HeldByOther(world, e, c) => world.holder[e] \in Clients
      BY DEF HeldByOther, World
    <3>2. Lookup(c) \subseteq Entities
      BY SessionAssumption DEF Lookup, Entities, DefaultEntity
    <3>3. ASSUME NEW e \in Lookup(c), NEW m \in Maps, ProvisionNew(c, force, e, m)
          PROVE  forceClose' \subseteq Clients
      BY <3>1, <3>2, <3>3 DEF ProvisionNew
    <3> QED BY <2>1, <3>3 DEF ProvisionAsk, ProvisionBanned
  <2> QED BY <2>3, <2>4, <2>5, <2>6
<1>7. CASE Disconnect
  BY <1>3, <1>7 DEF Disconnect
<1>8. CASE LoseDisconnect
  BY <1>8 DEF LoseDisconnect
<1>9. ASSUME NEW c \in Clients, GoSilent(c) \/ Heartbeat(c) PROVE TypeOK'
  BY <1>9 DEF GoSilent, Heartbeat
<1>10. ASSUME NEW c \in Clients, Kick(c) PROVE TypeOK'
  BY <1>10 DEF Kick
<1>11. CASE Reap
  <2>1. Stale \subseteq Clients
    BY DEF Stale, World
  <2>2. {[client |-> c, by |-> "reaper"] : c \in Stale}
          \subseteq [client: Clients, by: {"reaper", "admin"}]
    BY <2>1
  <2> QED BY <1>11, <2>2 DEF Reap
<1>12. ASSUME NEW b \in Bans, IssueBan(b) PROVE TypeOK'
  <2>1. b.matches \subseteq Clients /\ b.kicks \subseteq Clients
    BY SessionAssumption DEF Ban
  <2>2. doomed' \subseteq [client: Clients, by: {"reaper", "admin"}]
    <3> DEFINE found == {c \in b.kicks : Live(world, c)}
    <3>1. CASE found = {}
      BY <1>12, <3>1 DEF IssueBan
    <3>2. CASE found # {}
      <4>1. PICK c \in found : doomed' = doomed \cup {[client |-> c, by |-> "admin"]}
        BY <1>12, <3>2 DEF IssueBan
      <4>2. c \in Clients
        BY <2>1
      <4> QED BY <4>1, <4>2
    <3> QED BY <3>1, <3>2
  <2> QED BY <1>12, <2>1, <2>2 DEF IssueBan
<1>13. ASSUME NEW d \in doomed, Despawn(d) PROVE TypeOK'
  BY <1>3, <1>13 DEF Despawn
<1>14. ASSUME NEW c \in Clients, NEW m \in Maps, Transition(c, m) PROVE TypeOK'
  BY <1>14 DEF Transition
<1>15. ASSUME NEW m \in Maps, ReloadMap(m) PROVE TypeOK'
  BY <1>15 DEF ReloadMap
<1>16. CASE KernelRestart
  BY <1>3, <1>16 DEF KernelRestart
<1>17. CASE UNCHANGED vars
  BY <1>17 DEF vars
<1> QED
  BY <1>4, <1>5, <1>6, <1>7, <1>8, <1>9, <1>10, <1>11, <1>12, <1>13, <1>14, <1>15, <1>16,
     <1>17 DEF Next

\* The invariant is inductive.
LEMMA NextKeepsInv == IInv /\ [Next]_vars => IInv'
<1> SUFFICES ASSUME IInv, [Next]_vars PROVE IInv'
  OBVIOUS
<1>1. GoodWorld(world')
  BY NextKeepsWorldGood
<1>2. TypeOK'
  BY <1>1, NextKeepsTypes DEF GoodWorld
<1>3. TablesAgree'
  BY <1>1 DEF GoodWorld, TablesAgree, Live
<1>4. OneZonePerAvatar'
  BY <1>1 DEF GoodWorld, ZonesOn, OneZonePerAvatar, Live
<1> QED BY <1>2, <1>3, <1>4 DEF IInv

LEMMA InvHolds == Spec => []IInv
BY InitIsGood, NextKeepsInv, PTL DEF Spec

-----------------------------------------------------------------------------
(* What the code relies on.                                                *)

\* Every variable keeps its type, whatever the order of messages and faults.
THEOREM TypeCorrect == Spec => []TypeOK
BY InvHolds, PTL DEF IInv

\* provisionClient and despawnClientLocked keep s.clients, s.entities and
\* s.entityIDToClient in agreement on every path, for any number of windows,
\* with the reaper and the admins acting on stale choices.
THEOREM TablesAlwaysAgree == Spec => []TablesAgree
BY InvHolds, PTL DEF IInv

\* No two connected clients are ever the same player.
THEOREM NobodyIsConnectedTwice == Spec => []OneSessionPerIdentity
<1>1. IInv => OneSessionPerIdentity
  BY DEF IInv, TablesAgree, OneSessionPerIdentity
<1> QED BY <1>1, InvHolds, PTL

\* The mobile zones of a map are those of the avatars on it, exactly.
THEOREM ZonesFollowAvatars == Spec => []OneZonePerAvatar
BY InvHolds, PTL DEF IInv

-----------------------------------------------------------------------------
(* What a connection may ask: Asking relates where handleWS stands, the    *)
(* queue of requests and the reply in the inbox to the sessions.           *)

\* A connection worldsim has neither given an entity nor taken one from.
Untouched(c) == ~Live(world, c) /\ c \notin ended
Queued(c) == \E i \in 1..Len(connectQ) : connectQ[i].client = c

\* A connection asks when it is untouched, and asks one thing at a time.
Asking ==
  /\ \A i, j \in 1..Len(connectQ) : connectQ[i].client = connectQ[j].client => i = j
  /\ \A c \in Clients :
       /\ Queued(c) => Untouched(c)
       /\ reply[c] # None => ws[c] \in {"requested", "forced"} /\ ~Queued(c)
       /\ reply[c] = "already" => Untouched(c)
       /\ ws[c] \in {"idle", "confirm"} => Untouched(c) /\ ~Queued(c)

\* A despawn ends the session of that client alone and frees its identity.
LEMMA DespawnedIsExact ==
  ASSUME NEW w, GoodWorld(w), NEW c \in Clients
  PROVE  /\ EndedBy(w, Despawned(w, c)) = IF Live(w, c) THEN {c} ELSE {}
         /\ Live(w, c) => Despawned(w, c).holder = [w.holder EXCEPT ![w.session[c]] = None]
<1>1. CASE Live(w, c)
  <2>1. w \in World /\ w.session[c] \in Entities /\ w.entity[w.session[c]] = c
    BY <1>1 DEF GoodWorld, World, Live
  <2>2. Despawned(w, c).holder = [w.holder EXCEPT ![w.session[c]] = None]
    BY <1>1, <2>1 DEF Despawned, World
  <2>3. EndedBy(w, Despawned(w, c)) = {c}
    BY <1>1, DespawnedIsGood DEF EndedBy, Live
  <2> QED BY <1>1, <2>2, <2>3
<1>2. CASE ~Live(w, c)
  BY <1>2 DEF Despawned, EndedBy
<1> QED BY <1>1, <1>2

\* The forced displacement ends the session of the holder, if another has it.
LEMMA DisplacedIsExact ==
  ASSUME NEW w, GoodWorld(w), NEW c \in Clients, NEW e \in Entities, ~Live(w, c)
  PROVE  /\ ~HeldByOther(w, e, c) => Displaced(w, e, c) = w /\ w.holder[e] = None
         /\ HeldByOther(w, e, c) =>
              /\ w.holder[e] \in Clients
              /\ EndedBy(w, Displaced(w, e, c)) = {w.holder[e]}
              /\ Displaced(w, e, c).holder = [w.holder EXCEPT ![e] = None]
         /\ \A d \in Clients : Live(Displaced(w, e, c), d) => Live(w, d)
<1>1. CASE HeldByOther(w, e, c)
  <2> DEFINE h == w.holder[e]
  <2>1. h \in Clients /\ w.session[h] = e /\ Displaced(w, e, c) = Despawned(w, h)
    BY <1>1 DEF HeldByOther, GoodWorld, World, Displaced
  <2>2. Live(w, h)
    BY <2>1, NoneIsNobody DEF Live
  <2> HIDE DEF h
  <2>3. \A d \in Clients : Live(Despawned(w, h), d) => Live(w, d)
    BY <2>1, DespawnedIsGood DEF Live
  <2> QED BY <1>1, <2>1, <2>2, <2>3, DespawnedIsExact DEF h
<1>2. CASE ~HeldByOther(w, e, c)
  <2>1. Displaced(w, e, c) = w
    BY <1>2 DEF Displaced
  <2> QED BY <1>2, <2>1, DisplacedIsGood
<1> QED BY <1>1, <1>2

\* The tail of provisionClient starts one session and ends none.
LEMMA InstalledIsExact ==
  ASSUME NEW w, GoodWorld(w), NEW c \in Clients, NEW e \in Entities, NEW m \in Maps,
         w.holder[e] = None
  PROVE  /\ \A d \in Clients :
              Installed(w, c, e, m).session[d] = IF d = c THEN e ELSE w.session[d]
         /\ \A f \in Entities :
              Installed(w, c, e, m).holder[f] = IF f = e THEN c ELSE w.holder[f]
<1>1. w \in World /\ w.entity[e] = None
  BY DEF GoodWorld
<1>2. StaleZoneRemoved(w, e) = w
  BY <1>1 DEF StaleZoneRemoved
<1> QED BY <1>1, <1>2 DEF Installed, World

\* A step starts no session but that of the connection whose request it
\* answers, and only live sessions end.
LEMMA SessionsComeAndGo ==
  ASSUME IInv, [Next]_vars
  PROVE  \A d \in Clients :
           /\ Live(world', d) => Live(world, d) \/ \E force \in BOOLEAN : Receiving(d, force)
           /\ d \in ended' => d \in ended \/ Live(world, d)
<1> USE DEF IInv
<1>0. GoodWorld(world) /\ TypeOK
  BY InvIsGoodWorld
<1> DEFINE Kept == ended' = ended /\ \A d \in Clients : Live(world', d) <=> Live(world, d)
           Shrunk == ended' = ended \cup EndedBy(world, world')
                     /\ \A d \in Clients : Live(world', d) => Live(world, d)
<1> SUFFICES Kept \/ Shrunk \/ \E c \in Clients, force \in BOOLEAN :
                 /\ Receiving(c, force)
                 /\ ended' = ended \cup EndedBy(world, world')
                 /\ \A d \in Clients \ {c} : Live(world', d) => Live(world, d)
  BY DEF EndedBy
<1>2. ASSUME NEW c \in Clients, Pusher(c) PROVE Kept
  BY <1>2 DEF Pusher, Open, FirstReply, Confirm, ForcedReply, RequestTimeout, HangUp,
              DeliverForceClose
<1>3. CASE PusherCrash
  BY <1>3 DEF PusherCrash
<1>4. ASSUME NEW c \in Clients, NEW force \in BOOLEAN, NEW e \in Lookup(c)
      PROVE  /\ e \in Entities
             /\ ProvisionAsk(c, force, e) => Kept
             /\ ProvisionBanned(c, force, e) => Shrunk
             /\ \A m \in Maps : ProvisionNew(c, force, e, m) =>
                  /\ Receiving(c, force)
                  /\ ended' = ended \cup EndedBy(world, world')
                  /\ \A d \in Clients \ {c} : Live(world', d) => Live(world, d)
  <2>1. e \in Entities
    BY SessionAssumption DEF Lookup, Entities, DefaultEntity
  <2>2. ProvisionAsk(c, force, e) => Kept
    BY DEF ProvisionAsk
  <2> DEFINE w == Displaced(world, e, c)
  <2>d. ASSUME ~Live(world, c)
        PROVE  /\ GoodWorld(w) /\ w.holder[e] = None
               /\ \A d \in Clients : Live(w, d) => Live(world, d)
    <3>1. GoodWorld(w) /\ w.holder[e] = None
      BY <1>0, <2>1, <2>d, DisplacedIsGood
    <3>2. \A d \in Clients : Live(w, d) => Live(world, d)
      BY <1>0, <2>1, <2>d, DisplacedIsExact
    <3> QED BY <3>1, <3>2
  <2> HIDE DEF w
  <2>3. ASSUME ProvisionBanned(c, force, e) PROVE Shrunk
    <3>1. ~Live(world, c) /\ world' = w /\ ended' = ended \cup EndedBy(world, w)
      BY <2>3 DEF ProvisionBanned, WorldBecomes, w
    <3> QED BY <2>d, <3>1
  <2>4. ASSUME NEW m \in Maps, ProvisionNew(c, force, e, m)
        PROVE  /\ Receiving(c, force)
               /\ ended' = ended \cup EndedBy(world, world')
               /\ \A d \in Clients \ {c} : Live(world', d) => Live(world, d)
    <3>1. world' = Installed(w, c, e, m) /\ ~Live(world, c)
      BY <2>4 DEF ProvisionNew, WorldBecomes, w
    <3>2. \A d \in Clients : world'.session[d] = IF d = c THEN e ELSE w.session[d]
      BY <2>1, <2>d, <3>1, InstalledIsExact
    <3>3. \A d \in Clients \ {c} : Live(world', d) => Live(w, d)
      BY <2>d, <3>1, <3>2 DEF Live, GoodWorld, World
    <3> QED BY <2>4, <2>d, <3>1, <3>3 DEF ProvisionNew, WorldBecomes
  <2> QED BY <2>1, <2>2, <2>3, <2>4
<1>5. ASSUME NEW c \in Clients, WorldBecomes(Despawned(world, c)) PROVE Shrunk
  BY <1>0, <1>5, DespawnedIsGood DEF WorldBecomes, Live
<1>6. CASE Disconnect
  <2>1. Head(disconnectQ) \in Clients
    BY <1>0, <1>6 DEF TypeOK, Disconnect
  <2> QED BY <1>5, <1>6, <2>1 DEF Disconnect
<1>7. CASE LoseDisconnect
  BY <1>7 DEF LoseDisconnect
<1>8. ASSUME NEW c \in Clients, GoSilent(c) \/ Heartbeat(c) \/ Kick(c) PROVE Kept
  <2>1. world'.session = world.session /\ ended' = ended
    BY <1>0, <1>8 DEF GoSilent, Heartbeat, Kick, TypeOK, World
  <2> QED BY <2>1 DEF Live
<1>9. CASE Reap
  BY <1>9 DEF Reap
<1>10. ASSUME NEW b \in Bans, IssueBan(b) PROVE Kept
  BY <1>10 DEF IssueBan
<1>11. ASSUME NEW d \in doomed, Despawn(d) PROVE Shrunk
  <2>1. d.client \in Clients
    BY <1>0 DEF TypeOK
  <2> QED BY <1>5, <1>11, <2>1 DEF Despawn
<1>12. ASSUME NEW c \in Clients, NEW m \in Maps, Transition(c, m) PROVE Kept
  <2>1. world'.session = world.session /\ ended' = ended
    BY <1>0, <1>12 DEF Transition, TypeOK, World
  <2> QED BY <2>1 DEF Live
<1>13. ASSUME NEW m \in Maps, ReloadMap(m) PROVE Kept
  <2>1. world'.session = world.session /\ ended' = ended
    BY <1>0, <1>13 DEF ReloadMap, TypeOK, World
  <2> QED BY <2>1 DEF Live
<1>14. CASE KernelRestart
  <2>1. \A d \in Clients : ~Live(world', d)
    BY <1>14 DEF KernelRestart, WorldBecomes, EmptyWorld, Live
  <2> QED BY <1>14, <2>1 DEF KernelRestart, WorldBecomes
<1>15. CASE UNCHANGED vars
  BY <1>15 DEF vars
<1> QED
  BY <1>2, <1>3, <1>4, <1>6, <1>7, <1>8, <1>9, <1>10, <1>11, <1>12, <1>13, <1>14, <1>15
  DEF Next, Provision

\* The queue of requests grows at its end and shrinks at its head.
LEMMA QueuedAppend ==
  ASSUME TypeOK, NEW c \in Clients, NEW force \in BOOLEAN,
         connectQ' = Append(connectQ, [client |-> c, force |-> force])
  PROVE  /\ \A d \in Clients : Queued(d)' <=> Queued(d) \/ d = c
         /\ \A i \in 1..Len(connectQ)' :
              connectQ'[i] = IF i <= Len(connectQ) THEN connectQ[i]
                             ELSE [client |-> c, force |-> force]
         /\ Len(connectQ)' = Len(connectQ) + 1
<1> DEFINE m == [client |-> c, force |-> force]
<1>1. connectQ \in Seq(Connect) /\ m \in Connect
  BY DEF TypeOK, Connect
<1>2. m.client = c
  OBVIOUS
<1> HIDE DEF m
<1>3. /\ Len(connectQ) \in Nat /\ Len(connectQ') = Len(connectQ) + 1
      /\ \A i \in 1..Len(connectQ) : connectQ'[i] = connectQ[i]
      /\ connectQ'[Len(connectQ) + 1] = m
  BY <1>1 DEF m
<1>4. \A i \in 1..Len(connectQ)' : connectQ'[i] = IF i <= Len(connectQ) THEN connectQ[i] ELSE m
  BY <1>3
<1>5. \A d \in Clients : Queued(d)' <=> Queued(d) \/ d = c
  BY <1>2, <1>3, <1>4 DEF Queued
<1> QED BY <1>3, <1>4, <1>5 DEF m

LEMMA QueuedTail ==
  ASSUME TypeOK, NEW c \in Clients, NEW force \in BOOLEAN, Receiving(c, force)
  PROVE  /\ connectQ[1] = [client |-> c, force |-> force]
         /\ Len(connectQ) \in Nat \ {0} /\ Len(connectQ)' = Len(connectQ) - 1
         /\ \A i \in 1..Len(connectQ)' : connectQ'[i] = connectQ[i + 1]
         /\ Queued(c)
         /\ \A d \in Clients : Queued(d)' => Queued(d)
<1>1. connectQ \in Seq(Connect) /\ connectQ # <<>> /\ connectQ' = Tail(connectQ)
  BY DEF TypeOK, Receiving
<1>2. /\ Len(connectQ) \in Nat /\ Len(connectQ) >= 1 /\ Len(connectQ') = Len(connectQ) - 1
      /\ \A i \in 1..Len(connectQ') : connectQ'[i] = connectQ[i + 1]
  BY <1>1
<1>3. connectQ[1] = [client |-> c, force |-> force]
  BY <1>1 DEF Receiving
<1>4. Queued(c)
  BY <1>2, <1>3 DEF Queued
<1>5. \A d \in Clients : Queued(d)' => Queued(d)
  BY <1>2 DEF Queued
<1> QED BY <1>2, <1>3, <1>4, <1>5

\* The first message queued is the only one of its connection.
LEMMA AskingKept ==
  ASSUME IInv, Asking, [Next]_vars
  PROVE  Asking'
<1>0. TypeOK
  BY DEF IInv
<1> DEFINE One == \A i, j \in 1..Len(connectQ) :
                    connectQ[i].client = connectQ[j].client => i = j
           Fine(d) == /\ Queued(d) => Untouched(d)
                      /\ reply[d] # None => ws[d] \in {"requested", "forced"} /\ ~Queued(d)
                      /\ reply[d] = "already" => Untouched(d)
                      /\ ws[d] \in {"idle", "confirm"} => Untouched(d) /\ ~Queued(d)
<1>1. One /\ \A d \in Clients : Fine(d)
  BY DEF Asking
<1>2. ASSUME One', \A d \in Clients : Fine(d)' PROVE Asking'
  BY <1>2 DEF Asking
<1>3. ASSUME NEW d \in Clients, Untouched(d), \A force \in BOOLEAN : ~Receiving(d, force)
      PROVE  Untouched(d)'
  BY <1>3, SessionsComeAndGo DEF Untouched
<1>4. ASSUME UNCHANGED connectQ
      PROVE  One' /\ \A d \in Clients : (Queued(d)' <=> Queued(d)) /\ (Untouched(d) => Untouched(d)')
  <2>1. One' /\ \A d \in Clients : Queued(d)' <=> Queued(d)
    BY <1>1, <1>4 DEF Queued
  <2>2. ASSUME NEW d \in Clients, NEW force \in BOOLEAN, Receiving(d, force) PROVE FALSE
    <3>1. Len(connectQ) \in Nat /\ Len(connectQ)' = Len(connectQ) - 1
      BY <1>0, <2>2, QueuedTail
    <3> QED BY <1>4, <3>1
  <2> QED BY <1>3, <2>1, <2>2
<1>5. ASSUME UNCHANGED <<ws, reply, connectQ>> PROVE Asking'
  BY <1>1, <1>2, <1>4, <1>5
<1>6. ASSUME NEW c \in Clients, NEW force \in BOOLEAN, ws[c] \in {"idle", "confirm"},
             connectQ' = Append(connectQ, [client |-> c, force |-> force]),
             ws' = [ws EXCEPT ![c] = IF force THEN "forced" ELSE "requested"],
             UNCHANGED <<reply, world, ended>>
      PROVE  Asking'
  <2>1. ~Queued(c) /\ Untouched(c)
    BY <1>1, <1>6
  <2>2. \A d \in Clients : Untouched(d)' <=> Untouched(d)
    BY <1>6 DEF Untouched
  <2>3. One'
    BY <1>0, <1>1, <1>6, <2>1, QueuedAppend DEF Queued, TypeOK
  <2>4. \A d \in Clients : Fine(d)'
    BY <1>0, <1>1, <1>6, <2>1, <2>2, QueuedAppend DEF TypeOK
  <2> QED BY <1>2, <2>3, <2>4
<1>7. ASSUME NEW c \in Clients, Pusher(c) PROVE Asking'
  <2>1. CASE Open(c)
    BY <1>6, <2>1 DEF Open
  <2>2. CASE Confirm(c)
    BY <1>6, <2>2 DEF Confirm
  <2>3. ASSUME UNCHANGED connectQ,
               reply' \in {reply, [reply EXCEPT ![c] = None]},
               \/ ws' = ws
               \/ \E to \in {"open", "closed", "confirm"} :
                    /\ ws' = [ws EXCEPT ![c] = to]
                    /\ to = "confirm" => reply[c] = "already"
                    /\ reply' = [reply EXCEPT ![c] = None] \/ reply[c] = None
        PROVE  Asking'
    <3>1. One' /\ \A d \in Clients : (Queued(d)' <=> Queued(d)) /\ (Untouched(d) => Untouched(d)')
      BY <1>4, <2>3
    <3>2. \A d \in Clients : reply'[d] \in {None, reply[d]} /\ (d # c => ws'[d] = ws[d])
      BY <1>0, <2>3 DEF TypeOK
    <3>3. \/ ws'[c] = ws[c]
          \/ /\ ws'[c] \in {"open", "closed", "confirm"} /\ reply'[c] = None
             /\ ws'[c] = "confirm" => reply[c] = "already"
      BY <1>0, <2>3 DEF TypeOK
    <3>4. ASSUME NEW d \in Clients PROVE Fine(d)'
      BY <1>1, <3>1, <3>2, <3>3, SessionAssumption
    <3> QED BY <1>2, <3>1, <3>4
  <2>4. CASE FirstReply(c)
    BY <2>3, <2>4 DEF FirstReply, CloseWs
  <2>5. CASE ForcedReply(c)
    BY <2>3, <2>5 DEF ForcedReply, CloseWs
  <2>6. CASE RequestTimeout(c)
    BY <2>3, <2>6 DEF RequestTimeout, CloseWs
  <2>7. CASE HangUp(c)
    <3>1. reply[c] = None
      BY <1>1, <2>7 DEF HangUp
    <3>2. ws' = [ws EXCEPT ![c] = "closed"] /\ UNCHANGED <<connectQ, reply>>
      BY <2>7 DEF HangUp, CloseWs
    <3> QED BY <2>3, <3>1, <3>2
  <2>8. CASE DeliverForceClose(c)
    BY <2>3, <2>8 DEF DeliverForceClose, CloseWs
  <2> QED BY <1>7, <2>1, <2>2, <2>4, <2>5, <2>6, <2>7, <2>8 DEF Pusher
<1>8. CASE PusherCrash
  <2>1. One' /\ \A d \in Clients : (Queued(d)' <=> Queued(d)) /\ (Untouched(d) => Untouched(d)')
    BY <1>4, <1>8 DEF PusherCrash
  <2>2. \A d \in Clients : reply'[d] = None /\ ws'[d] = IF ws[d] = "idle" THEN "idle" ELSE "closed"
    BY <1>8 DEF PusherCrash
  <2>3. ASSUME NEW d \in Clients PROVE Fine(d)'
    BY <1>1, <2>1, <2>2, SessionAssumption
  <2> QED BY <1>2, <2>1, <2>3
<1>9. CASE Provision
  <2>1. PICK c \in Clients, force \in BOOLEAN :
          \E e \in Lookup(c) :
            \/ ProvisionAsk(c, force, e)
            \/ ProvisionBanned(c, force, e)
            \/ \E m \in Maps : ProvisionNew(c, force, e, m)
    BY <1>9 DEF Provision
  <2>2. Receiving(c, force) /\ UNCHANGED ws
    BY <2>1 DEF ProvisionAsk, ProvisionBanned, ProvisionNew, Receiving
  <2>3. \/ Answer(c, "already") /\ UNCHANGED <<world, ended>>
        \/ Answer(c, "banned")
        \/ Answer(c, "ok")
    BY <2>1 DEF ProvisionAsk, ProvisionBanned, ProvisionNew
  <2>4. Queued(c) /\ ~Queued(c)' /\ One'
    <3>0. /\ connectQ[1] = [client |-> c, force |-> force]
          /\ Len(connectQ) \in Nat \ {0} /\ Len(connectQ)' = Len(connectQ) - 1
          /\ \A i \in 1..Len(connectQ)' : connectQ'[i] = connectQ[i + 1]
          /\ Queued(c)
      BY <1>0, <2>2, QueuedTail
    <3>1. \A i \in 1..Len(connectQ)' : connectQ'[i] = connectQ[i + 1] /\ i + 1 \in 1..Len(connectQ)
      BY <3>0
    <3>2. connectQ[1].client = c /\ 1 \in 1..Len(connectQ) /\ Queued(c)
      BY <3>0
    <3>3. \A i \in 1..Len(connectQ)' : connectQ'[i].client # c
      BY <1>1, <3>1, <3>2
    <3>4. One'
      BY <1>1, <3>1
    <3> QED BY <3>2, <3>3, <3>4 DEF Queued
  <2>5. \A d \in Clients \ {c} : ~\E f \in BOOLEAN : Receiving(d, f)
    BY <2>2 DEF Receiving
  <2>6. \A d \in Clients \ {c} : Untouched(d) => Untouched(d)'
    BY <1>3, <2>5
  <2>7. \A d \in Clients : Queued(d)' => Queued(d)
    BY <1>0, <2>2, QueuedTail
  <2>8. \A d \in Clients \ {c} : Fine(d)'
    BY <1>0, <1>1, <2>2, <2>3, <2>6, <2>7 DEF Answer, TypeOK
  <2>9. Untouched(c) /\ reply[c] = None /\ ws[c] \notin {"idle", "confirm"}
    BY <1>1, <2>4
  <2>10. Fine(c)'
    <3>1. reply'[c] = "already" => UNCHANGED <<world, ended>>
      BY <1>0, <2>3, <2>9, SessionAssumption DEF Answer, TypeOK
    <3>2. reply'[c] # None => ws[c] \in {"requested", "forced"}
      BY <1>0, <2>3, <2>9 DEF Answer, TypeOK
    <3>3. reply'[c] = "already" => Untouched(c)'
      BY <2>9, <3>1 DEF Untouched
    <3> QED BY <2>2, <2>4, <2>9, <3>2, <3>3
  <2> QED BY <1>2, <2>4, <2>8, <2>10
<1>10. CASE KernelRestart
  <2>1. One' /\ \A d \in Clients : ~Queued(d)'
    BY <1>10 DEF KernelRestart, Queued
  <2>2. \A d \in Clients : Untouched(d) => Untouched(d)'
    <3>1. \A d \in Clients : ~Live(world', d)
      BY <1>10 DEF KernelRestart, WorldBecomes, EmptyWorld, Live
    <3> QED BY <1>10, <3>1 DEF KernelRestart, WorldBecomes, EndedBy, Untouched
  <2> QED BY <1>1, <1>2, <1>10, <2>1, <2>2 DEF KernelRestart
<1> QED
  BY <1>5, <1>7, <1>8, <1>9, <1>10
  DEF Next, vars, Disconnect, LoseDisconnect, GoSilent, Heartbeat, Kick, Reap, IssueBan,
      Despawn, Transition, ReloadMap

LEMMA AskingHolds == Spec => []Asking
<1>1. Init => Asking
  BY DEF Init, Asking, Queued, Untouched, EmptyWorld, Live
<1>2. IInv /\ Asking /\ [Next]_vars => Asking'
  BY AskingKept
<1> QED BY <1>1, <1>2, InvHolds, PTL DEF Spec

\* A connection is provisioned at most once: a queued client.connected is never
\* for a client that has, or had, an entity, whatever timed out or is repeated.
THEOREM RequestsStayFresh == Spec => []RequestsAreFresh
<1>1. IInv /\ Asking => RequestsAreFresh
  <2> SUFFICES ASSUME IInv, Asking, NEW i \in 1..Len(connectQ)
               PROVE  ~Live(world, connectQ[i].client) /\ connectQ[i].client \notin ended
    BY DEF RequestsAreFresh
  <2>1. connectQ[i].client \in Clients
    <3>1. connectQ[i] \in Connect
      BY DEF IInv, TypeOK
    <3> QED BY <3>1 DEF Connect
  <2> QED BY <2>1 DEF Asking, Queued, Untouched
<1> QED BY <1>1, InvHolds, AskingHolds, PTL

-----------------------------------------------------------------------------
\* Who holds an identity is who has a session with it.
LEMMA HoldersAreLive ==
  ASSUME NEW w, GoodWorld(w)
  PROVE  /\ w.holder \in [Entities -> Clients \cup {None}]
         /\ \A c \in Clients : Live(w, c) <=> \E e \in Entities : w.holder[e] = c
         /\ \A c \in Clients : Live(w, c) => w.session[c] \in Entities /\ w.holder[w.session[c]] = c
         /\ \A e \in Entities : w.holder[e] # None => Live(w, w.holder[e])
BY NoneIsNobody DEF GoodWorld, World, Live

LEMMA UntouchedIsFresh ==
  ASSUME GoodWorld(world), NEW c \in Clients, Untouched(c)
  PROVE  Registry!Fresh(c)
BY HoldersAreLive DEF Untouched, Registry!Fresh, Registry!Holders

\* A despawn releases the identity of the session it ends.
LEMMA DespawnReleases ==
  ASSUME GoodWorld(world), NEW c \in Clients, WorldBecomes(Despawned(world, c)),
         UNCHANGED <<ws, connectQ>>
  PROVE  [Registry!Next]_Registry!vars
<1>1. Consenting' = Consenting
  BY DEF Consenting
<1>2. CASE Live(world, c)
  <2> DEFINE e == world.session[c]
  <2>1. e \in Entities /\ world.holder[e] = c /\ c # None
    BY <1>2, HoldersAreLive, NoneIsNobody
  <2>2. world'.holder = [world.holder EXCEPT ![e] = None] /\ ended' = ended \cup {c}
    BY <1>2, DespawnedIsExact DEF WorldBecomes
  <2>3. Registry!Release(e)
    BY <1>1, <2>1, <2>2 DEF Registry!Release
  <2> QED BY <2>1, <2>3 DEF Registry!Next
<1>3. CASE ~Live(world, c)
  <2>1. world' = world /\ ended' = ended
    BY <1>3 DEF WorldBecomes, Despawned, EndedBy
  <2> QED BY <1>1, <2>1 DEF Registry!vars
<1> QED BY <1>2, <1>3

\* A served request is forgotten: whoever sent it may lose its consent by it.
LEMMA ReceivingSpends ==
  ASSUME TypeOK, Asking, NEW c \in Clients, NEW force \in BOOLEAN, Receiving(c, force)
  PROVE  /\ Consenting' \in {Consenting, Consenting \ {c}}
         /\ force => c \in Consenting
         /\ Untouched(c)
<1>1. /\ connectQ[1] = [client |-> c, force |-> force]
      /\ Len(connectQ) \in Nat \ {0} /\ Len(connectQ)' = Len(connectQ) - 1
      /\ \A i \in 1..Len(connectQ)' : connectQ'[i] = connectQ[i + 1]
      /\ Queued(c)
  BY QueuedTail
<1>2. UNCHANGED ws
  BY DEF Receiving
<1>3. force => c \in Consenting
  BY <1>1 DEF Consenting
<1>4. Untouched(c)
  BY <1>1 DEF Asking
<1> DEFINE Forced(d) == \E i \in 1..Len(connectQ) : connectQ[i] = [client |-> d, force |-> TRUE]
<1>5. \A d \in Clients \ {c} : Forced(d)' <=> Forced(d)
  <2> SUFFICES ASSUME NEW d \in Clients \ {c} PROVE Forced(d)' <=> Forced(d)
    OBVIOUS
  <2>1. ASSUME NEW i \in 1..Len(connectQ)', connectQ'[i] = [client |-> d, force |-> TRUE]
        PROVE  Forced(d)
    <3>1. i + 1 \in 1..Len(connectQ) /\ connectQ[i + 1] = [client |-> d, force |-> TRUE]
      BY <1>1, <2>1
    <3> QED BY <3>1
  <2>2. ASSUME NEW i \in 1..Len(connectQ), connectQ[i] = [client |-> d, force |-> TRUE]
        PROVE  Forced(d)'
    <3>1. i # 1
      BY <1>1, <2>2
    <3>2. i - 1 \in 1..Len(connectQ)' /\ connectQ'[i - 1] = [client |-> d, force |-> TRUE]
      BY <1>1, <2>2, <3>1
    <3> QED BY <3>2
  <2> QED BY <2>1, <2>2
<1>6. Consenting = {d \in Clients : ws[d] = "forced" \/ Forced(d)}
      /\ Consenting' = {d \in Clients : ws[d] = "forced" \/ Forced(d)'}
  BY <1>2 DEF Consenting
<1>7. \A d \in Clients \ {c} : d \in Consenting' <=> d \in Consenting
  BY <1>5, <1>6
<1>8. c \in Consenting' => c \in Consenting
  <2>1. ASSUME NEW i \in 1..Len(connectQ)', connectQ'[i] = [client |-> c, force |-> TRUE]
        PROVE  FALSE
    <3>1. i + 1 \in 1..Len(connectQ) /\ connectQ[i + 1].client = connectQ[1].client
      BY <1>1, <2>1
    <3>2. 1 \in 1..Len(connectQ) /\ i + 1 # 1
      BY <1>1
    <3> QED BY <3>1, <3>2 DEF Asking
  <2> QED BY <1>6, <2>1
<1>9. Consenting' = Consenting \/ Consenting' = Consenting \ {c}
  <2>1. Consenting \subseteq Clients /\ Consenting' \subseteq Clients
    BY <1>6
  <2> QED BY <1>7, <1>8, <2>1
<1> QED BY <1>3, <1>4, <1>9

\* provisionClient gives a free identity away, or one whose holder another
\* window's user agreed to displace.
LEMMA ProvisionClaims ==
  ASSUME GoodWorld(world), TypeOK, Asking, NEW c \in Clients, NEW force \in BOOLEAN,
         NEW e \in Lookup(c), NEW m \in Maps, ProvisionNew(c, force, e, m)
  PROVE  Registry!Next
<1> DEFINE w == Displaced(world, e, c)
<1>1. /\ Receiving(c, force) /\ ~Live(world, c) /\ (HeldByOther(world, e, c) => force)
      /\ world' = Installed(w, c, e, m)
      /\ ended' = ended \cup EndedBy(world, Installed(w, c, e, m))
  BY DEF ProvisionNew, WorldBecomes
<1>2. e \in Entities /\ Owns(e, c)
  BY SessionAssumption DEF Lookup, Entities, DefaultEntity, Owns
<1>3. GoodWorld(w) /\ w.holder[e] = None
  BY <1>1, <1>2, DisplacedIsGood
<1>4. /\ \A d \in Clients : world'.session[d] = IF d = c THEN e ELSE w.session[d]
      /\ \A f \in Entities : world'.holder[f] = IF f = e THEN c ELSE w.holder[f]
  BY <1>1, <1>2, <1>3, InstalledIsExact
<1>5. world'.holder \in [Entities -> Clients \cup {None}]
  <2>1. ~Live(w, c)
    BY <1>1, <1>2, DisplacedIsGood
  <2>2. GoodWorld(Installed(w, c, e, m))
    BY <1>2, <1>3, <2>1, InstalledIsGood
  <2> QED BY <1>1, <2>2 DEF GoodWorld, World
<1>6. EndedBy(world, Installed(w, c, e, m)) = EndedBy(world, w)
  <2>1. \A d \in Clients : d # c => (Live(world', d) <=> Live(w, d))
    BY <1>4 DEF Live
  <2> QED BY <1>1, <2>1 DEF EndedBy
<1>7. Registry!Fresh(c) /\ Consenting' \in {Consenting, Consenting \ {c}} /\ (force => c \in Consenting)
  BY <1>1, ReceivingSpends, UntouchedIsFresh
<1>8. CASE HeldByOther(world, e, c)
  <2>1. /\ EndedBy(world, w) = {world.holder[e]} /\ world.holder[e] \in Clients
        /\ w.holder = [world.holder EXCEPT ![e] = None]
    BY <1>1, <1>2, <1>8, DisplacedIsExact
  <2>2. world'.holder = [world.holder EXCEPT ![e] = c]
    <3>1. world.holder \in [Entities -> Clients \cup {None}]
      BY HoldersAreLive
    <3> QED BY <1>2, <1>4, <1>5, <2>1, <3>1
  <2>3. world.holder[e] # None /\ ended' = ended \cup {world.holder[e]}
    BY <1>1, <1>6, <1>8, <2>1 DEF HeldByOther
  <2>4. Registry!TakeOver(e, c)
    BY <1>1, <1>2, <1>7, <1>8, <2>2, <2>3 DEF Registry!TakeOver
  <2> QED BY <1>2, <2>4 DEF Registry!Next
<1>9. CASE ~HeldByOther(world, e, c)
  <2>1. w = world /\ world.holder[e] = None
    BY <1>1, <1>2, <1>9, DisplacedIsExact
  <2>2. world'.holder = [world.holder EXCEPT ![e] = c]
    <3>1. world.holder \in [Entities -> Clients \cup {None}]
      BY HoldersAreLive
    <3> QED BY <1>2, <1>4, <1>5, <2>1, <3>1
  <2>3. ended' = ended
    BY <1>1, <1>6, <2>1 DEF EndedBy
  <2>4. Registry!Claim(e, c)
    BY <1>2, <1>7, <2>1, <2>2, <2>3 DEF Registry!Claim
  <2> QED BY <1>2, <2>4 DEF Registry!Next
<1> QED BY <1>8, <1>9

\* Every step of the session machinery is a step of the registry or none.
LEMMA StepsImplementRegistry ==
  ASSUME IInv, Asking, [Next]_vars
  PROVE  [Registry!Next]_Registry!vars
<1>0. GoodWorld(world) /\ TypeOK
  BY InvIsGoodWorld DEF IInv
<1>1. ASSUME UNCHANGED <<world, ended>>, Consenting' \subseteq Consenting
      PROVE  [Registry!Next]_Registry!vars
  BY <1>1 DEF Registry!Next, Registry!Withdraw
<1>2. ASSUME world'.holder = world.holder, UNCHANGED <<ws, connectQ, ended>>
      PROVE  [Registry!Next]_Registry!vars
  BY <1>2 DEF Registry!vars, Consenting
<1>3. ASSUME NEW c \in Clients, Pusher(c) PROVE [Registry!Next]_Registry!vars
  <2> DEFINE Forced(d) == \E i \in 1..Len(connectQ) : connectQ[i] = [client |-> d, force |-> TRUE]
  <2>0. Consenting = {d \in Clients : ws[d] = "forced" \/ Forced(d)}
    BY DEF Consenting
  <2>1. CASE Open(c)
    <3>1. Consenting' \subseteq Consenting
      <4>1. \A d \in Clients : Forced(d)' => Forced(d)
        BY <1>0, <2>1, QueuedAppend DEF Open, TypeOK
      <4>2. \A d \in Clients : ws'[d] = "forced" => ws[d] = "forced"
        BY <1>0, <2>1 DEF Open, TypeOK
      <4> QED BY <4>1, <4>2 DEF Consenting
    <3> QED BY <1>1, <2>1, <3>1 DEF Open
  <2>2. CASE Confirm(c)
    <3>1. \A d \in Clients : Forced(d)' <=> Forced(d) \/ d = c
      <4>1. /\ Len(connectQ) \in Nat /\ Len(connectQ)' = Len(connectQ) + 1
            /\ \A i \in 1..Len(connectQ)' :
                 connectQ'[i] = IF i <= Len(connectQ) THEN connectQ[i]
                                ELSE [client |-> c, force |-> TRUE]
        BY <1>0, <2>2, QueuedAppend DEF Confirm, TypeOK
      <4>2. \A i \in 1..Len(connectQ) : i \in 1..Len(connectQ)' /\ connectQ'[i] = connectQ[i]
        BY <4>1
      <4>3. connectQ'[Len(connectQ)'] = [client |-> c, force |-> TRUE]
            /\ Len(connectQ)' \in 1..Len(connectQ)'
        <5>1. Len(connectQ)' \in 1..Len(connectQ)' /\ ~(Len(connectQ)' <= Len(connectQ))
          BY <4>1
        <5> QED BY <4>1, <5>1
      <4>4. \A i \in 1..Len(connectQ)' :
              i \in 1..Len(connectQ) \/ connectQ'[i] = [client |-> c, force |-> TRUE]
        BY <4>1
      <4>5. ASSUME NEW d \in Clients, NEW i \in 1..Len(connectQ)',
                   connectQ'[i] = [client |-> d, force |-> TRUE]
            PROVE  Forced(d) \/ d = c
        <5>1. CASE i \in 1..Len(connectQ)
          <6>1. connectQ[i] = [client |-> d, force |-> TRUE]
            BY <4>2, <4>5, <5>1
          <6> QED BY <5>1, <6>1
        <5>2. CASE connectQ'[i] = [client |-> c, force |-> TRUE]
          BY <4>5, <5>2
        <5> QED BY <4>4, <5>1, <5>2
      <4>6. \A d \in Clients : Forced(d) => Forced(d)'
        BY <4>2
      <4>7. Forced(c)'
        BY <4>3
      <4> QED BY <4>5, <4>6, <4>7
    <3>2. \A d \in Clients : ws'[d] = "forced" <=> ws[d] = "forced" \/ d = c
      BY <1>0, <2>2 DEF Confirm, TypeOK
    <3>3. Consenting' = Consenting \cup {c}
      BY <3>1, <3>2 DEF Consenting
    <3>4. Registry!Fresh(c)
      <4>1. Untouched(c)
        BY <2>2 DEF Asking, Confirm
      <4> QED BY <1>0, <4>1, UntouchedIsFresh
    <3>5. Registry!Agree(c)
      BY <2>2, <3>3, <3>4 DEF Registry!Agree, Confirm
    <3> QED BY <3>5 DEF Registry!Next
  <2>3. ASSUME UNCHANGED connectQ, ws' = ws \/ \E to \in {"open", "closed", "confirm"} : ws' = [ws EXCEPT ![c] = to]
        PROVE  Consenting' \subseteq Consenting
    BY <1>0, <2>3 DEF Consenting, TypeOK
  <2>4. ASSUME FirstReply(c) \/ ForcedReply(c) \/ RequestTimeout(c) \/ HangUp(c) \/ DeliverForceClose(c)
        PROVE  [Registry!Next]_Registry!vars
    <3>1. /\ UNCHANGED <<connectQ, world, ended>>
          /\ ws' = ws \/ \E to \in {"open", "closed", "confirm"} : ws' = [ws EXCEPT ![c] = to]
      BY <2>4 DEF FirstReply, ForcedReply, RequestTimeout, HangUp, DeliverForceClose, CloseWs
    <3> QED BY <1>1, <2>3, <3>1
  <2> QED BY <1>3, <2>1, <2>2, <2>4 DEF Pusher
<1>4. CASE PusherCrash
  <2>1. Consenting' \subseteq Consenting
    BY <1>4 DEF PusherCrash, Consenting
  <2> QED BY <1>1, <1>4, <2>1 DEF PusherCrash
<1>5. ASSUME NEW c \in Clients, NEW force \in BOOLEAN, NEW e \in Lookup(c)
      PROVE  /\ ProvisionAsk(c, force, e) => [Registry!Next]_Registry!vars
             /\ ProvisionBanned(c, force, e) => [Registry!Next]_Registry!vars
  <2>1. ASSUME ProvisionAsk(c, force, e) PROVE [Registry!Next]_Registry!vars
    <3>1. Receiving(c, force) /\ UNCHANGED <<world, ended>>
      BY <2>1 DEF ProvisionAsk
    <3>2. Consenting' \subseteq Consenting
      BY <1>0, <3>1, ReceivingSpends
    <3> QED BY <1>1, <3>1, <3>2
  <2>2. ASSUME ProvisionBanned(c, force, e) PROVE [Registry!Next]_Registry!vars
    <3>1. /\ Receiving(c, force) /\ ~Live(world, c)
          /\ world' = Displaced(world, e, c)
          /\ ended' = ended \cup EndedBy(world, Displaced(world, e, c))
      BY <2>2 DEF ProvisionBanned, WorldBecomes
    <3>2. e \in Entities
      BY SessionAssumption DEF Lookup, Entities, DefaultEntity
    <3>3. Consenting' \in {Consenting, Consenting \ {c}}
      BY <1>0, <3>1, ReceivingSpends
    <3>4. CASE HeldByOther(world, e, c)
      <4>1. /\ ended' = ended \cup {world.holder[e]}
            /\ world'.holder = [world.holder EXCEPT ![e] = None]
        BY <1>0, <3>1, <3>2, <3>4, DisplacedIsExact
      <4>2. Registry!Release(e)
        BY <3>3, <3>4, <4>1 DEF Registry!Release, HeldByOther
      <4> QED BY <3>2, <4>2 DEF Registry!Next
    <3>5. CASE ~HeldByOther(world, e, c)
      <4>1. UNCHANGED <<world, ended>>
        BY <3>1, <3>5 DEF Displaced, EndedBy
      <4> QED BY <1>1, <3>3, <4>1
    <3> QED BY <3>4, <3>5
  <2> QED BY <2>1, <2>2
<1>6. CASE Provision
  BY <1>0, <1>5, <1>6, ProvisionClaims DEF Provision
<1>7. CASE Disconnect
  <2>1. Head(disconnectQ) \in Clients
    BY <1>0, <1>7 DEF TypeOK, Disconnect
  <2> QED BY <1>0, <1>7, <2>1, DespawnReleases DEF Disconnect
<1>8. ASSUME NEW c \in Clients, GoSilent(c) \/ Heartbeat(c) PROVE [Registry!Next]_Registry!vars
  BY <1>0, <1>2, <1>8 DEF GoSilent, Heartbeat, TypeOK, World
<1>9. ASSUME NEW d \in doomed, Despawn(d) PROVE [Registry!Next]_Registry!vars
  <2>1. d.client \in Clients
    BY <1>0 DEF TypeOK
  <2> QED BY <1>0, <1>9, <2>1, DespawnReleases DEF Despawn
<1>10. ASSUME NEW m \in Maps, ReloadMap(m) \/ \E c \in Clients : Transition(c, m)
       PROVE  [Registry!Next]_Registry!vars
  <2>1. world'.holder = world.holder
    BY <1>0, <1>10 DEF Transition, ReloadMap, TypeOK, World
  <2> QED BY <1>2, <1>10, <2>1 DEF Transition, ReloadMap
<1>11. CASE KernelRestart
  <2>1. world'.holder = [e \in Entities |-> None]
    BY <1>11 DEF KernelRestart, WorldBecomes, EmptyWorld
  <2>2. EndedBy(world, world') = Registry!Holders
    <3>1. \A d \in Clients : ~Live(world', d)
      BY <1>11 DEF KernelRestart, WorldBecomes, EmptyWorld, Live
    <3>2. EndedBy(world, world') = {d \in Clients : Live(world, d)}
      BY <3>1 DEF EndedBy
    <3> QED BY <1>0, <3>2, HoldersAreLive, NoneIsNobody DEF Registry!Holders
  <2>3. Consenting' \subseteq Consenting
    BY <1>11 DEF KernelRestart, Consenting
  <2>4. ended' = ended \cup Registry!Holders
    BY <1>11, <2>2 DEF KernelRestart, WorldBecomes
  <2>5. Registry!Forget
    BY <2>1, <2>3, <2>4 DEF Registry!Forget
  <2> QED BY <2>5 DEF Registry!Next
<1>12. CASE UNCHANGED <<ws, connectQ, world, ended>>
  BY <1>2, <1>12
<1> QED
  BY <1>3, <1>4, <1>6, <1>7, <1>8, <1>9, <1>10, <1>11, <1>12
  DEF Next, vars, LoseDisconnect, Kick, Reap, IssueBan

-----------------------------------------------------------------------------
\* Worldsim and the pusher together keep the promise of IdentityRegistry: an
\* identity changes hands only from nobody, or with the consent of the user in
\* the other window, and no connection has a second session.
THEOREM ImplementsRegistry == Spec => RegistrySpec
<1>1. Init => Registry!Init
  BY DEF Init, Registry!Init, EmptyWorld, Consenting
<1>2. IInv /\ Asking /\ [Next]_vars => [Registry!Next]_Registry!vars
  BY StepsImplementRegistry
<1> QED BY <1>1, <1>2, InvHolds, AskingHolds, PTL DEF Spec, RegistrySpec, Registry!Spec
=============================================================================
