------------------------------ MODULE Session ------------------------------
(***************************************************************************)
(* The life of a player session: the pusher's WebSocket handler, the NATS  *)
(* lifecycle subjects, and the World tables that worldsim keeps under      *)
(* s.mu.                                                                   *)
(*                                                                         *)
(* One step is one critical section or one step of one goroutine.  NATS    *)
(* delivers each subscription in order, and different subscriptions        *)
(* independently: client.connected and client.disconnected are two queues. *)
(* Every place where worldsim drops s.mu between choosing a client and     *)
(* despawning it (reaper, kick, ban) is a place where others interleave.   *)
(*                                                                         *)
(* Abstracted: positions and their persistence (module Persistence), the   *)
(* destroy queue and replication (module Replication), ban matching by     *)
(* user, IP or device (a ban is the set of connections CheckBan matches),  *)
(* the clock (a client is "silent" once its last heartbeat is older than   *)
(* clientHeartbeatTimeout).                                                *)
(***************************************************************************)
EXTENDS Naturals, Sequences

CONSTANTS
  Clients,     \* client ids; generateClientID never repeats one
  Users,       \* entity ids PocketBase keeps for logged-in users
  UserOf,      \* [Clients -> Users \cup {Guest}]: who opens the connection
  Guest,       \* a connection without a login
  Admins,      \* users PocketBase marks as admins
  Maps,        \* the loaded maps
  Bans,        \* bans an admin may issue: [matches, kicks]
  Faults,      \* which of FaultKinds may happen
  None

FaultKinds == {"loss", "timeout", "lookup", "silence", "pusher", "kernel"}

\* The default entity id, "e_" + clientID[2:], is the client id in disguise.
DefaultEntity(c) == c
Entities == Users \cup Clients

Ban == [matches: SUBSET Clients, kicks: SUBSET Clients]

ASSUME SessionAssumption ==
  /\ UserOf \in [Clients -> Users \cup {Guest}]
  /\ Users \cap Clients = {} /\ Guest \notin Users
  /\ None \notin Entities /\ None \notin {"ok", "banned", "already"}
  /\ Admins \subseteq Users
  /\ Maps # {}
  /\ Bans \subseteq Ban
  /\ Faults \subseteq FaultKinds

VARIABLES
  ws,          \* pusher: where handleWS stands for each connection
  reply,       \* the reply waiting in the inbox of a pending request
  connectQ,    \* subscription client.connected
  disconnectQ, \* subscription client.disconnected
  forceClose,  \* force_close messages on their way to the pusher
  world,       \* the tables s.mu guards
  doomed,      \* clients a goroutine chose to despawn, s.mu released since
  banned,      \* connections an active ban matches (CheckBan)
  ended        \* history: clients whose entity was removed

vars == <<ws, reply, connectQ, disconnectQ, forceClose, world, doomed, banned, ended>>

WsStates == {"idle", "requested", "confirm", "forced", "open", "closed"}
Replies == {"ok", "banned", "already"}
Connect == [client: Clients, force: BOOLEAN]
Zone == [id: Entities, owner: Clients]
World ==
  [session: [Clients -> Entities \cup {None}],   \* s.clients
   entity: [Entities -> Clients \cup {None}],    \* s.entities (avatars)
   holder: [Entities -> Clients \cup {None}],    \* s.entityIDToClient
   map: [Clients -> Maps],                       \* Position.MapId
   zones: [Maps -> SUBSET Zone],                 \* mobile zones registered
   silent: SUBSET Clients]                       \* lastHeartbeat too old

TypeOK ==
  /\ ws \in [Clients -> WsStates]
  /\ reply \in [Clients -> Replies \cup {None}]
  /\ connectQ \in Seq(Connect)
  /\ disconnectQ \in Seq(Clients)
  /\ forceClose \subseteq Clients
  /\ world \in World
  /\ doomed \subseteq [client: Clients, by: {"reaper", "admin"}]
  /\ banned \subseteq Clients
  /\ ended \subseteq Clients

EmptyWorld(maps) ==
  [session |-> [c \in Clients |-> None],
   entity |-> [e \in Entities |-> None],
   holder |-> [e \in Entities |-> None],
   map |-> maps,
   zones |-> [m \in Maps |-> {}],
   silent |-> {}]

Init ==
  /\ ws = [c \in Clients |-> "idle"]
  /\ reply = [c \in Clients |-> None]
  /\ connectQ = <<>>
  /\ disconnectQ = <<>>
  /\ forceClose = {}
  /\ \E m \in Maps : world = EmptyWorld([c \in Clients |-> m])
  /\ doomed = {}
  /\ banned = {}
  /\ ended = {}

-----------------------------------------------------------------------------
(* The World tables: what provisionClient and despawnClientLocked do.      *)

Live(w, c) == w.session[c] # None

\* ZoneRegistry.RemoveZone: the first zone with that id, if there is one.
\* The pointer that owns it is left to CHOOSE: OneZonePerAvatar shows that
\* there is never a second one.
RemoveZone(zs, e) ==
  IF \E z \in zs : z.id = e THEN zs \ {CHOOSE z \in zs : z.id = e} ELSE zs

\* Mutant: entityIDToClient is not cleaned.
DespawnedKeepsHolder(w, c) ==
  LET e == w.session[c] IN
  IF ~Live(w, c) THEN w
  ELSE [w EXCEPT !.session[c] = None, !.entity[e] = None,
                 !.zones[w.map[c]] = RemoveZone(@, e)]

\* despawnClientLocked.  Entities are compared as pointers: an entity is
\* known by the client that created it.
Despawned(w, c) ==
  LET e == w.session[c] IN
  IF ~Live(w, c) THEN w
  ELSE IF w.entity[e] \notin {None, c}           \* replacedByNewer
       THEN [w EXCEPT !.session[c] = None]
       ELSE [w EXCEPT !.session[c] = None,
                      !.entity[e] = None,
                      !.holder[e] = None,
                      !.zones[w.map[c]] = RemoveZone(@, e)]

\* Another live session holds identity e (dual connect).
HeldByOther(w, e, c) ==
  /\ w.holder[e] \notin {None, c}
  /\ w.session[w.holder[e]] = e

\* The forced displacement at the head of provisionClient, if it applies.
Displaced(w, e, c) == IF HeldByOther(w, e, c) THEN Despawned(w, w.holder[e]) ELSE w

\* removeStaleMobileZone: drop the zone of whatever still answers to e.
StaleZoneRemoved(w, e) ==
  IF w.entity[e] = None THEN w
  ELSE [w EXCEPT !.zones[w.map[w.entity[e]]] = RemoveZone(@, e)]

\* The tail of provisionClient: client c gets a new entity e on map m.
Installed(w, c, e, m) ==
  [StaleZoneRemoved(w, e) EXCEPT
     !.session[c] = e,
     !.entity[e] = c,
     !.holder[e] = c,
     !.map[c] = m,
     !.zones[m] = @ \cup {[id |-> e, owner |-> c]},
     !.silent = @ \ {c}]

\* Clients whose session a step of the tables ends.
EndedBy(w, v) == {c \in Clients : Live(w, c) /\ ~Live(v, c)}

WorldBecomes(w) ==
  /\ world' = w
  /\ ended' = ended \cup EndedBy(world, w)

-----------------------------------------------------------------------------
(* The pusher: one goroutine per WebSocket (handleWS).                     *)

\* The deferred tail of handleWS: the session is deleted and
\* client.disconnected published.
CloseWs(c) ==
  /\ ws' = [ws EXCEPT ![c] = "closed"]
  /\ disconnectQ' = Append(disconnectQ, c)

\* First AuthFrame accepted: client.connected is requested without force.
Open(c) ==
  /\ ws[c] = "idle"
  /\ ws' = [ws EXCEPT ![c] = "requested"]
  /\ connectQ' = Append(connectQ, [client |-> c, force |-> FALSE])
  /\ UNCHANGED <<reply, disconnectQ, forceClose, world, doomed, banned, ended>>

\* The reply to the first request: banned closes, already_connected asks the
\* user, anything else lets the player in.
FirstReply(c) ==
  /\ ws[c] = "requested" /\ reply[c] # None
  /\ reply' = [reply EXCEPT ![c] = None]
  /\ \/ reply[c] = "banned" /\ CloseWs(c)
     \/ reply[c] = "already" /\ ws' = [ws EXCEPT ![c] = "confirm"] /\ UNCHANGED disconnectQ
     \/ reply[c] = "ok" /\ ws' = [ws EXCEPT ![c] = "open"] /\ UNCHANGED disconnectQ
  /\ UNCHANGED <<connectQ, forceClose, world, doomed, banned, ended>>

\* The user agrees to displace the other window: second AuthFrame, force.
Confirm(c) ==
  /\ ws[c] = "confirm"
  /\ ws' = [ws EXCEPT ![c] = "forced"]
  /\ connectQ' = Append(connectQ, [client |-> c, force |-> TRUE])
  /\ UNCHANGED <<reply, disconnectQ, forceClose, world, doomed, banned, ended>>

ForcedReply(c) ==
  /\ ws[c] = "forced" /\ reply[c] # None
  /\ reply' = [reply EXCEPT ![c] = None]
  /\ \/ reply[c] = "banned" /\ CloseWs(c)
     \/ reply[c] # "banned" /\ ws' = [ws EXCEPT ![c] = "open"] /\ UNCHANGED disconnectQ
  /\ UNCHANGED <<connectQ, forceClose, world, doomed, banned, ended>>

\* Mutant: the first request is sent again when it times out.
RequestTimeoutRetries(c) ==
  /\ "timeout" \in Faults
  /\ reply[c] = None
  /\ \/ ws[c] = "requested" /\ ws' = [ws EXCEPT ![c] = "forced"] /\ UNCHANGED disconnectQ
        /\ connectQ' = Append(connectQ, [client |-> c, force |-> FALSE])
     \/ ws[c] = "forced" /\ CloseWs(c) /\ UNCHANGED connectQ
  /\ UNCHANGED <<reply, forceClose, world, doomed, banned, ended>>

\* RequestMsg gives up after 5 s.  The first request falls through to an
\* AuthResult with ok = true; the forced one returns.
RequestTimeout(c) ==
  /\ "timeout" \in Faults
  /\ reply[c] = None
  /\ \/ ws[c] = "requested" /\ ws' = [ws EXCEPT ![c] = "open"] /\ UNCHANGED disconnectQ
     \/ ws[c] = "forced" /\ CloseWs(c)
  /\ UNCHANGED <<reply, connectQ, forceClose, world, doomed, banned, ended>>

\* The browser goes away, or the user declines the confirmation.
HangUp(c) ==
  /\ ws[c] \in {"confirm", "open"}
  /\ CloseWs(c)
  /\ UNCHANGED <<reply, connectQ, forceClose, world, doomed, banned, ended>>

\* Subscription client.*.force_close: write the frame, close the WebSocket.
DeliverForceClose(c) ==
  /\ c \in forceClose
  /\ forceClose' = forceClose \ {c}
  /\ reply' = [reply EXCEPT ![c] = None]
  /\ IF ws[c] \in {"idle", "closed"} THEN UNCHANGED <<ws, disconnectQ>> ELSE CloseWs(c)
  /\ UNCHANGED <<connectQ, world, doomed, banned, ended>>

\* The pusher process dies: every WebSocket with it, and no disconnected.
PusherCrash ==
  /\ "pusher" \in Faults
  /\ \E c \in Clients : ws[c] \notin {"idle", "closed"}
  /\ ws' = [c \in Clients |-> IF ws[c] = "idle" THEN "idle" ELSE "closed"]
  /\ reply' = [c \in Clients |-> None]
  /\ forceClose' = {}
  /\ UNCHANGED <<connectQ, disconnectQ, world, doomed, banned, ended>>

-----------------------------------------------------------------------------
(* Worldsim: the client.connected subscription.                            *)

\* FindOrCreateUser gives a logged-in user the stored entity id; a guest,
\* or a user whose lookup failed, keeps the default one.
Lookup(c) ==
  IF UserOf[c] = Guest THEN {DefaultEntity(c)}
  ELSE {UserOf[c]} \cup (IF "lookup" \in Faults THEN {DefaultEntity(c)} ELSE {})

\* Mutant: a forced request is not answered.
AnswerFirst(c, r) ==
  reply' = IF ws[c] = "requested" THEN [reply EXCEPT ![c] = r] ELSE reply

\* The reply reaches the inbox only while the request is pending.
Answer(c, r) ==
  reply' = IF ws[c] \in {"requested", "forced"} THEN [reply EXCEPT ![c] = r] ELSE reply

Receiving(c, force) ==
  /\ connectQ # <<>>
  /\ Head(connectQ) = [client |-> c, force |-> force]
  /\ connectQ' = Tail(connectQ)
  /\ UNCHANGED <<ws, disconnectQ, doomed, banned>>

\* (provisionClient answers a client that already has an entity with that
\* entity.  RequestsAreFresh shows that pusher never asks for one.)

\* Another window holds the identity and the user has not agreed yet.
ProvisionAsk(c, force, e) ==
  /\ Receiving(c, force)
  /\ ~Live(world, c) /\ HeldByOther(world, e, c) /\ ~force
  /\ Answer(c, "already")
  /\ UNCHANGED <<forceClose, world, ended>>

\* The ban check comes after the displacement, and its result carries no
\* displacedClientID.
ProvisionBanned(c, force, e) ==
  /\ Receiving(c, force)
  /\ ~Live(world, c) /\ (HeldByOther(world, e, c) => force)
  /\ c \in banned /\ e \notin Admins
  /\ WorldBecomes(Displaced(world, e, c))
  /\ Answer(c, "banned")
  /\ UNCHANGED forceClose

\* Mutant: a second window displaces the first without asking.
ProvisionNewUnasked(c, force, e, m) ==
  /\ Receiving(c, force)
  /\ ~Live(world, c)
  /\ c \notin banned \/ e \in Admins
  /\ WorldBecomes(Installed(Displaced(world, e, c), c, e, m))
  /\ forceClose' = forceClose \cup (IF HeldByOther(world, e, c) THEN {world.holder[e]} ELSE {})
  /\ Answer(c, "ok")

\* Mutant: a confirmed window skips the ban check.
ProvisionNewUnchecked(c, force, e, m) ==
  /\ Receiving(c, force)
  /\ ~Live(world, c) /\ (HeldByOther(world, e, c) => force)
  /\ c \notin banned \/ e \in Admins \/ force
  /\ WorldBecomes(Installed(Displaced(world, e, c), c, e, m))
  /\ forceClose' = forceClose \cup (IF HeldByOther(world, e, c) THEN {world.holder[e]} ELSE {})
  /\ Answer(c, "ok")

\* A new avatar: the displaced window, if any, is told to close.
ProvisionNew(c, force, e, m) ==
  /\ Receiving(c, force)
  /\ ~Live(world, c) /\ (HeldByOther(world, e, c) => force)
  /\ c \notin banned \/ e \in Admins
  /\ WorldBecomes(Installed(Displaced(world, e, c), c, e, m))
  /\ forceClose' = forceClose \cup (IF HeldByOther(world, e, c) THEN {world.holder[e]} ELSE {})
  /\ Answer(c, "ok")

Provision ==
  \E c \in Clients, force \in BOOLEAN :
    \E e \in Lookup(c) :
      \/ ProvisionAsk(c, force, e)
      \/ ProvisionBanned(c, force, e)
      \/ \E m \in Maps : ProvisionNew(c, force, e, m)

-----------------------------------------------------------------------------
(* Worldsim: everything else that touches the tables.                      *)

\* The client.disconnected subscription: despawnClient.
Disconnect ==
  /\ disconnectQ # <<>>
  /\ disconnectQ' = Tail(disconnectQ)
  /\ WorldBecomes(Despawned(world, Head(disconnectQ)))
  /\ UNCHANGED <<ws, reply, connectQ, forceClose, doomed, banned>>

\* NATS is at-most-once: a client.disconnected may never arrive.
LoseDisconnect ==
  /\ "loss" \in Faults
  /\ disconnectQ # <<>>
  /\ disconnectQ' = Tail(disconnectQ)
  /\ UNCHANGED <<ws, reply, connectQ, forceClose, world, doomed, banned, ended>>

\* No heartbeat for clientHeartbeatTimeout.  While the WebSocket is up the
\* keepalive sends them, so this needs the "silence" fault.
GoSilent(c) ==
  /\ Live(world, c)
  /\ c \notin world.silent
  /\ ws[c] = "closed" \/ "silence" \in Faults
  /\ world' = [world EXCEPT !.silent = @ \cup {c}]
  /\ UNCHANGED <<ws, reply, connectQ, disconnectQ, forceClose, doomed, banned, ended>>

\* keepalive pings, publishes client.<id>.heartbeat, and worldsim refreshes
\* lastHeartbeat.  A lost heartbeat is this step not taken.
Heartbeat(c) ==
  /\ ws[c] = "open"
  /\ Live(world, c) /\ c \in world.silent
  /\ world' = [world EXCEPT !.silent = @ \ {c}]
  /\ UNCHANGED <<ws, reply, connectQ, disconnectQ, forceClose, doomed, banned, ended>>

\* reapStaleClients, first half: the stale ids are gathered under the lock.
Stale == {c \in world.silent : Live(world, c)}

\* Mutant: the reaper goroutine is never started.
ReapNotStarted == FALSE /\ UNCHANGED vars

Reap ==
  /\ \A d \in doomed : d.by # "reaper"
  /\ Stale # {}
  /\ doomed' = doomed \cup {[client |-> c, by |-> "reaper"] : c \in Stale}
  /\ UNCHANGED <<ws, reply, connectQ, disconnectQ, forceClose, world, banned, ended>>

\* worldsim.client.kick, up to the snapshot that decides it is connected.
Kick(c) ==
  /\ \A d \in doomed : d.by # "admin"
  /\ Live(world, c)
  /\ doomed' = doomed \cup {[client |-> c, by |-> "admin"]}
  /\ UNCHANGED <<ws, reply, connectQ, disconnectQ, forceClose, world, banned, ended>>

\* worldsim.client.ban: the record is stored, then the first connected
\* client the ban's own matching finds (if any) is chosen.  One step: a
\* provision between the two is refused, and never seen by the search.
IssueBan(b) ==
  /\ \A d \in doomed : d.by # "admin"
  /\ banned' = banned \cup b.matches
  /\ LET found == {c \in b.kicks : Live(world, c)} IN
     IF found = {} THEN UNCHANGED doomed
     ELSE \E c \in found : doomed' = doomed \cup {[client |-> c, by |-> "admin"]}
  /\ UNCHANGED <<ws, reply, connectQ, disconnectQ, forceClose, world, ended>>

\* Mutant: no force_close after a kick or a ban.
DespawnUnannounced(d) ==
  /\ d \in doomed
  /\ doomed' = doomed \ {d}
  /\ WorldBecomes(Despawned(world, d.client))
  /\ UNCHANGED <<ws, reply, connectQ, disconnectQ, forceClose, banned>>

\* The second half of reaper, kick and ban: despawnClient, and force_close
\* when an admin asked for it.
Despawn(d) ==
  /\ d \in doomed
  /\ doomed' = doomed \ {d}
  /\ WorldBecomes(Despawned(world, d.client))
  /\ forceClose' = IF d.by = "admin" THEN forceClose \cup {d.client} ELSE forceClose
  /\ UNCHANGED <<ws, reply, connectQ, disconnectQ, banned>>

\* PortalSystem.transition: portal zone, extension or admin teleport.
Transition(c, m) ==
  /\ Live(world, c) /\ world.entity[world.session[c]] = c
  /\ LET e == world.session[c]
         left == [world EXCEPT !.zones[world.map[c]] = RemoveZone(@, e)]
     IN  world' = [left EXCEPT !.map[c] = m,
                               !.zones[m] = @ \cup {[id |-> e, owner |-> c]}]
  /\ UNCHANGED <<ws, reply, connectQ, disconnectQ, forceClose, doomed, banned, ended>>

\* Mutant: the mobile zones are not added again.
ReloadMapStatic(m) ==
  /\ world' = [world EXCEPT !.zones[m] = {}]
  /\ UNCHANGED <<ws, reply, connectQ, disconnectQ, forceClose, doomed, banned, ended>>

\* checkMapReload: the registry of m is rebuilt and the mobile zones of the
\* connected players on m are added again.
ReloadMap(m) ==
  /\ world' = [world EXCEPT !.zones[m] =
                 {[id |-> world.session[c], owner |-> c] :
                    c \in {d \in Clients : Live(world, d) /\ world.map[d] = m}}]
  /\ UNCHANGED <<ws, reply, connectQ, disconnectQ, forceClose, doomed, banned, ended>>

\* worldsim restarts: its tables and its subscriptions' backlog are gone,
\* the pusher's WebSockets are not.
KernelRestart ==
  /\ "kernel" \in Faults
  /\ WorldBecomes(EmptyWorld(world.map))
  /\ connectQ' = <<>> /\ disconnectQ' = <<>>
  /\ doomed' = {}
  /\ UNCHANGED <<ws, reply, forceClose, banned>>

-----------------------------------------------------------------------------
Pusher(c) ==
  \/ Open(c) \/ FirstReply(c) \/ Confirm(c) \/ ForcedReply(c)
  \/ RequestTimeout(c) \/ HangUp(c) \/ DeliverForceClose(c)

Next ==
  \/ \E c \in Clients : Pusher(c)
  \/ PusherCrash
  \/ Provision
  \/ Disconnect
  \/ LoseDisconnect
  \/ \E c \in Clients : GoSilent(c) \/ Heartbeat(c) \/ Kick(c)
  \/ Reap
  \/ \E b \in Bans : IssueBan(b)
  \/ \E d \in doomed : Despawn(d)
  \/ \E c \in Clients, m \in Maps : Transition(c, m)
  \/ \E m \in Maps : ReloadMap(m)
  \/ KernelRestart

Spec == Init /\ [][Next]_vars

\* Subscriptions and goroutines run; what players, admins and faults do is
\* not promised.  Time passes, so a client nobody pings falls silent.
Fairness ==
  /\ WF_vars(Provision)
  /\ WF_vars(Disconnect)
  /\ WF_vars(Reap)
  /\ WF_vars(\E d \in doomed : Despawn(d))
  /\ \A c \in Clients :
       /\ WF_vars(FirstReply(c)) /\ WF_vars(ForcedReply(c))
       /\ WF_vars(DeliverForceClose(c))
       /\ WF_vars(ws[c] = "closed" /\ GoSilent(c))

FairSpec == Spec /\ Fairness

-----------------------------------------------------------------------------
(* Properties.                                                             *)

\* s.clients, s.entities and s.entityIDToClient describe the same sessions:
\* a client's entity is registered under its id and points back to it, and
\* nothing is registered for a client that is gone.  provisionClient and
\* despawnClientLocked update the three maps one by one, on every path.
TablesAgree ==
  /\ \A c \in Clients : Live(world, c) =>
       world.entity[world.session[c]] = c /\ world.holder[world.session[c]] = c
  /\ \A e \in Entities :
       /\ world.entity[e] # None => world.session[world.entity[e]] = e
       /\ world.holder[e] = world.entity[e]

\* No two connected clients are the same player: neither a second window,
\* nor a reconnect racing the old window's disconnect, nor a reaper or an
\* admin acting on an old snapshot, leaves two avatars with one entity id.
OneSessionPerIdentity ==
  \A c, d \in Clients :
    Live(world, c) /\ Live(world, d) /\ world.session[c] = world.session[d] => c = d

\* A connection is provisioned at most once: whatever times out, is answered
\* late or is asked again with force, a queued client.connected is never for
\* a client that has, or had, an entity.
RequestsAreFresh ==
  \A i \in 1..Len(connectQ) :
    ~Live(world, connectQ[i].client) /\ connectQ[i].client \notin ended

\* Every map's zone registry holds exactly one mobile proximity zone per
\* avatar on that map, its own: none is left behind by a displaced, reaped
\* or transitioned avatar, none is lost when a map is reloaded, and none is
\* the zone of a former entity with the same id.
OneZonePerAvatar ==
  \A m \in Maps : world.zones[m] =
    {[id |-> world.session[c], owner |-> c] :
       c \in {d \in Clients : Live(world, d) /\ world.map[d] = m}}

\* Identities change hands as IdentityRegistry says: only from nobody, or
\* from a window whose user agreed in the other window; and a connection
\* whose session ended never gets one again, whatever messages of it are
\* still queued.
Consenting ==
  {c \in Clients : ws[c] = "forced"
     \/ \E i \in 1..Len(connectQ) : connectQ[i] = [client |-> c, force |-> TRUE]}
Owns(e, c) == e = DefaultEntity(c) \/ e = UserOf[c]
Registry == INSTANCE IdentityRegistry WITH
  Identities <- Entities, MayHold <- Owns,
  holder <- world.holder, consent <- Consenting, ended <- ended
RegistrySpec == Registry!Spec

\* An avatar whose WebSocket is gone does not stay: if client.disconnected
\* is lost, overtakes client.connected, or the pusher dies, the reaper
\* removes it.
OrphansLeave ==
  \A c \in Clients : (ws[c] = "closed" /\ Live(world, c)) ~> ~Live(world, c)

\* A connecting window is let in, refused or asked, and not because its request
\* timed out: every branch of provisionClient answers, also for a window that was
\* confirmed or that displaces one whose own request has timed out.
RequestsSettle ==
  \A c \in Clients :
    ws[c] \in {"requested", "forced"} ~> ws[c] \notin {"requested", "forced"}

\* No frozen window: a window that shows the game of a session that has ended
\* is closed, however its request fared.  (Every path that despawns a connected
\* player has to send force_close, and the pusher to be there to get it.)
NoZombieWindow ==
  \A c \in Clients : (ws[c] = "open" /\ c \in ended) ~> ws[c] # "open"

\* A banned player does not stay connected.
BannedLeave ==
  \A c \in Clients :
    (c \in banned /\ Live(world, c) /\ world.session[c] \notin Admins)
      ~> ~(c \in banned /\ Live(world, c))
=============================================================================
