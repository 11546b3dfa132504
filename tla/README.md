# PixelEruv: TLA+ models and proofs

PixelEruv is a multiplayer 2D office: browsers hold a WebSocket to `pusher`,
`pusher` speaks NATS to `worldsim`, the authoritative simulation, and extension
processes (`ext-av`, `ext-rec`, `ext-props`, ...) react to what worldsim
publishes. PocketBase stores users, maps, bans and options.

The models cover the core logic of the backend and of the browser's audio and
video client, where goroutines, NATS subscriptions, the 20 Hz tick and awaits
interleave. Each definition names the code it
stands for in `PROJECT.json` ("map").

## 1. Inventory

| Component | Code | State | Operations |
|---|---|---|---|
| Session lifecycle | `pusher/pusher.go` `handleWS`; `worldsim.go` `provisionClient`, `despawnClient*`, reaper; `admin_actions.go` kick, ban | pusher `sessions`; `s.clients`, `s.entities`, `s.entityIDToClient`, mobile zones, `lastHeartbeat` | connect, confirm/force, disconnect, heartbeat, reap, kick, ban, restart |
| Heartbeat and reaper timing | `pusher.go` `keepalive`; `clientHeartbeatTimeout` | last heartbeat, ping timer | ping every 30 s, reap after 90 s, tick every 10 s |
| Position persistence | `startPositionPersister`, `despawnClient`, `userstore.go`, `portal.go` `SaveMapID` | PocketBase `pos_x/pos_y/map_id`, `lastSavedPos` | periodic save, save on despawn, save on transition, restore |
| Replication | `replication.go`, `aoi.go`, `destroyedEntities`, `spawnedTo` | what each client was sent, destroy queue, dirty entities | spawn, update, out-of-range despawn, destroy, map transition |
| Portal / teleport | `portal.go`, `entity_teleport.go`, `teleport_to_entity.go` | `Position`, `currentZones`, `spawnedTo` | transition, teleport, teleport-to |
| Zones | `zones.go`, `zone_system.go` | `currentZones`, registry | enter, exit, exit hysteresis |
| Proximity groups | `proximity.go` | `currentProximityGroup` | group, leave, reuse of group id, DND |
| Movement | `movement.go`, `worldsim_swept.go`, `mapdata.go` | `Position`, input, closed zones | walk, slide, find a spawn point |
| Player profile | `worldsim.go` `handleSet*`, `admin_actions.go`, `replication.go` | name, status, sprite, options, AFK; the user's row; dirty flags | set by client or admin, save, replicate, restore |
| Chat and pings | `handleChat`, `admin_actions.go`, `ping.go`; pusher's inboxes | none but the queues | say, ping, fan out |
| World options | `worldoptions.go`, `worldoptions_sub.go`; `cmd/admin`, `cmd/mcp`, `cmd/audit`, `cmd/ext-rec` | a NATS KV key, copies in every process | get, set, broadcast, restart |
| Extensions | `extensions.go`, `extensionoptions.go`, `extkit.go`, `applyAction`; `cmd/ext-walls`, `cmd/ext-props` | registry, triggers, heartbeats, gates, doors, options | register, go stale, dispatch an action, reload |
| ext-av | `cmd/ext-av/main.go` | active zone room and status per entity, options | zone and proximity events, status, options, tokens |
| Browser A/V | `frontend/src/net/AvClient.ts` | LiveKit room, job queue, timers, tracks, preferences | token frames, connect, retry, leave, mute, DND, AFK |
| ext-rec | `cmd/ext-rec/main.go`, `recordingstore.go` | `activeRecs`, recordings collection, semaphore | start, stop, auto-stop, reconcile, extract, delete |
| Bans | `banstore.go` | `bans` records | add, check |
| Map reload | `checkMapReload`, `reloadBaseEntities` | maps, base entities, zones | reload, keep players |
| Audit | `cmd/audit` | ring, SQLite store, options | ingest, query, notify |
| MCP, admin UI, docker proxy, seeders, otel | `cmd/mcp`, `cmd/admin`, ... | copies of the options | adapters |
| Browser | `frontend/src` | avatars, WebSocket | render, predict, reconnect |

### How the parts interact

    browser --WebSocket--> pusher --NATS--> worldsim --NATS--> ext-av, ext-rec, ext-props, ...
                              ^               |  |                  |
                              +---- client.<id>.replication, ... ---+---> LiveKit
                                              +--HTTP--> PocketBase (users, maps, bans, options)

* pusher runs one goroutine per WebSocket. It requests `client.connected` with
  a 5 s timeout, forwards input frames, forwards what worldsim publishes for the
  client, answers `force_close`, and publishes `client.disconnected` in a
  deferred function, at most once and without acknowledgement.
* worldsim guards its tables with one mutex, `s.mu`. Each NATS subscription has
  a goroutine and is in order; subscriptions are not ordered against each other.
  Further goroutines: the tick, the position persister, the reaper, the map
  poller. PocketBase is written after `s.mu` is released.
* The tick (20 per second by default) runs movement, zones, portals, proximity
  (every fifth tick) and replication over one state of the tables.
* ext-av turns zone and proximity events into LiveKit tokens. It and the other
  extensions learn of worldsim only through events and requests.

### What is hard, and what must hold

| Component | Hard behaviour | What makes it correct |
|---|---|---|
| Session lifecycle | two windows, reconnects overtaking disconnects, timeouts, lost messages, crashes of either process, an admin or the reaper acting on a snapshot | three maps agree, one session per identity, takeover only with consent, no orphan avatar, no frozen window, the banned leave |
| Position persistence | two writes per place, several writers outside the lock, a cache that decides to skip | what is skipped is stored, a reconnect restores where the player left, coordinates belong to the map |
| Replication | server-side books of what a browser has, frames arriving while it loads, AOI band, same-tick destroy and respawn | books and screens agree, no ghosts, no lost avatars, exact after a tick |
| Proximity groups | ids inherited through merges and splits, movement gating, DND, meeting rooms, map changes | one circle is in one room, rooms are stable, those who stand together meet, those alone leave |
| Movement | x and y tried apart, gates thinner than a tick, shapes at angles, avatars put on walls or overtaken by a reload | no tick crosses a closed zone or comes onto a wall tile |
| Chat | recipients chosen under the lock and served after it, three handlers, three kinds of queues | one order, no gaps, no repetitions, nobody listens in |
| Player profile | nine handlers that save and publish after unlocking | entity, row, browsers and ext-av come to agree |
| World options | a store, a cache, broadcasts and editors that replace everything | edits reach who lives by them and erase nothing |
| Extensions | stale registrations, snapshots published late, replies after the timeout | gates converge, doors match walls |
| ext-av | five subscriptions in any order, DND against a token in flight | the browser ends in the room of where the player stands |
| Browser A/V | callbacks between any two awaits, retries, timers | one live room, a leave is honoured, mute holds |
| ext-rec | goroutines that wait for LiveKit and go on when it refuses, a ten-second timer, restarts, a resizable semaphore | no egress out of control but for what a failed call or a second recording lost, outcomes stand, empty rooms settle, extractions go on |

`PROJECT.json` ("hazards") lists each hazard at its line with the properties
that would catch it.

## 2. Modules

| Module | What it is |
|---|---|
| `Session` | pusher's handler, the lifecycle subjects and worldsim's tables |
| `IdentityRegistry` | the abstract promise about identities; `Session` implements it |
| `Persistence` | one player's place in memory and in PocketBase |
| `Replication` | server-side books, the tick's batches, transitions, the browser's scene |
| `Proximity` | zone detection and proximity groups over ticks |
| `Movement` | a tick of walking against tiles and zones, spawn points |
| `Chat` | lines and pings through worldsim's handlers and the pusher |
| `Profile` | a player's name, status, sprite, options and AFK flag |
| `WorldOptions` | the world's options in KV and in every process |
| `Extensions` | registration, gates, actions and options of ext-walls and ext-props |
| `ExtAv` | the handlers of ext-av around one player |
| `AvClient` | the browser's LiveKit client |
| `Recording` | ext-rec and the recordings collection |
| `MC*` | small instances for TLC; each `.cfg` is one run |
| `*Proofs` | theorems and their machine-checked proofs |

Components that share no state are checked in one run where their instances are
of like size: `MCRecords` (Persistence, Profile, WorldOptions), `MCExtensions`
(Extensions, ExtAv) and `MCPlayers` (Proximity, Chat, Movement) choose a `part` at
the start and run it alone.

Operators named "Mutant" in a comment are what a definition would be if the code
had a plausible bug. No specification uses them; substituted for the
definition they follow, they break a property of the run they are listed with.

### Session

A step is one critical section of worldsim, or one step of a goroutine between
two blocking operations. `ws[c]` is where `handleWS` stands: `requested` and
`forced` wait for the reply of the first and of the confirmed request, `confirm`
waits for the user. `world` is what `s.mu` guards: `session`, `entity` and
`holder` are `s.clients`, `s.entities` and `s.entityIDToClient`, `zones` the mobile
zones of each map's registry. Goroutines that choose a client under the lock,
release it and despawn later (reaper, kick, ban) put the choice in `doomed`
and act in `Despawn`.

`ProvisionAsk`, `ProvisionBanned` and `ProvisionNew` are the outcomes of
`provisionClient` (dual connect, ban, new entity). A connection whose
user record cannot be read falls back to its per-connection identity
(`Lookup`). `Despawned` follows `despawnClientLocked` with its
`replacedByNewer` early return, and `StaleZoneRemoved` follows `removeStaleMobileZone`;
the invariants show that neither has anything to do in a reachable state.

`IdentityRegistry` has only holders, consents and ended connections. `Session`
refines it with `holder <- world.holder` and consent read off the confirmed
windows and queued forced requests (`RegistrySpec`).

Abstracted: positions, replication, the clock (a client without heartbeats may
become `silent` at any time), ban matching (a ban is two sets of connections:
those `CheckBan` refuses and those the kick looks for).

### Persistence

One logged-in player. A goroutine that saves holds a `task` of the writes it
still owes: `position` and `map` are two PocketBase updates, `remember` the
persister's note in `lastSavedPos`. Despawns save both, a map transition saves
`map_id` alone, a displacement saves nothing. Nothing serialises these goroutines:
the writes of up to `MaxWriters` of them interleave with each other and with the
player's next steps and sessions. Coordinates are values that belong to one
map (`Home`), so half-written places can be told apart. Three histories say what can
be promised: `failed` (a save was refused), `clash` (goroutines wrote at once, and
none has saved a whole place alone since) and `left` (where the last session ended, if its
despawn found nobody else writing).

### Replication

`place` and `dirty` are the entities, `spawnedTo` is the server's book of what
each client was sent, `destroyed` the destroy queue, `scene` the browser.
`Spawns`, `Updates`, `Destroys` are the batch of one client; `Applied` is what
`handleReplication` in `GameScene.ts` does with it. Frames of a client are in
order, so a batch is applied when it is published. `Windows` names four places in
which a tick may fall, all of them considered in the run and in the theorems:

* `auth`: pusher forwards replication before `AuthResult` is written;
* `frame`: a teleport handler has unlocked `s.mu` and not yet published
  `MapTransition` (a portal zone's transition is within the tick, so no tick
  falls there);
* `load`: the browser loads the assets of the next map;
* `return`: an entity is back on a map before the tick that announces that it left.

A browser does lose avatars in them. `dropped` is the history of what it lost, pair by pair:
`<<c, e>>` from when the scene of `c` is cleared of an avatar it was sent (`Forgotten`), or
ignores what a batch says of it, or the filter of the destroy queue holds its destroy back
(`Dropped`), until a batch about `e` is applied. The properties say that nothing else goes
wrong.

### Proximity

`Tick` is the part of a worldsim tick that matters for groups, in the code's
order: stationary ticks, zone detection with exit hysteresis, and, when it is a
clustering tick, `Clustered`. `Circle` is the connected component the code finds
by breadth-first search, `GroupOf` the id a circle gets, `Assigned` the gate for
players on the move. Group ids are modelled by the members they were made of,
because the code hashes exactly those. Since `proximity.join` and
`proximity.leave` are published when and only when `currentProximityGroup`
changes, `group` is also the room of a browser that receives every event.

`Dirty` stands for `dirtyPosition`, which resets the count in the next tick. Counts
stop at the threshold, since the code only asks whether they have reached it.

### Movement

One avatar on one map. `Walked` is `runMovement`: along x, along y from there, and
the whole way if both changed. `isMoveBlocked` tests the sprite's leading edge
against the tiles at both ends, and the way of the feet, one tile below
`Position`, against every closed zone, widened by the player's radius (`Hits`, with
the rectangle, circle and polygon tests of `worldsim_swept.go`). `Toggle` is what
ext-walls does to the gates meanwhile. An avatar appears, at the start and whenever it
arrives (`Arrive`: a connect, a portal, a teleport), where `FindSpawnPoint` puts it or on a mark of the map, which
stands for a saved position, a beacon or a point somebody has chosen: nothing keeps these
out of walls, or on whole tiles, or on the map. `Reload` changes the map under an avatar that stays
where it is. float32 becomes fiftieths of a tile: a tick of 0.4 tiles is 20, its diagonal
14 instead of 14.14, and a closest point is rounded down.

### Chat

`asked` are the queues of the three subscriptions (`client.*.chat`,
`worldsim.admin.chat`, `worldsim.client.ping`), `sending` what each handler has yet to
publish after it released `s.mu`. `Copy` and `CopyTo` are the pusher's
`chat.broadcast` handler, which ranges over its sessions while they come and go.
`meant` remembers whom a line was for when it was handled.

### Profile

`entity` is what the tick replicates, `row` the user's record, `screen` what two
browsers show, `told` and `heard` what ext-av gets. A handler at work is a record
with the steps it has left: save, echo, publish. `failed` notes refused saves.

### WorldOptions

`stored` is the KV key, `current` worldsim's copy, `unsent` what `Set` and `PublishUpdate`
have stored and not published, `view` what a service has understood (`Read`), `form`
what an editor has loaded. `lost` remembers the fields an edit changed without
being about them.

### Extensions and ExtAv

`Extensions` has doors: an interaction has two effects, `toggle` for ext-props and
`toggle_wall` for ext-walls, asked for one after the other with a deadline of
300 ms. `register()` of ext-walls takes its snapshot under the mutex and publishes after it,
from four goroutines (`Registrars`). Time is counted in heartbeats: the third
registers again, and one more than three without any is stale.

`ExtAv` follows one player through the five subscriptions. A zone handler mints,
publishes and records in separate steps (`handling`). The client is reduced to the room
its frames make it choose; `AvClient` is that client in detail.

### AvClient

A step is what runs between two awaits. `job` is where `processTokenFrame` stands,
`closing` where each call of `disconnect()` stands, `macrotasks` the order of
`setTimeout(0)`. Room objects of the SDK are separate from `this.room`, so that one
the client has lost sight of can be told.

### Recording

`starting`, `stopping` and `reconcile` are goroutines between two waits for LiveKit or
worldsim; `activeRecs` and `emptySince` are memory and are lost with `Crash`; `rows` is
PocketBase and `egress` LiveKit. `jobs` with `limit` are the extractions under
`audioSem`.

The calls that may fail (`Failing`), each with what the code does about it, which is to log it:
`StartRoomCompositeEgress` although LiveKit records (the handler ends), the creation of a row (the
recording goes on), `StopEgress` by a stopper or for an orphan (the egress runs on and the session is
forgotten), any update of a row at the end (the row stays as it was), and either list of the
reconciliation (it ends for good). An error of `ListParticipants` is asked again within a second and
is no step. An update that times out and is applied later is not modelled.

Two histories say for which recordings nothing can be promised before the next restart. `lost`: LiveKit
or worldsim failed a call about it that nobody repeats, or `activeRecs` has had another recording
of its room beside it, so that a stop of one forgets the other. `contested`: two goroutines were in
`stopRecording` for it, or it was started before the reconciliation.

## 3. Runs

TLC, two workers. Deadlock is checked for `extensions` and `recording`; elsewhere the
system may stop (the players are all gone for good, connection ids are used up, a
bounded input is used up).

| Run | States | What it shows |
|---|---|---|
| `session_safety` | 144 k | tables agree (so identities are unique), zones follow avatars, requests are fresh and `Session` implements `IdentityRegistry`, under all six faults |
| `session_live` | 4 k | windows whose session has ended close, orphans leave, requests are answered, the banned leave, with lost disconnects, pusher crashes and timeouts |
| `replication` | 932 k | the books stay on the map, credit no browser with an avatar it lost, no ghosts, and screens are exact after every tick, with ticks in all four windows, but for what is in `dropped` |
| `players` | 901 k | Proximity: circles agree, rooms are stable; Chat: conversations agree; Movement: walls hold, wherever an avatar was put |
| `proximity_live` | 22 k | who stands together meets, who is alone or in a meeting room leaves |
| `records` | 487 k | Persistence, two goroutines writing at once: skips are sound, reconnects restore, standing players are saved; Profile: row, entity, screens and ext-av agree; WorldOptions: edits reach the mailer and ext-rec |
| `extensions` | 331 k | Extensions: doors match walls, gates converge; ExtAv: the room follows the player |
| `browser` | 180 k | one live room, mute holds, leaves are honoured |
| `recording` | 389 k | running egresses are known or lost for a reason, outcomes stand, empty rooms settle, extractions go on, with failed calls and overlapping stops; no deadlock |
| `places_skipped` | | disagreement 1 |
| `options_audit` | | disagreement 2 |
| `options_mcp` | | disagreement 3 |

### Bounds

* `Session`: two connections of one user and two maps. A conflict over an
  identity is between a new window and the one it displaces. Guests share
  nothing with others but the queues. A failed lookup also gives the same user
  two identities. A client id is never reused, so a reconnect is another
  client. Queues need no bound: a connection sends at most two connects and one
  disconnect. The run with liveness has one map (maps play no part) and
  bans that match both windows (one device); with a ban that matches one window
  `NoZombieWindow` fails (section 5).
* `Persistence`: one player, since players share no record; two maps; three
  coordinates, so that one map has two places and a map can be left and
  returned to. Five goroutines may write, two of them at once (`MaxWriters`): a third writer
  adds no new kind of conflict to a record with two halves, and the theorems have
  no such bound.
* `Replication`: one strip of three cells, with radii 0 and 1, has a cell near, one
  in the band and one out of range. Two players, since what a client shows of an
  entity depends on these two and on the queues alone (the proofs go pair by pair for that
  reason). Players are interchangeable, and so are maps: symmetry is used for both.
* `Proximity`: for safety, three players on a strip of two cells, near each other or
  in the band between the radii, make a chain, which can merge and split, and
  lose its middle or its least member; a disconnect takes a player out of
  range. One of them may choose do-not-disturb: a stale group kept through
  it is how three players can meet in two different rooms (without it, four are
  needed). The threshold of 10 stationary ticks is 1 here, so a
  count can be reset, below the threshold, or at it. For liveness, two players
  and two maps of three cells, all ends portals, one end a meeting room. Ad hoc
  runs with three cells for the safety properties (1.8 M states) and three
  players for the liveness properties pass as well; they are too long to
  repeat each time.
* `Movement`: three maps: wall tiles with a gate of 3/50 of a tile, thinner than a step
  of 20/50, and marks on a wall, at a fraction of a tile, and off the map; a round gate on a map without spawn
  zone; a slanted gate with a mark in it. An avatar can arrive on any of them at any time, and
  any of them can become the other by a reload. Every position that is reachable is
  visited, so a way meets every shape from every side, with the gate closing at any moment.
* `Chat`: two windows, each of which may speak, be spoken for and be pinged; two
  lines (`MaxLines`), which is what an order needs. `Moods`: in the circle, or in
  do-not-disturb.
* `Profile`: two handlers at work (`MaxWork`), which is enough for a conflict;
  pairs of fields that share a component or are saved apart (`Edits`); one status
  on its way (`MaxTold`). Handlers of one field do not overlap.
* `WorldOptions`: an option of each kind; two hosts, one crash (`MaxCrashes`), one broadcast
  waiting (`MaxQueue`).
* `Extensions`: one door, two crashes, reloads or edits (`MaxFaults`), one message
  waiting on a subscription (`MaxQueue`), an ext-walls that may be late. `ExtAv`: two zones and two groups, so that a player can go
  from any kind of place to another of the same kind.
* `AvClient`: two rooms, two Room objects, two frames (`MaxFrames`), one kind of
  track, two attempts instead of three. A frame can so meet the connection, the
  retry, the closing and the leave timer of another.
* `Recording`: one room, two recordings of which one has a file, one fault (`MaxFaults`: a
  restart or a failed call, at any step), a manual stop beside the ticker's, limits
  1 and 2. Requests wait for the reconciliation and a recording is not stopped before its row is
  written (`"early"` and `"hasty"` are off, for the size of the run); the theorems allow both.

### Fairness

Worldsim's goroutines and subscriptions run, so their steps are weakly fair:
`Provision`, `Disconnect`, `Reap`, `Despawn`, the handling of replies and of
`force_close`. A dead client's silence is fair because time passes. Nothing is
assumed of users, admins or faults. The persister's `Checkpoint` is strongly
fair, since it is only disabled while another goroutine writes and its timer and
the mutex come back to it; each write is weakly fair. For `Proximity` every fifth
tick clusters, so `Tick(TRUE)` is weakly fair.

`AvClient`: callbacks that are due run and LiveKit answers a connect, a close and a
publication; `PublishReturns` is strongly fair because a publication may settle
and be asked for again. `Extensions`: processes are restarted, messages arrive,
heartbeats tick; `Tick` is strongly fair, since it waits until the messages of the last
interval have arrived. `Recording`: goroutines go on; the end of the ten seconds
and a semaphore's slot are strongly fair, since each look at the clock may come too
early and another goroutine may be first.
Nothing is assumed of people, crashes, or dropped connections.

## 4. Proofs

Machine-checked, for all values of the constants that satisfy the modules'
assumptions. Where a run switches a fault off because a property fails with it, the theorem
has the same hypothesis, as a named formula over the constants.

| Module | Theorems | Hypothesis |
|---|---|---|
| `SessionProofs` | `TypeCorrect`, `TablesAlwaysAgree`, `NobodyIsConnectedTwice`, `ZonesFollowAvatars`, `RequestsStayFresh`, `ImplementsRegistry` | none: all six faults |
| `PersistenceProofs` | `TypeCorrect`, `SkipsAreSound`, `PlayersReturn` | none: any number of writers at once |
| `ReplicationProofs` | `TypeCorrect`, `BooksStayOnMap`, `UpdatesAlwaysLand`, `GhostsAreAnnounced`, `TicksAreExact` | none: ticks in every window |
| `PlayersProofs` | `TypeCorrect`, `CirclesAlwaysAgree`, `RoomsAreAlwaysStable` | none |
| | `ConversationsAlwaysAgree`, `FeetKeepOut`, `TypesAlwaysOK` | none |
| | `RectanglesAndCirclesHold` | `NoPolygons`: the zones are rectangles and circles |
| `AvClientProofs` | `TypeCorrect`, `OneConnection`, `MutesHold` | none |
| `RecordingProofs` | `TypeCorrect`, `RunningEgressesAreKnown`, `OutcomesAreFinal` | none: all faults |
| `RecordsProofs` | `TypesAlwaysOK` | none |
| | `OptionsAlwaysReach` | `InStep`: no `"early"`, no `"gap"` |
| | `ProfilesAgree` | `InTime`: no `"overlap"` of handlers of one field |
| `ExtensionsProofs` | `DoorsMatchWalls` | `Lone`: one door within reach, ext-props answers in time |
| | `RoomsFollowPlayers` | `Prompt`: no `"delay"`, no `"brief"` |
| | `TypesAlwaysOK` | none |

**SessionProofs.** `TablesAlwaysAgree`, `NobodyIsConnectedTwice` and
`ZonesFollowAvatars` rest on the inductive invariant `GoodWorld`: the tables have
their type, `session` and `entity` are inverse to each other, `holder` equals
`entity`, and the registry of each map is exactly the set of zones of the avatars
there. None of the conjuncts is inductive alone. `RemoveZone` removes the right
zone only if there is one per id, which needs that identities are unique; and
`replacedByNewer` is never taken only because the tables agree. The
proof has a lemma for each operation on the tables (`Despawned`, `Displaced`,
`Installed`, a transition, a reload), so that each action is one of these.

`RequestsStayFresh` adds `Asking`: a connection has at most one request under way, counting
the queue, the reply in its inbox and where `handleWS` stands, and a request is only
ever under way for a connection that has had no entity. `ImplementsRegistry` is the
refinement: every step of `Session`
is a step of `IdentityRegistry` or leaves its variables alone. A despawn is
`Release`; an entity is installed by `Claim`, or by `TakeOver`, which needs that the consent
read off windows and queue was there (`ReceivingSpends`); other steps
only add or drop consents of connections that are fresh.

**PersistenceProofs.** Nothing is assumed of the writers, and while there is a `clash` nothing is said. Without
one there is a single writer, and `Persisting`, `Moving` and `Despawning` say where in its task it is and
what its task is about; `Settled` says what `lastSaved` and `left` are worth meanwhile (`Sole`). A clash is over
when a save of a whole place starts alone: `StartsAlone` makes all of these true again whatever the record
has been through, and a transition, which saves only a map, cannot do so. `SkipIsSound` is the instance in which nobody
writes and `lastSaved` equals the session's place.

**ReplicationProofs.** `BooksStayOnMap` needs only the types. The rest goes pair by pair
(`Pairs`). For a client `c` and an entity `e` of which `c` has dropped nothing: if the books credit `c`
with `e`, the avatar is there or buffered (`Landed`) and where the entity is, unless that is dirty
(`Accurate`); if they do not, an avatar of `e` is one whose destroy is queued, or `c` is about to be
told of a transition (`Announced`). A tick's batch leaves a pair right or in `dropped`, whatever
it was before (`TickStep`), and each other step clears, credits or moves one player's
avatars. `GoneIsBlank` says that who is not in the world shows nothing.

**PlayersProofs.** *Gathering.* `CirclesAlwaysAgree` follows from two facts about a clustering:
linked players have the same circle, and the id of a circle that is not a
singleton does not depend on the member it is computed for.
`RoomsAreAlwaysStable` adds that the least grouped member of a circle exists,
from the well-foundedness of the order on ids. Only a clustering
and a disconnect change a group (`WhoChangesGroups`).

*Talking.* `ConversationsAlwaysAgree` is proved from `ChatInv`, which follows a line from
its request to the windows. `ChatTypes` keeps a place among the lines for
every request; `Fresh`: a window that has not connected is meant by nobody; `Routes`: a line
takes the inbox of its handler, or the broadcast, and what is for one window is in
no other's. `Order` and `Behind`: of two lines of one handler and channel, what a window
shows is older than what is in its inbox, in the broadcast or being copied, and all that is
older than what the handler is about to publish. That gives the order within a handler. The order of
global lines across handlers needs `Agree` and `Latest`: no two windows show two lines in
opposite orders, and the line that is being copied is the last one in each window that shows
it, although the copies to the windows interleave with everything else. `Delivered`: what is meant for an open window
is shown there or at one of five places on the way. Steps are first sorted into seven moves
(`NextMoves`), so that each part of the invariant is proved for moves and not for
actions.

*Walking.* `FeetKeepOut` says what holds of a tick on every map and from every position: all that is
known of an avatar is that its coordinates are numbers (`Walking`). A step has been tried as a
whole (`WalkedIsTried`), although the code tries x, then y, then both. The tiles are tested half a
tile ahead of the feet, so the feet may come to a tile that was not tested. It is then the tile they
were on (`TriedToTheRight`, `TriedToTheLeft`): a step is shorter than half a tile, unless the avatar was
off the map, and then the edge of the map is where it comes to. So no tick goes *onto* another
tile that is a wall, while an avatar that was put on one may still move on it. For rectangles the points that the zone events see are
compared with the slabs of the swept test (`WithinSlab`, `CommonPoint`): rounding is less
than the player's radius. For circles the closest point of the way is rounded, and so is
the point that is inside. Scaled to integers, the closest point is no farther from
the center than any other (`Nearer`), and the two roundings together are less than the
player's radius (`ClosestRounded`). On maps without polygons this is `WallsHold`.

**AvClientProofs.** `TypesInv` says what `processTokenFrame` remembers where it stands (`JobOK`);
`RoomsInv` that a join's Room object is `this.room` or gone (`JoinInv`), that no other object
is in use (`InUse`) or being closed (`InClosing`), and that nothing is published before the
room is up (`TracksInv`). `OneLiveRoom` is `InUse`, and needs `JoinInv` because an object is
taken before and connected after an await, in which another caller may close it. `MuteHolds`
is an action property: a publication that settles is the only step that can make audible what
is not wanted.

**RecordingProofs.** `Sane` relates where each goroutine stands to the rows and egresses it has
seen: who has come past `StopEgress` has ended its egress or lost it (`Stopping`). `RunningIsKnown`
adds `Listed`: what runs when the reconciliation uses its second snapshot is in it, or was started
since, or is lost. `OutcomesStand` needs to know who has a recording in hand. `New`: the one that is about to be
registered is nobody else's; `Early`: before the reconciliation nobody stops anything; `Marking`: nobody
completes what is about to be marked as failed; `OneStopper`: a recording that is not contested has one
stopper, which forgets it for good; `Extracted`: nobody stops again what is being extracted. That the
reconciliation finds a room's *oldest* recording is from the well-foundedness of their order.

**RecordsProofs.** For `WorldOptions`, `Heeded`: what waits to be published is current, and who
has subscribed ends, with the last of its queue, at the current options. For
`Profile`: handlers of one field do not overlap (`Apart`); a field of the row is the entity's or a
handler is about to save it (`Kept`); the last status told is the row's or the entity's unless a
handler is about to tell (`ToldRow`, `RowTold`, `ToldEntity`); screens show what is not dirty (`Shown`).
The types do not need that handlers wait for each other.

**ExtensionsProofs.** `DoorsMatchWalls`: the wall zones of ext-walls are those of the doors, up
to what its queue still holds. The number of waiting requests has no bound, so `Walled` asks for a
path of zones along the queue, from those of ext-walls to those of the doors; a request that
is handled is the first step of the path and a request that is asked extends it. The other parts
say who runs (`Known`), that nobody interacts before all have started (`FirstAll`), and where
`applyAction` stands (`Asked`). `Lone` is needed: a popup acts on one door where ext-walls toggles all the player
is next to, and a reply of ext-props that comes too late is dropped when the wall has been
toggled; with either `DoorMatchesWall` fails.

`RoomsFollowPlayers`: `OneStep` says that the five subscriptions work on the events of one
step of the world, `Excuses` when a client may be elsewhere, `RightRoom` that it is in the right
room or a frame is on its way. With `"delay"`, events of two steps overtake each other; with `"brief"` a visit of a zone
ends before the circles are computed; `RoomFollowsPlayer` fails with each.

**How induction over data is avoided.** The proof system cannot instantiate induction theorems
for an operator. A least element is taken from a well-founded order by
`WFMin`, and facts about a whole queue are stated for each position (or as a path), so that an
append or a tail moves positions by one.

The type invariants of `Session`, `Replication`, `Persistence`, `Profile` and `WorldOptions`, and
`OneSessionPerIdentity`, which follows from `TablesAgree`, are proved and not repeated in a run.

**Model-checked only.** All liveness properties, since the proof system handles neither
fairness nor `ENABLED`: `NoZombieWindow`, `OrphansLeave`, `BannedLeave`, `RequestsSettle`,
`StandingTogether`, `AloneLeaves`, `StandingIsSaved`, `GatesConverge`, `LeaveIsHonoured`,
`EmptyRoomsSettle`, `ExtractionsGoOn`. `WallsHold` for polygons, where a point is inside if an odd number of edges is to its right: that a way
from outside to inside crosses an edge is an induction over the edges.

Whether an avatar can always walk on is no property: it depends on the map. An avatar that is put on
a wall stays there, and between the border and a gate right behind it an avatar
can be left less room than a step, and steps are not shortened.

## 5. Disagreements between code and comments or docs

With a run:

1. `places_skipped`: the persister writes outside the lock and then notes in `lastSavedPos` what it wrote, and not
   what the record holds after the other goroutines' writes; a place in `lastSavedPos` is then not in
   PocketBase and is skipped until the player moves (`worldsim.go:1175`, against `:232`). The run's
   player goes through a portal and back while the portal's `map_id` is on its way.
2. `options_audit`: the notifier looks for a reply in what is broadcast, and drops every
   broadcast (`notifier.go:98`, against `:52`).
3. `options_mcp`: the MCP tools do not know `allow_player_teleport` and store false for it
   whenever they replace the options (`worldsim_client.go:390`, against
   `tools.go:388`).

The following can be seen by changing a constant of a model, or by checking a property that is
defined and in no run.

* **Banned window.** A banned window that was confirmed displaces the other window, which gets
  no `force_close` and stays frozen (`worldsim.go:1405`): `NoZombieWindow` with a ban
  that matches one window of the two.
* **Torn place.** A transition saves `map_id` alone; a displacement before the next
  checkpoint restores coordinates of another map (`portal.go:191`): `CoordsMatchMap` of
  `Persistence` with `Faults = {"displace"}`.
* **Lost avatars.** A batch ahead of `AuthResult` is cleared by the browser and never sent again
  (`GameScene.ts:1411`), and so is what a tick sends between a teleport handler's unlock and its `MapTransition`
  (`portal.go:187`): `UpdatesLand` without its `dropped`.
* **Ghosts.** Destroys during a map load are dropped, and a buffered spawn becomes a ghost
  (`GameScene.ts:2189`); the filter on the destroy queue looks
  at where the entity is now (`replication.go:282`): `NoGhost` and `TickIsExact` without their `dropped`.
* **Lost recordings.** A refused `StopEgress` leaves an egress that nobody can stop before ext-rec restarts
  (`cmd/ext-rec/main.go:985`), a refused update leaves the row active (`:998`), a list that fails ends the
  reconciliation (`:430`), a failed stop of an orphan is not repeated (`:520`), and a stop removes whatever recording the room has by
  then (`:992`): `RunningIsKnown` and `EmptyRoomsSettle` without their `lost`.
* **Do not disturb.** These players never get `proximity.leave` (`proximity.go:66`): `DndLeaves`
  of `Proximity`. In the browser, the retry of a failed connect does not look at
  do-not-disturb (`AvClient.ts:590`).
* **Options of extensions.** `PublishAllOptions` has no caller, although the comment says it runs
  at startup (`extensionoptions.go:128`), so an extension that was down keeps other options than those
  stored: `OptionsReachWalls` of `Extensions`.
* **Zone audio.** With `zone_audio_enabled` switched off ext-av drops `zone.exit` as well, and the
  player stays in the room of a zone left behind (`cmd/ext-av/main.go:261`): `RoomsAreLeft` of
  `ExtAv`.

Of the models' fault switches, these are off in the runs because properties fail with them:

* `Profile`, `"overlap"`: two handlers of one field save in another order than they changed
  the entity.
* `WorldOptions`, `"overlap"`: an editor replaces what another has just stored. `"early"`: the
  publication at startup races one of `Set`, and the older may arrive last. `"gap"`: a service fetches the
  options before it subscribes.
* `Session`, `"silence"` and `"kernel"` for `NoZombieWindow`, `"kernel"` for `RequestsSettle` (`OrphansLeave` and
  `BannedLeave` hold with both): a reaped client whose
  window is alive stays frozen, for the reaper publishes no `force_close`
  (`worldsim.go:1229`; kick does, `admin_actions.go:112`) and acts on ids gathered before
  it released the lock; nobody provisions windows again after worldsim restarts.

Seen while modelling, without a formal counterpart:

* A ban by user id is compared with the entity id when it looks for whom to kick
  (`admin_actions.go:246`, against `:151`), and the kick takes the first match
  only (`admin_actions.go:188`).
* A first request that times out falls through to `ok` (`pusher.go:483`), so that a window may show the game
  that is refused later, or never answered; `NoZombieWindow` is about sessions that have ended for that reason.
* Every update of a recording's row sets `audio_error`, so that the thumbnail's clears the reason of
  a failed extraction of sound (`recordingstore.go:143`). The reason is not modelled.
* A displaced session's position is not saved (`networking-sequences.md:357`).
* The comment on the heartbeat timeout says 90 s tolerates three lost pings;
  with pings every 30 s the third is already late (`worldsim.go:1180`).
* The proximity zone's exit hysteresis compares coordinates and not maps
  (`zone_system.go:82`): after a transition, a player who is alone on the new map
  keeps the group of somebody close in coordinates on the old one.
  `AloneLeaves` is stated over coordinates for that reason.
* A circle that splits leaves both halves in one room, and an id that is made again
  for the same members may still be in use elsewhere (`proximity.go:148`).
  `CirclesAgree` is one direction only for that reason.
* `features.md:631` speaks of a leave debounce of 1.5 s, `AvClient.ts:545` uses 200 ms.
* Spawn points are tested at the tile of `Position`, walking at the tile below, where the feet are
  (`mapdata.go:349`, `movement.go:187`): an avatar that appears above a wall, or in the last row,
  cannot move. Tiles are tested at both ends of a way only, so that a diagonal may cut the corner of one.
* A portal request is collected in the tick and applied after it has released the lock
  (`portal.go:57`), to an entity that may have been teleported meanwhile, or belong to a new session.
* Proximity lines of clients and of administrators are published by two goroutines and may reach two
  members of a circle in different orders; `OneOrder` is about global lines for that reason.
  A window that has not been let in yet is in pusher's `sessions` and hears global chat;
  `chat.broadcast` is written to one window after another, each with up to five seconds.
* ext-walls ignores which entity is interacted with and acts on all the player is next to; a
  reply of ext-props after the 300 ms is dropped while the wall has been toggled; a
  map reload resets ext-walls' zones and keeps the doors' states.
* ext-av forgets the active zone room of a player who walks from one zone into the next when it
  handles the enter before the exit, and knows no statuses after a restart.
* The default options name a king without an address and would be refused by validation; the admin
  form cuts `ffmpeg_timeout` to whole minutes.
* The comment at `worldsim.go:843` calls a field session-only that is saved.

## 6. Not modelled

The browser apart from its avatars and its A/V client; the audit log's ring, store and pages;
logging in to the admin portal and its lists; the tools, seeders and the
docker proxy; ext-demo; what ext-props does other than toggling. They are I/O, forms and
append-only stores without a protocol of their own.

Within the modelled parts: props and components other than the position in
replication; authorization of teleports; base entities and clients of a removed map
in map reload; a second map transition while the first one's assets load
(`GameScene.ts:2047`); floating-point rounding in movement; ext-av's switch for proximity
audio (joins are then not sent; it changes nothing for those who have a room); a second change of status while the first
one's disconnect waits for LiveKit; the frame in which each of several callers of `disconnect()` gets to its
`finally` (they do so one after the other without another callback between); names, texts and their
truncation in chat and profiles; a ban's fields.

## 7. Plan

In order:

1. The remaining hypotheses: `InStep`, `InTime`, `Prompt` and `Lone`, each replaced by a history of what the
   overlapping handlers lost, as `dropped`, `clash`, `lost` and `contested` have it.
2. An abstract conversation (one log of global lines, one of each pair of handler and
   window) that `Chat` implements.
3. A pusher that is told of a restarted worldsim, if the code comes to have one: `NoZombieWindow` with `"kernel"`.
