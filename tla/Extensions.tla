----------------------------- MODULE Extensions -----------------------------
(***************************************************************************)
(* Extensions on the NATS bus: how ext-walls and ext-props register with   *)
(* the world simulation and lose their registration (extensions.go,        *)
(* extkit.go), how one key press is dispatched to both of them             *)
(* (worldsim.go: applyAction), and how the options of an extension reach   *)
(* it (extensionoptions.go).                                               *)
(*                                                                         *)
(* The world has doors: entities of ext-props, "off" when closed and "on"  *)
(* when open, each with a wall zone of its own.  Interacting with a door   *)
(* has two effects, `toggle` for ext-props and `toggle_wall` for           *)
(* ext-walls; neither extension knows of the other.  A key press acts on   *)
(* every door the player is next to, the popup on the one chosen.          *)
(*                                                                         *)
(* Every NATS subscription has a queue and a goroutine of its own, and     *)
(* nothing is kept for a process that is down.  A heartbeat interval is    *)
(* much longer than a delivery, so an interval passes only when the        *)
(* messages of the last one have arrived; the model counts in threes, the   *)
(* period of registering again and the age at which a heartbeat is stale.   *)
(***************************************************************************)
EXTENDS Naturals, Sequences, FiniteSets

CONSTANTS
  Doors,      \* doors, and their wall zones
  Adjacents,  \* the sets of doors a player may stand next to
  Faults,     \* subset of {"walls", "props", "worldsim", "reload", "admin"}
  SlowExts,   \* extensions that may take longer than actionInputTimeout to reply
  None,
  MaxQueue,   \* bound: messages waiting on one subscription
  MaxFaults   \* bound: crashes, reloads and edits of the options

Exts == {"walls", "props"}
staleAfter == 1      \* CheckStale: three missed heartbeats, the time between two registrations

\* None is no extension, age, option or snapshot.
ASSUME ExtensionsAssumption ==
  /\ Adjacents \subseteq SUBSET Doors /\ SlowExts \subseteq Exts /\ MaxFaults \in Nat
  /\ None \notin Exts /\ None \notin 0..(staleAfter + 1) /\ None \notin BOOLEAN
  /\ None \notin [zones : SUBSET Doors]

VARIABLES
  up,           \* which of the three processes run
  extensions,   \* worldsim: time since the last heartbeat of each extension it knows
  gateTriggers, \* worldsim: zones ext-walls has a block trigger for
  inputTriggers,\* worldsim: extensions registered for key:E and action:execute
  door,         \* worldsim: State of each door
  action,       \* worldsim: applyAction in progress
  row,          \* PocketBase: the stored option "enabled" of ext-walls
  registrations,\* queue of extension.*.register and extension.*.register_triggers
  requests,     \* queue of extension.<id>.action, per extension
  zonesQueue,   \* ext-walls' queue of worldsim.zones
  optionsQueue, \* ext-walls' queue of extension.walls.options
  starting,     \* extensions that have yet to run WaitForReady's onReady
  wallZones,    \* ext-walls: wallZones
  enabled,      \* ext-walls: opts.Enabled
  publishing,   \* ext-walls: register() between its snapshot and its publishes, per goroutine
  missed,       \* history: an extension missed an interaction, died or lost its toggles
  faults        \* how many of the Faults have happened

vars == <<up, extensions, gateTriggers, inputTriggers, door, action, row, registrations,
          requests, zonesQueue, optionsQueue, starting, wallZones, enabled, publishing,
          missed, faults>>

worldsimVars == <<extensions, gateTriggers, inputTriggers, door, action, row>>
wallsVars == <<wallZones, enabled, publishing>>
busVars == <<registrations, requests, zonesQueue, optionsQueue>>

\* The goroutines of ext-walls that call register().
Registrars == {"ready", "zones", "action", "loop"}

NoAction == [pc |-> "idle", todo |-> {}, asked |-> None,
             targets |-> [props |-> {}, walls |-> {}], seen |-> <<>>]

\* Nothing is under way.
AtRest == action = NoAction /\ requests = [x \in Exts |-> <<>>] /\ starting = {}
Settled ==
  /\ AtRest /\ publishing = [p \in Registrars |-> None]
  /\ registrations = <<>> /\ zonesQueue = <<>> /\ optionsQueue = <<>>

Quiet(p) == [publishing EXCEPT ![p] = None]

Init ==
  /\ up = {} /\ starting = {} /\ missed = FALSE /\ faults = 0
  /\ extensions = [x \in Exts |-> None] /\ gateTriggers = {} /\ inputTriggers = {}
  /\ door = [d \in Doors |-> "off"] /\ action = NoAction /\ row = None
  /\ registrations = <<>> /\ requests = [x \in Exts |-> <<>>]
  /\ zonesQueue = <<>> /\ optionsQueue = <<>>
  /\ wallZones = {} /\ enabled = TRUE /\ publishing = [p \in Registrars |-> None]

-----------------------------------------------------------------------------
(* Registration *)

\* Register and triggers of an extension are two messages on two subjects.
Registers(x, zones) ==
  IF "worldsim" \in up
  THEN /\ Len(registrations) < MaxQueue
       /\ registrations' = Append(registrations, [ext |-> x, zones |-> zones])
  ELSE UNCHANGED registrations

\* Mutant: the switch of ext-walls is not asked.
GatesAlways(zones) == zones

\* The gates register() asks for.
Gates(zones) == IF enabled THEN zones ELSE {}

\* onReady of ext-walls: fetch the zones (in vain without worldsim) and take
\* register()'s snapshot.
WallsReady ==
  /\ "walls" \in starting /\ publishing["ready"] = None
  /\ starting' = starting \ {"walls"}
  /\ wallZones' = IF "worldsim" \in up THEN Doors ELSE wallZones
  /\ publishing' = [publishing EXCEPT !["ready"] = [zones |-> Gates(wallZones')]]
  /\ UNCHANGED <<up, worldsimVars, busVars, enabled, missed, faults>>

PropsReady ==
  /\ "props" \in starting
  /\ starting' = starting \ {"props"}
  /\ Registers("props", {})
  /\ UNCHANGED <<up, worldsimVars, requests, zonesQueue, optionsQueue, wallsVars, missed, faults>>

\* register() publishes what it saw; the action handler replies after that.
Publish(p) ==
  /\ publishing[p] # None
  /\ Registers("walls", publishing[p].zones)
  /\ publishing' = Quiet(p)
  /\ IF p = "action"
     THEN /\ requests' = [requests EXCEPT !["walls"] = Tail(@)]
          /\ action' = IF Head(requests["walls"]).late THEN action ELSE [action EXCEPT !.asked = None]
     ELSE UNCHANGED <<requests, action>>
  /\ UNCHANGED <<up, extensions, gateTriggers, inputTriggers, door, row, zonesQueue, optionsQueue,
                 starting, wallZones, enabled, missed, faults>>

\* Register: the extension is known, and fresh.
Registered(x) == extensions' = [extensions EXCEPT ![x] = 0]

\* RegisterTriggers replaces the extension's gate triggers.
TriggersReplaced(m) ==
  /\ gateTriggers' = IF m.ext = "walls" THEN m.zones ELSE gateTriggers
  /\ inputTriggers' = inputTriggers \cup {m.ext}

\* PublishOptions.
OptionsPublished(on) ==
  IF "walls" \in up
  THEN Len(optionsQueue) < MaxQueue /\ optionsQueue' = Append(optionsQueue, on)
  ELSE UNCHANGED optionsQueue

\* EnsureOptions creates the row of ext-walls with the default if there is
\* none, and only then are options published.
OptionsEnsured(x) ==
  IF x = "walls" /\ row = None
  THEN row' = TRUE /\ OptionsPublished(TRUE)
  ELSE UNCHANGED <<row, optionsQueue>>

\* The two messages of register() arrive.
RegistrationArrives ==
  /\ registrations # <<>>
  /\ registrations' = Tail(registrations)
  /\ LET m == Head(registrations) IN
       Registered(m.ext) /\ TriggersReplaced(m) /\ OptionsEnsured(m.ext)
  /\ UNCHANGED <<up, door, action, requests, zonesQueue, starting, wallsVars, missed, faults>>

\* Three heartbeat intervals: extensions that run have beaten and register
\* again, the others are closer to being stale.
Tick ==
  /\ Settled
  /\ extensions' = [x \in Exts |->
       CASE extensions[x] = None -> None
         [] x \in up -> 0
         [] OTHER -> IF extensions[x] > staleAfter THEN extensions[x] ELSE extensions[x] + 1]
  /\ IF "walls" \in up
     THEN publishing' = [publishing EXCEPT !["loop"] = [zones |-> Gates(wallZones)]]
     ELSE UNCHANGED publishing
  /\ IF "props" \in up THEN Registers("props", {}) ELSE UNCHANGED registrations
  /\ UNCHANGED <<up, gateTriggers, inputTriggers, door, action, row, requests, zonesQueue,
                 optionsQueue, starting, wallZones, enabled, missed, faults>>

\* IsRegistered.
Active(x) == extensions[x] # None /\ extensions[x] <= staleAfter

\* IsZoneBlocked.
Blocked == IF Active("walls") THEN gateTriggers ELSE {}

-----------------------------------------------------------------------------
(* One interaction *)

ExtensionsForInput == {x \in inputTriggers : Active(x)}

\* applyAction reads the doors and then asks every active extension that is
\* registered for the input.  A key press means every adjacent door; from the
\* popup, ext-props acts on the door that was chosen and ext-walls does not look
\* at the choice.
Interact ==
  /\ "worldsim" \in up /\ action.pc = "idle"
  /\ \E adjacent \in Adjacents : \E targets \in {adjacent} \cup {{d} : d \in adjacent} :
       LET exts == ExtensionsForInput IN
         /\ exts # {}
         /\ missed' = (missed \/ exts # Exts \/ starting # {})
         /\ action' = [pc |-> "asking", todo |-> exts, asked |-> None,
                       targets |-> [props |-> targets, walls |-> adjacent], seen |-> door]
  /\ UNCHANGED <<up, extensions, gateTriggers, inputTriggers, door, row, busVars, starting,
                 wallsVars, faults>>

\* The next request.  Nobody answers for an extension that is down.
Ask(x) ==
  /\ action.pc = "asking" /\ action.asked = None /\ x \in action.todo
  /\ IF x \in up
     THEN /\ action' = [action EXCEPT !.todo = @ \ {x}, !.asked = x]
          /\ Len(requests[x]) < MaxQueue
          /\ requests' = [requests EXCEPT ![x] =
               Append(@, [targets |-> action.targets[x], seen |-> action.seen, late |-> FALSE])]
     ELSE action' = [action EXCEPT !.todo = @ \ {x}] /\ UNCHANGED requests
  /\ UNCHANGED <<up, extensions, gateTriggers, inputTriggers, door, row, registrations,
                 zonesQueue, optionsQueue, starting, wallsVars, missed, faults>>

\* Every extension was asked: sendActionResult.
Answer ==
  /\ action.pc = "asking" /\ action.asked = None /\ action.todo = {}
  /\ action' = NoAction
  /\ UNCHANGED <<up, extensions, gateTriggers, inputTriggers, door, row, busVars, starting,
                 wallsVars, missed, faults>>

\* actionInputTimeout: the request stays in the extension's queue.
TimeOut ==
  /\ action.asked \in SlowExts
  /\ action' = [action EXCEPT !.asked = None]
  /\ requests' = [requests EXCEPT ![action.asked] = [i \in DOMAIN @ |-> [@[i] EXCEPT !.late = TRUE]]]
  /\ UNCHANGED <<up, extensions, gateTriggers, inputTriggers, door, row, registrations,
                 zonesQueue, optionsQueue, starting, wallsVars, missed, faults>>

Toggled(s) == IF s = "on" THEN "off" ELSE "on"

\* applyActionReply stores the states of the reply.
Applied(r) == [d \in Doors |-> IF d \in r.targets THEN Toggled(r.seen[d]) ELSE door[d]]

\* ext-props flips the states it was sent; a reply that is late is dropped.
PropsAct ==
  /\ requests["props"] # <<>>
  /\ LET r == Head(requests["props"]) IN
       /\ requests' = [requests EXCEPT !["props"] = Tail(@)]
       /\ IF r.late THEN UNCHANGED <<door, action>>
          ELSE /\ door' = Applied(r)
               /\ action' = [action EXCEPT !.asked = None]
  /\ UNCHANGED <<up, extensions, gateTriggers, inputTriggers, row, registrations,
                 zonesQueue, optionsQueue, starting, wallsVars, missed, faults>>

\* Mutant: a wall can only be taken away.
FlippedDown(zones, targets) == zones \ targets

\* toggle_wall of every target.
Flipped(zones, targets) == (zones \ targets) \cup (targets \ zones)

\* ext-walls toggles its zones and takes the snapshot it will register.
WallsAct ==
  /\ requests["walls"] # <<>> /\ publishing["action"] = None
  /\ wallZones' = Flipped(wallZones, Head(requests["walls"]).targets)
  /\ publishing' = [publishing EXCEPT !["action"] = [zones |-> Gates(wallZones')]]
  /\ UNCHANGED <<up, worldsimVars, busVars, starting, enabled, missed, faults>>

-----------------------------------------------------------------------------
(* Options *)

\* A fault of the kind f happens.
Fault(f) == f \in Faults /\ faults < MaxFaults /\ faults' = faults + 1

\* An administrator edits the row, and the hook publishes it.
EditOptions ==
  /\ Fault("admin") /\ "worldsim" \in up /\ row # None
  /\ row' = ~row /\ OptionsPublished(~row)
  /\ UNCHANGED <<up, extensions, gateTriggers, inputTriggers, door, action, registrations,
                 requests, zonesQueue, starting, wallsVars, missed>>

\* SubscribeOptions: used by the next register().
OptionsArrive ==
  /\ optionsQueue # <<>>
  /\ enabled' = Head(optionsQueue) /\ optionsQueue' = Tail(optionsQueue)
  /\ UNCHANGED <<up, worldsimVars, registrations, requests, zonesQueue, starting,
                 wallZones, publishing, missed, faults>>

-----------------------------------------------------------------------------
(* Map reloads, crashes and restarts *)

\* checkMapReload: the entities keep their State, and the zones are broadcast.
Reload ==
  /\ Fault("reload") /\ {"worldsim", "walls"} \subseteq up /\ zonesQueue = <<>>
  /\ zonesQueue' = <<Doors>>
  /\ missed' = TRUE
  /\ UNCHANGED <<up, worldsimVars, registrations, requests, optionsQueue, starting,
                 wallsVars>>

\* ext-walls takes the zones of the map for its own.
ZonesArrive ==
  /\ zonesQueue # <<>> /\ publishing["zones"] = None
  /\ wallZones' = Head(zonesQueue) /\ zonesQueue' = Tail(zonesQueue)
  /\ publishing' = [publishing EXCEPT !["zones"] = [zones |-> Gates(wallZones')]]
  /\ UNCHANGED <<up, worldsimVars, registrations, requests, optionsQueue, starting,
                 enabled, missed, faults>>

\* Mutant: worldsim.ready also waits for an extension that is down.
StartKept(p) ==
  /\ p \notin up
  /\ up' = up \cup {p}
  /\ starting' = IF p = "worldsim" THEN Exts ELSE starting \cup {p}
  /\ UNCHANGED <<worldsimVars, busVars, wallsVars, missed, faults>>

\* A process starts.  The world simulation announces itself with worldsim.ready,
\* and every extension that runs registers again.
Start(p) ==
  /\ p \notin up
  /\ up' = up \cup {p}
  /\ starting' = IF p = "worldsim" THEN up \cap Exts ELSE starting \cup {p}
  /\ UNCHANGED <<worldsimVars, busVars, wallsVars, missed, faults>>

\* A process dies, with what it held in memory and what was on its way to it.
Crash(p) ==
  /\ p \in up /\ Fault(p)
  /\ up' = up \ {p} /\ missed' = TRUE
  /\ starting' = starting \ {p}
  /\ IF p = "worldsim"
     THEN /\ extensions' = [x \in Exts |-> None] /\ gateTriggers' = {} /\ inputTriggers' = {}
          /\ door' = [d \in Doors |-> "off"] /\ action' = NoAction
          /\ registrations' = <<>>
          /\ requests' = [x \in Exts |-> [i \in DOMAIN requests[x] |-> [requests[x][i] EXCEPT !.late = TRUE]]]
          /\ UNCHANGED <<zonesQueue, optionsQueue, wallsVars>>
     ELSE /\ requests' = [requests EXCEPT ![p] = <<>>]
          /\ action' = IF action.asked = p THEN [action EXCEPT !.asked = None] ELSE action
          /\ IF p = "walls"
             THEN /\ wallZones' = {} /\ enabled' = TRUE /\ publishing' = [q \in Registrars |-> None]
                  /\ zonesQueue' = <<>> /\ optionsQueue' = <<>>
             ELSE UNCHANGED <<wallsVars, zonesQueue, optionsQueue>>
          /\ UNCHANGED <<extensions, gateTriggers, inputTriggers, door, registrations>>
  /\ UNCHANGED row

-----------------------------------------------------------------------------

Next ==
  \/ WallsReady \/ PropsReady \/ RegistrationArrives \/ Tick
  \/ Interact \/ Answer \/ TimeOut \/ PropsAct \/ WallsAct
  \/ EditOptions \/ OptionsArrive \/ Reload \/ ZonesArrive
  \/ \E x \in Exts : Ask(x)
  \/ \E p \in Registrars : Publish(p)
  \/ \E p \in Exts \cup {"worldsim"} : Start(p) \/ Crash(p)

Spec == Init /\ [][Next]_vars

\* Time passes, goroutines run and messages arrive; what died is restarted.
Fairness ==
  /\ WF_vars(WallsReady) /\ WF_vars(PropsReady) /\ WF_vars(RegistrationArrives)
  /\ SF_vars(Tick)
  /\ WF_vars(Answer) /\ WF_vars(PropsAct) /\ WF_vars(WallsAct)
  /\ WF_vars(OptionsArrive) /\ WF_vars(ZonesArrive)
  /\ \A x \in Exts : WF_vars(Ask(x))
  /\ \A p \in Registrars : WF_vars(Publish(p))
  /\ \A p \in Exts \cup {"worldsim"} : WF_vars(Start(p))

FairSpec == Spec /\ Fairness

-----------------------------------------------------------------------------
(* Properties *)

\* Types of the variables.
TypeOK ==
  /\ up \subseteq Exts \cup {"worldsim"} /\ starting \subseteq Exts \cap up
  /\ extensions \in [Exts -> 0..(staleAfter + 1) \cup {None}]
  /\ gateTriggers \subseteq Doors /\ inputTriggers \subseteq Exts
  /\ door \in [Doors -> {"on", "off"}] /\ row \in BOOLEAN \cup {None}
  /\ action.pc \in {"idle", "asking"} /\ action.asked \in Exts \cup {None}
  /\ registrations \in Seq([ext : Exts, zones : SUBSET Doors])
  /\ \A x \in Exts : requests[x] \in
       Seq([targets : SUBSET Doors, seen : [Doors -> {"on", "off"}], late : BOOLEAN])
  /\ wallZones \subseteq Doors /\ enabled \in BOOLEAN
  /\ publishing \in [Registrars -> [zones : SUBSET Doors] \cup {None}]
  /\ missed \in BOOLEAN /\ faults \in 0..MaxFaults

\* Two extensions that both act on every interaction agree about the doors,
\* however late ext-walls is: an open door has no wall, and a closed one has.
DoorMatchesWall ==
  AtRest /\ up = Exts \cup {"worldsim"} /\ ~missed =>
    \A d \in Doors : door[d] = "on" <=> d \notin wallZones

\* However registrations, heartbeats, restarts and late snapshots interleave,
\* the gates that stop players end up those ext-walls means.
GatesConverge ==
  \A zones \in SUBSET Doors, on \in BOOLEAN :
    <>[](up = Exts \cup {"worldsim"} /\ wallZones = zones /\ enabled = on)
      => <>[](Blocked = IF on THEN zones ELSE {})

\* The options an administrator has stored are those the extension runs with.
OptionsReachWalls ==
  \A on \in BOOLEAN :
    <>[](up = Exts \cup {"worldsim"} /\ row = on) => <>[](enabled = on)
=============================================================================
