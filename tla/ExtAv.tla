------------------------------- MODULE ExtAv -------------------------------
(***************************************************************************)
(* ext-av (cmd/ext-av/main.go): turns zone and proximity events of the     *)
(* world simulation into the token frames that AvClient acts on.  One      *)
(* player is followed; the handlers keep a table entry per player and      *)
(* share nothing else but the options.                                     *)
(*                                                                         *)
(* zone.enter, zone.exit, proximity.join, proximity.leave and              *)
(* worldsim.player_status are separate subscriptions, each with a queue    *)
(* and a goroutine: what one step of the world simulation publishes is     *)
(* handled in any order, and the handlers of zones publish a frame and     *)
(* write down the room in separate steps.  Steps of the world simulation   *)
(* are a tick apart: the events of one are handled before the next, unless *)
(* "delay" is among the Faults; and a player stays in a zone until the     *)
(* circles are computed again, unless "brief" is.                          *)
(*                                                                         *)
(* The client is reduced to the room its frames make it choose: a join     *)
(* takes it to the room, a leave out of it if it is the current one, and   *)
(* do-not-disturb keeps it out of all (AvClient is the client itself).     *)
(***************************************************************************)
EXTENDS Naturals, Sequences, FiniteSets

CONSTANTS
  Zones,     \* av_enabled zones, and their rooms zone-<id>
  Groups,    \* proximity groups, and their rooms
  None,
  Faults,    \* subset of {"delay", "brief", "options", "restart"}
  MaxQueue   \* bound: events waiting on one subscription

Subjects == {"zone.enter", "zone.exit", "proximity.join", "proximity.leave", "player_status"}

VARIABLES
  place,          \* the zone or circle the player stands in
  group,          \* worldsim: currentProximityGroup
  status,         \* worldsim: the player is in do-not-disturb
  events,         \* queue of each subscription
  handling,       \* what each handler has still to do
  playerStatus,   \* ext-av: do-not-disturb, as far as it has heard
  activeZoneRoom, \* ext-av: the room a change to do-not-disturb ejects from
  zoneAudio,      \* ext-av: opts.ZoneAudioEnabled
  clientRoom,     \* the room the client is in
  excused,        \* history: the player was in do-not-disturb here, or frames were withheld
  lost            \* history: leaves may have been lost since the last join

vars == <<place, group, status, events, handling, playerStatus, activeZoneRoom, zoneAudio,
          clientRoom, excused, lost>>
worldsimVars == <<place, group, status>>
extVars == <<handling, playerStatus, activeZoneRoom, zoneAudio>>

Places == Zones \cup Groups \cup {None}

Init ==
  /\ place = None /\ group = None /\ status = FALSE
  /\ events = [s \in Subjects |-> <<>>]
  /\ handling = [s \in Subjects |-> None]
  /\ playerStatus = FALSE /\ activeZoneRoom = None /\ zoneAudio = TRUE
  /\ clientRoom = None /\ excused = FALSE /\ lost = FALSE

-----------------------------------------------------------------------------
(* The world simulation *)

\* Every event was handled.
Handled ==
  /\ events = [s \in Subjects |-> <<>>]
  /\ handling = [s \in Subjects |-> None]

Due == Handled \/ "delay" \in Faults

\* news: what each subject is told, or None.
Published(news) ==
  /\ \A s \in DOMAIN news : news[s] # None => Len(events[s]) < MaxQueue
  /\ events' = [s \in Subjects |->
       IF s \in DOMAIN news /\ news[s] # None THEN Append(events[s], news[s]) ELSE events[s]]

Zone(p) == IF p \in Zones THEN p ELSE None

\* A visit of a zone shorter than the time between two clusterings.
Brief == place \in Zones /\ group # None /\ ~status

\* The player walks, and ZoneSystem.Step publishes what was entered and left.
Walk(p) ==
  /\ Due /\ p # place
  /\ Brief => "brief" \in Faults
  /\ place' = p
  /\ Published([s \in {"zone.enter", "zone.exit"} |->
       IF s = "zone.enter" THEN Zone(p) ELSE Zone(place)])
  /\ excused' = (status \/ ~zoneAudio \/ (excused /\ p \notin Zones))
  /\ UNCHANGED <<group, status, extVars, clientRoom, lost>>

\* ProximitySystem.Step: the group of the circle, none alone or in an A/V
\* zone; players in do-not-disturb are passed over (see Proximity).
Cluster ==
  /\ Due /\ ~status
  /\ LET g == IF place \in Groups THEN place ELSE None IN
       /\ g # group
       /\ group' = g
       /\ Published([s \in {"proximity.join", "proximity.leave"} |->
            IF s = "proximity.join" THEN g ELSE group])
  /\ excused' = (excused /\ place \in Zones)
  /\ UNCHANGED <<place, status, extVars, clientRoom, lost>>

\* handleSetStatus broadcasts; the client disconnects at once by itself.
SetStatus ==
  /\ Due
  /\ status' = ~status /\ excused' = TRUE
  /\ clientRoom' = IF status' THEN None ELSE clientRoom
  /\ Published([s \in {"player_status"} |-> IF status' THEN "dnd" ELSE "available"])
  /\ UNCHANGED <<place, group, extVars, lost>>

-----------------------------------------------------------------------------
(* The client *)

\* Mutant: a leave disconnects from whatever room is current.
AfterLeaveAny(r) == None

AfterJoin(r) == IF status THEN clientRoom ELSE r
AfterLeave(r) == IF clientRoom = r THEN None ELSE clientRoom

-----------------------------------------------------------------------------
(* The handlers.  A handler that publishes and then writes does the latter *)
(* in a step of its own.                                                    *)

Ready(s) == events[s] # <<>> /\ handling[s] = None
Taken(s) == events' = [events EXCEPT ![s] = Tail(@)]

\* zone.enter: the checks ...
EnterHandler ==
  /\ Ready("zone.enter") /\ Taken("zone.enter")
  /\ IF ~zoneAudio \/ playerStatus THEN UNCHANGED handling
     ELSE handling' = [handling EXCEPT !["zone.enter"] = [room |-> Head(events["zone.enter"]), pc |-> "mint"]]
  /\ UNCHANGED <<worldsimVars, playerStatus, activeZoneRoom, zoneAudio, clientRoom, excused, lost>>

\* ... mint and publish the token ...
EnterPublishes ==
  /\ handling["zone.enter"] # None /\ handling["zone.enter"].pc = "mint"
  /\ clientRoom' = AfterJoin(handling["zone.enter"].room) /\ lost' = ~zoneAudio
  /\ handling' = [handling EXCEPT !["zone.enter"].pc = "record"]
  /\ UNCHANGED <<worldsimVars, events, playerStatus, activeZoneRoom, zoneAudio, excused>>

\* ... and write the room down.
EnterRecords ==
  /\ handling["zone.enter"] # None /\ handling["zone.enter"].pc = "record"
  /\ activeZoneRoom' = handling["zone.enter"].room
  /\ handling' = [handling EXCEPT !["zone.enter"] = None]
  /\ UNCHANGED <<worldsimVars, events, playerStatus, zoneAudio, clientRoom, excused, lost>>

\* zone.exit, ignored like zone.enter while zone audio is off.
ExitHandler ==
  /\ Ready("zone.exit") /\ Taken("zone.exit")
  /\ IF ~zoneAudio THEN UNCHANGED <<handling, clientRoom>>
     ELSE /\ clientRoom' = AfterLeave(Head(events["zone.exit"]))
          /\ handling' = [handling EXCEPT !["zone.exit"] = [room |-> Head(events["zone.exit"]), pc |-> "record"]]
  /\ UNCHANGED <<worldsimVars, playerStatus, activeZoneRoom, zoneAudio, excused, lost>>

\* The entry is deleted whatever room it names.
ExitRecords ==
  /\ handling["zone.exit"] # None
  /\ activeZoneRoom' = None
  /\ handling' = [handling EXCEPT !["zone.exit"] = None]
  /\ UNCHANGED <<worldsimVars, events, playerStatus, zoneAudio, clientRoom, excused, lost>>

\* proximity.join and proximity.leave have no tables.
JoinHandler ==
  /\ Ready("proximity.join") /\ Taken("proximity.join")
  /\ clientRoom' = AfterJoin(Head(events["proximity.join"])) /\ lost' = FALSE
  /\ UNCHANGED <<worldsimVars, extVars, excused>>

LeaveHandler ==
  /\ Ready("proximity.leave") /\ Taken("proximity.leave")
  /\ clientRoom' = AfterLeave(Head(events["proximity.leave"]))
  /\ UNCHANGED <<worldsimVars, extVars, excused, lost>>

\* worldsim.player_status: the entry is taken under the lock, the leave frame
\* of a player who has become unavailable is published after it.
StatusHandler ==
  /\ Ready("player_status") /\ Taken("player_status")
  /\ playerStatus' = (Head(events["player_status"]) = "dnd")
  /\ IF playerStatus' /\ activeZoneRoom # None
     THEN /\ handling' = [handling EXCEPT !["player_status"] = [room |-> activeZoneRoom, pc |-> "eject"]]
          /\ activeZoneRoom' = None
     ELSE UNCHANGED <<handling, activeZoneRoom>>
  /\ UNCHANGED <<worldsimVars, zoneAudio, clientRoom, excused, lost>>

StatusEjects ==
  /\ handling["player_status"] # None
  /\ clientRoom' = AfterLeave(handling["player_status"].room)
  /\ handling' = [handling EXCEPT !["player_status"] = None]
  /\ UNCHANGED <<worldsimVars, events, playerStatus, activeZoneRoom, zoneAudio, excused, lost>>

\* extension.av.options
OptionsArrive ==
  /\ "options" \in Faults
  /\ zoneAudio' = ~zoneAudio
  /\ excused' = TRUE /\ lost' = TRUE
  /\ UNCHANGED <<worldsimVars, events, handling, playerStatus, activeZoneRoom, clientRoom>>

\* ext-av dies and starts again: events meanwhile, tables and switches are lost.
Restart ==
  /\ "restart" \in Faults
  /\ events' = [s \in Subjects |-> <<>>] /\ handling' = [s \in Subjects |-> None]
  /\ playerStatus' = FALSE /\ activeZoneRoom' = None /\ zoneAudio' = TRUE
  /\ excused' = TRUE /\ lost' = TRUE
  /\ UNCHANGED <<worldsimVars, clientRoom>>

Next ==
  \/ \E p \in Places : Walk(p)
  \/ Cluster \/ SetStatus
  \/ EnterHandler \/ EnterPublishes \/ EnterRecords \/ ExitHandler \/ ExitRecords
  \/ JoinHandler \/ LeaveHandler \/ StatusHandler \/ StatusEjects
  \/ OptionsArrive \/ Restart

Spec == Init /\ [][Next]_vars

-----------------------------------------------------------------------------
(* Properties *)

\* Types of the variables.
Work == [room : Zones, pc : {"mint", "record", "eject"}] \cup {None}
TypeOK ==
  /\ place \in Places /\ group \in Groups \cup {None} /\ status \in BOOLEAN
  /\ events \in [Subjects -> Seq(Zones \cup Groups \cup {"dnd", "available"})]
  /\ handling \in [Subjects -> Work]
  /\ playerStatus \in BOOLEAN /\ activeZoneRoom \in Zones \cup {None} /\ zoneAudio \in BOOLEAN
  /\ clientRoom \in Places /\ excused \in BOOLEAN /\ lost \in BOOLEAN

\* Once the events of a step are handled and the circles are up to date, in
\* whatever order the subscriptions were served, the client is in no room but
\* that of the place the player stands in, and it is in that one unless
\* do-not-disturb kept it out (nor if ext-av was restarted, or zone audio
\* switched, since it last joined a room).
Settled == Handled /\ (status \/ group = IF place \in Groups THEN place ELSE None)
RoomFollowsPlayer ==
  Settled /\ ~lost =>
    /\ clientRoom \in {None, place}
    /\ ~excused /\ ~status => clientRoom = place

\* zone_audio_enabled decides about joining rooms: switched off, it keeps no
\* player in the room of a zone the player has left.
RoomsAreLeft == Settled => clientRoom \in {None, place}
=============================================================================
