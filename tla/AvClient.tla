------------------------------ MODULE AvClient ------------------------------
(***************************************************************************)
(* The browser's A/V client (frontend/src/net/AvClient.ts): token frames   *)
(* of ext-av are processed one after the other and connect to and          *)
(* disconnect from LiveKit rooms, while the leave timer, do-not-disturb,   *)
(* the loss of the game connection and LiveKit itself close rooms whenever *)
(* they like.                                                              *)
(*                                                                         *)
(* JavaScript runs one callback at a time: a step is what runs between two *)
(* awaits.  A `disconnect()` first yields with setTimeout(0) and then      *)
(* waits for LiveKit to close the Room; `connect()` yields before it       *)
(* connects and before it publishes each kind of media.  Callbacks of      *)
(* setTimeout(0) run in the order they were asked for (`macrotasks`).      *)
(***************************************************************************)
EXTENDS Naturals, Sequences, FiniteSets

CONSTANTS
  Rooms,        \* names of LiveKit rooms
  RoomObjects,  \* Room objects of the LiveKit SDK
  None,
  Media,        \* a sequence: the kinds of tracks, in the order they are published
  MaxAttempts,  \* maxAttempts of processTokenFrame
  MaxFrames     \* bound: token frames received

ASSUME AvClientAssumption ==
  /\ None \notin Rooms \cup RoomObjects /\ "yield" \notin RoomObjects
  /\ Media \in Seq({Media[i] : i \in DOMAIN Media})
  /\ MaxAttempts \in Nat \ {0} /\ MaxFrames \in Nat

VARIABLES
  frameQueue,   \* token frames received and not yet processed
  received,     \* how many frames were received
  lastFrame,    \* the last of them
  job,          \* where processTokenFrame stands with the current frame
  room,         \* this.room
  currentRoom,  \* this.currentRoom
  livekit,      \* state of each Room object, and the room it is for
  closing,      \* where each caller of disconnect() stands
  macrotasks,   \* pending setTimeout(0) callbacks, first in first out
  disconnecting,
  leaveTimer,   \* the room the pending leave timer is for
  dnd, afkMuted,
  wanted,       \* the user's preference per kind of media: not micMuted, cameraEnabled
  track         \* the published track per kind of media of the current room

vars == <<frameQueue, received, lastFrame, job, room, currentRoom, livekit, closing,
          macrotasks, disconnecting, leaveTimer, dnd, afkMuted, wanted, track>>

Kinds == {Media[i] : i \in 1..Len(Media)}

\* Who calls disconnect(): processTokenFrame, the leave timer, setStatus, and
\* GameScene when the game connection drops.
Callers == {"join", "timer", "status", "close"}

Frames == [action : {"join", "leave"}, room : Rooms]
NoFrame == [action |-> "none", room |-> None]

\* A frame is being processed from "leaving" (its own disconnect) through the
\* attempts to connect until its media are published.
JobStates == {"idle", "leaving", "module", "yield", "connecting", "publish", "publishing", "backoff"}
Idle == [pc |-> "idle", room |-> None, attempt |-> 0, obj |-> None, step |-> 0]

\* A track that is published sends unless it is paused (setMicMuted) or
\* muted (the AFK overlay).
NoTrack == [state |-> "none", paused |-> FALSE, muted |-> FALSE]
Tracks == [state : {"none", "publishing", "published"}, paused : BOOLEAN, muted : BOOLEAN]
Unpublished == [k \in Kinds |-> NoTrack]

Audible(k) ==
  /\ room # None /\ livekit[room].state = "up"
  /\ track[k].state = "published" /\ ~track[k].paused /\ ~track[k].muted

Init ==
  /\ frameQueue = <<>> /\ received = 0 /\ lastFrame = NoFrame
  /\ job = Idle
  /\ room = None /\ currentRoom = None
  /\ livekit = [o \in RoomObjects |-> [state |-> "free", room |-> None]]
  /\ closing = [w \in Callers |-> None]
  /\ macrotasks = <<>>
  /\ disconnecting = FALSE
  /\ leaveTimer = None
  /\ dnd = FALSE /\ afkMuted = FALSE
  /\ wanted \in [Kinds -> BOOLEAN]
  /\ track = Unpublished

-----------------------------------------------------------------------------
(* LiveKit's side of a Room object, as the client uses it. *)

Up(o) == livekit[o].state = "up"
\* close() was called on o and has not completed.
BeingClosed(o) == \E w \in Callers : closing[w] = o
Gone(o) == [livekit EXCEPT ![o] = [state |-> "free", room |-> None]]
\* An object nobody uses any more is garbage; a new Room is another object.
Fresh(o) == livekit[o].state = "free" /\ room # o /\ job.obj # o /\ ~BeingClosed(o)

-----------------------------------------------------------------------------
(* disconnect() *)

\* The part of disconnect() before its first await, called by w: the leave
\* timer is cleared, and without a room there is nothing else to do.
DisconnectBegins(w) ==
  /\ leaveTimer' = None
  /\ IF room = None
     THEN UNCHANGED <<disconnecting, closing, macrotasks>>
     ELSE /\ disconnecting' = TRUE
          /\ closing' = [closing EXCEPT ![w] = "yield"]
          /\ macrotasks' = Append(macrotasks, w)

\* Mutant: the name of the room is forgotten only by whoever asked to leave.
DisconnectEndsRoomKept ==
  /\ room' = None /\ UNCHANGED currentRoom
  /\ disconnecting' = FALSE
  /\ track' = Unpublished

\* The finally block.
DisconnectEnds ==
  /\ room' = None /\ currentRoom' = None
  /\ disconnecting' = FALSE
  /\ track' = Unpublished

\* The yield of disconnect() is over: if this.room became null meanwhile the
\* call throws (and the join that waits for it fails), otherwise LiveKit
\* starts to close whatever room is current now.  A Room that has not begun to
\* connect has nothing to close.
DisconnectGoesOn ==
  /\ macrotasks # <<>> /\ Head(macrotasks) \in Callers
  /\ LET w == Head(macrotasks) IN
       /\ macrotasks' = Tail(macrotasks)
       /\ IF room = None \/ livekit[room].state = "new"
          THEN /\ DisconnectEnds
               /\ closing' = [closing EXCEPT ![w] = None]
               /\ livekit' = IF room = None THEN livekit ELSE Gone(room)
               /\ job' = IF w = "join" THEN Idle ELSE job
          ELSE /\ closing' = [closing EXCEPT ![w] = room]
               /\ UNCHANGED <<room, currentRoom, disconnecting, track, job, livekit>>
  /\ UNCHANGED <<frameQueue, received, lastFrame, leaveTimer, dnd, afkMuted, wanted>>

-----------------------------------------------------------------------------
(* processTokenFrame() and connect() *)

\* An attempt failed: connect() threw.
Failed(j) == IF j.attempt < MaxAttempts THEN [j EXCEPT !.pc = "backoff", !.obj = None] ELSE Idle

\* connect() goes on to the next kind of media, or is done; it reads
\* this.room.remoteParticipants at the end, which throws if the room is gone.
NextMedia(j) ==
  IF j.step < Len(Media)
  THEN /\ job' = [j EXCEPT !.pc = "publish", !.step = @ + 1]
       /\ macrotasks' = Append(macrotasks, "job")
  ELSE /\ job' = IF room = None THEN Failed(j) ELSE Idle
       /\ UNCHANGED macrotasks

\* handleTokenFrame: the frame waits for its turn.
ReceiveFrame ==
  /\ received < MaxFrames
  /\ received' = received + 1
  /\ \E f \in Frames : frameQueue' = Append(frameQueue, f) /\ lastFrame' = f
  /\ UNCHANGED <<job, room, currentRoom, livekit, closing, macrotasks, disconnecting,
                 leaveTimer, dnd, afkMuted, wanted, track>>

\* Mutant: a leave does not wait for the frame that is being processed.
ProcessLeaveAtOnce ==
  /\ frameQueue # <<>> /\ Head(frameQueue).action = "leave"
  /\ frameQueue' = Tail(frameQueue)
  /\ leaveTimer' = IF currentRoom = Head(frameQueue).room THEN currentRoom ELSE leaveTimer
  /\ UNCHANGED <<received, lastFrame, job, room, currentRoom, livekit, closing, macrotasks,
                 disconnecting, dnd, afkMuted, wanted, track>>

\* A leave starts the debounce timer if it is about the current room.
ProcessLeave ==
  /\ job.pc = "idle" /\ frameQueue # <<>> /\ Head(frameQueue).action = "leave"
  /\ frameQueue' = Tail(frameQueue)
  /\ leaveTimer' = IF currentRoom = Head(frameQueue).room THEN currentRoom ELSE leaveTimer
  /\ UNCHANGED <<received, lastFrame, job, room, currentRoom, livekit, closing, macrotasks,
                 disconnecting, dnd, afkMuted, wanted, track>>

\* Mutant: a join does not leave the room the client is in.
ProcessJoinOnTop ==
  /\ job.pc = "idle" /\ frameQueue # <<>> /\ Head(frameQueue).action = "join"
  /\ frameQueue' = Tail(frameQueue)
  /\ LET r == Head(frameQueue).room IN
       IF dnd THEN UNCHANGED <<job, leaveTimer>>
       ELSE /\ leaveTimer' = None
            /\ job' = IF currentRoom = r THEN job
                      ELSE [Idle EXCEPT !.pc = "module", !.room = r, !.attempt = 1]
  /\ UNCHANGED <<received, lastFrame, room, currentRoom, livekit, dnd, afkMuted, wanted, track,
                 closing, macrotasks, disconnecting>>

\* A join is refused in do-not-disturb, cancels a pending leave, has nothing
\* to do in the room it is for, and leaves any other room first.
ProcessJoin ==
  /\ job.pc = "idle" /\ frameQueue # <<>> /\ Head(frameQueue).action = "join"
  /\ frameQueue' = Tail(frameQueue)
  /\ LET r == Head(frameQueue).room
         j == [Idle EXCEPT !.room = r, !.attempt = 1] IN
       \/ /\ dnd
          /\ UNCHANGED <<job, leaveTimer, closing, macrotasks, disconnecting>>
       \/ /\ ~dnd /\ currentRoom = r
          /\ leaveTimer' = None
          /\ UNCHANGED <<job, closing, macrotasks, disconnecting>>
       \/ /\ ~dnd /\ currentRoom = None
          /\ leaveTimer' = None
          /\ job' = [j EXCEPT !.pc = "module"]
          /\ UNCHANGED <<closing, macrotasks, disconnecting>>
       \/ /\ ~dnd /\ currentRoom \notin {r, None}
          /\ DisconnectBegins("join")
          /\ job' = [j EXCEPT !.pc = "leaving"]
  /\ UNCHANGED <<received, lastFrame, room, currentRoom, livekit, dnd, afkMuted, wanted, track>>

\* ensureModule() is done: connect() makes a new Room its current one.
NewRoom ==
  /\ job.pc = "module"
  /\ \E o \in RoomObjects :
       /\ Fresh(o)
       /\ room' = o /\ currentRoom' = job.room
       /\ livekit' = [livekit EXCEPT ![o] = [state |-> "new", room |-> job.room]]
       /\ job' = [job EXCEPT !.pc = "yield", !.obj = o]
  /\ track' = Unpublished
  /\ macrotasks' = Append(macrotasks, "job")
  /\ UNCHANGED <<frameQueue, received, lastFrame, closing, disconnecting, leaveTimer, dnd,
                 afkMuted, wanted>>

\* The yield before room.connect() is over; this.room may be gone.
StartConnect ==
  /\ job.pc = "yield" /\ macrotasks # <<>> /\ Head(macrotasks) = "job"
  /\ macrotasks' = Tail(macrotasks)
  /\ IF room = None
     THEN job' = Failed(job) /\ UNCHANGED livekit
     ELSE /\ job' = [job EXCEPT !.pc = "connecting"]
          /\ livekit' = [livekit EXCEPT ![job.obj].state = "connecting"]
  /\ UNCHANGED <<frameQueue, received, lastFrame, room, currentRoom, closing, disconnecting,
                 leaveTimer, dnd, afkMuted, wanted, track>>

\* LiveKit has connected the room, and its media are published one by one ...
ConnectSucceeds ==
  /\ job.pc = "connecting" /\ ~BeingClosed(job.obj)
  /\ livekit' = [livekit EXCEPT ![job.obj].state = "up"]
  /\ NextMedia([job EXCEPT !.step = 0])
  /\ UNCHANGED <<frameQueue, received, lastFrame, room, currentRoom, closing, disconnecting,
                 leaveTimer, dnd, afkMuted, wanted, track>>

\* ... or it could not: the failed room is cleaned up.
ConnectFails ==
  /\ job.pc = "connecting" /\ ~BeingClosed(job.obj)
  /\ livekit' = Gone(job.obj)
  /\ room' = None /\ currentRoom' = None /\ track' = Unpublished
  /\ job' = Failed(job)
  /\ UNCHANGED <<frameQueue, received, lastFrame, closing, macrotasks, disconnecting,
                 leaveTimer, dnd, afkMuted, wanted>>

\* The second between two attempts is over.
Retry ==
  /\ job.pc = "backoff"
  /\ job' = [job EXCEPT !.pc = "module", !.attempt = @ + 1]
  /\ UNCHANGED <<frameQueue, received, lastFrame, room, currentRoom, livekit, closing,
                 macrotasks, disconnecting, leaveTimer, dnd, afkMuted, wanted, track>>

-----------------------------------------------------------------------------
(* Media.  LiveKit's setMicrophoneEnabled(on) and setCameraEnabled(on). *)

Enabled(t, on) ==
  CASE on /\ t.state = "none" -> [NoTrack EXCEPT !.state = "publishing"]
    [] t.state = "published" -> [t EXCEPT !.muted = ~on]
    [] OTHER -> t

\* connect() publishes the next kind of media by the user's preference.
Publish ==
  /\ job.pc = "publish" /\ macrotasks # <<>> /\ Head(macrotasks) = "job"
  /\ LET k == Media[job.step] IN
       track' = IF room = None THEN track ELSE [track EXCEPT ![k] = Enabled(@, wanted[k])]
  /\ job' = [job EXCEPT !.pc = "publishing"]
  /\ macrotasks' = Tail(macrotasks)
  /\ UNCHANGED <<frameQueue, received, lastFrame, room, currentRoom, livekit, closing,
                 disconnecting, leaveTimer, dnd, afkMuted, wanted>>

\* A publication is done, or was refused (no permission, no device).
PublishSettles(k) ==
  /\ track[k].state = "publishing"
  /\ \/ Up(room) /\ track' = [track EXCEPT ![k].state = "published"]
     \/ track' = [track EXCEPT ![k] = NoTrack]
  /\ UNCHANGED <<frameQueue, received, lastFrame, job, room, currentRoom, livekit, closing,
                 macrotasks, disconnecting, leaveTimer, dnd, afkMuted, wanted>>

\* connect() goes on after it, whatever came of it.
PublishReturns ==
  /\ job.pc = "publishing" /\ track[Media[job.step]].state # "publishing"
  /\ NextMedia(job)
  /\ UNCHANGED <<frameQueue, received, lastFrame, room, currentRoom, livekit, closing,
                 disconnecting, leaveTimer, dnd, afkMuted, wanted, track>>

\* Mutant: muting does not look at the published track.
SwitchedLazily(t, on) ==
  CASE on /\ t.state = "none" -> [NoTrack EXCEPT !.state = "publishing"]
    [] t.state = "published" /\ on -> [t EXCEPT !.paused = FALSE]
    [] OTHER -> t

\* setMicMuted and setCameraEnabled in a room pause and resume what is
\* published, and publish what was not.
Switched(t, on) ==
  CASE on /\ t.state = "none" -> [NoTrack EXCEPT !.state = "publishing"]
    [] t.state = "published" -> [t EXCEPT !.paused = ~on]
    [] OTHER -> t

\* The user mutes or unmutes.  Without a room the switch waits for the
\* browser's permission first, and may then find one.
SetMedia(k) ==
  /\ wanted' = [wanted EXCEPT ![k] = ~@]
  /\ track' = IF room = None THEN track ELSE [track EXCEPT ![k] = Switched(@, ~wanted[k])]
  /\ UNCHANGED <<frameQueue, received, lastFrame, job, room, currentRoom, livekit, closing,
                 macrotasks, disconnecting, leaveTimer, dnd, afkMuted>>

\* setAfkMuted and applyAutoMute.
SetAfk ==
  /\ afkMuted' = ~afkMuted
  /\ track' = IF room = None THEN track
              ELSE [k \in Kinds |-> Enabled(track[k], ~afkMuted' /\ wanted[k])]
  /\ UNCHANGED <<frameQueue, received, lastFrame, job, room, currentRoom, livekit, closing,
                 macrotasks, disconnecting, leaveTimer, dnd, wanted>>

-----------------------------------------------------------------------------
(* What closes rooms. *)

\* The leave timer: disconnect unless the room has changed.
LeaveTimerFires ==
  /\ leaveTimer # None /\ closing["timer"] = None
  /\ IF currentRoom = leaveTimer THEN DisconnectBegins("timer")
     ELSE leaveTimer' = None /\ UNCHANGED <<closing, macrotasks, disconnecting>>
  /\ UNCHANGED <<frameQueue, received, lastFrame, job, room, currentRoom, livekit, dnd,
                 afkMuted, wanted, track>>

\* setStatus: entering do-not-disturb disconnects at once.
SetStatus ==
  /\ dnd' = ~dnd
  /\ IF dnd' THEN closing["status"] = None /\ DisconnectBegins("status")
     ELSE UNCHANGED <<leaveTimer, closing, macrotasks, disconnecting>>
  /\ UNCHANGED <<frameQueue, received, lastFrame, job, room, currentRoom, livekit, afkMuted,
                 wanted, track>>

\* close(): the game connection dropped.
Close ==
  /\ room # None /\ closing["close"] = None
  /\ DisconnectBegins("close")
  /\ UNCHANGED <<frameQueue, received, lastFrame, job, room, currentRoom, livekit, dnd,
                 afkMuted, wanted, track>>

\* LiveKit has closed o: every disconnect() that waits for it ends, the join
\* that waited goes on, and a connect() in progress is aborted.
RoomClosed(o) ==
  /\ BeingClosed(o)
  /\ livekit' = Gone(o)
  /\ closing' = [w \in Callers |-> IF closing[w] = o THEN None ELSE closing[w]]
  /\ DisconnectEnds
  /\ job' = CASE job.pc = "leaving" /\ closing["join"] = o -> [job EXCEPT !.pc = "module"]
              [] job.pc = "connecting" /\ job.obj = o -> Failed(job)
              [] OTHER -> job
  /\ UNCHANGED <<frameQueue, received, lastFrame, macrotasks, leaveTimer, dnd, afkMuted, wanted>>

\* RoomEvent.Disconnected: the server or the network closed the room.
RoomDrops(o) ==
  /\ Up(o) /\ ~BeingClosed(o)
  /\ livekit' = Gone(o)
  /\ IF disconnecting \/ room = None
     THEN UNCHANGED <<room, currentRoom, track>>
     ELSE room' = None /\ currentRoom' = None /\ track' = Unpublished
  /\ UNCHANGED <<frameQueue, received, lastFrame, job, closing, macrotasks, disconnecting,
                 leaveTimer, dnd, afkMuted, wanted>>

-----------------------------------------------------------------------------

Next ==
  \/ ReceiveFrame \/ ProcessLeave \/ ProcessJoin
  \/ NewRoom \/ StartConnect \/ ConnectSucceeds \/ ConnectFails \/ Retry
  \/ Publish \/ PublishReturns \/ DisconnectGoesOn
  \/ LeaveTimerFires \/ SetStatus \/ Close \/ SetAfk
  \/ \E k \in Kinds : SetMedia(k) \/ PublishSettles(k)
  \/ \E o \in RoomObjects : RoomClosed(o) \/ RoomDrops(o)

Spec == Init /\ [][Next]_vars

\* The browser's event loop runs what is due, and LiveKit answers.
FairSpec ==
  /\ Spec
  /\ WF_vars(ProcessLeave) /\ WF_vars(ProcessJoin)
  /\ WF_vars(NewRoom) /\ WF_vars(StartConnect) /\ WF_vars(ConnectSucceeds \/ ConnectFails)
  /\ WF_vars(Retry) /\ WF_vars(Publish) /\ SF_vars(PublishReturns)
  /\ WF_vars(DisconnectGoesOn) /\ WF_vars(LeaveTimerFires)
  /\ \A k \in Kinds : WF_vars(PublishSettles(k))
  /\ \A o \in RoomObjects : WF_vars(RoomClosed(o))

-----------------------------------------------------------------------------
(* Properties *)

\* Types of the variables.
TypeOK ==
  /\ frameQueue \in Seq(Frames) /\ received \in 0..MaxFrames
  /\ lastFrame \in Frames \cup {NoFrame}
  /\ job \in [pc : JobStates, room : Rooms \cup {None}, attempt : 0..MaxAttempts,
              obj : RoomObjects \cup {None}, step : 0..Len(Media)]
  /\ room \in RoomObjects \cup {None} /\ currentRoom \in Rooms \cup {None}
  /\ (room = None) <=> (currentRoom = None)
  /\ livekit \in [RoomObjects -> [state : {"free", "new", "connecting", "up"},
                                  room : Rooms \cup {None}]]
  /\ closing \in [Callers -> RoomObjects \cup {None, "yield"}]
  /\ macrotasks \in Seq(Callers \cup {"job"})
  /\ leaveTimer \in Rooms \cup {None}
  /\ disconnecting \in BOOLEAN /\ dnd \in BOOLEAN /\ afkMuted \in BOOLEAN
  /\ wanted \in [Kinds -> BOOLEAN] /\ track \in [Kinds -> Tracks]

\* The browser never has a LiveKit connection other than that of this.room:
\* two connections of one identity make the server kick one of them, and one
\* the client has lost sight of would play sound that nothing can stop.
OneLiveRoom == \A o \in RoomObjects : Up(o) => o = room /\ livekit[o].room = currentRoom

\* A leave that is the last word of the server is honoured: the client does
\* not stay in that room, whatever else closes or opens it.
LeaveIsHonoured ==
  \A r \in Rooms : <>[](lastFrame = [action |-> "leave", room |-> r])
                     => <>[](\A o \in RoomObjects : ~(Up(o) /\ livekit[o].room = r))

\* Media the user has switched off stays silent: it can only become audible by
\* a publication that was already under way.
MuteHolds ==
  [][\A k \in Kinds : Audible(k)' /\ ~wanted'[k] =>
       \/ Audible(k) /\ ~wanted[k]
       \/ track[k].state = "publishing"]_vars
=============================================================================
