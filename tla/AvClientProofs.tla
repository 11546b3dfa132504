--------------------------- MODULE AvClientProofs ---------------------------
(***************************************************************************)
(* Theorems about AvClient, for all rooms, Room objects and kinds of media *)
(* and for any number of token frames.                                     *)
(*                                                                         *)
(* Everybody may close this.room while connect() is between two awaits, so *)
(* the argument is about which Room objects are in use at all: RoomsInv    *)
(* says that this.room is the only one, and where the join stands with it. *)
(***************************************************************************)
EXTENDS AvClient, TLAPS

Jobs == [pc : JobStates, room : Rooms \cup {None}, attempt : 0..MaxAttempts,
         obj : RoomObjects \cup {None}, step : 0..Len(Media)]

\* What processTokenFrame remembers about its frame, whatever it is doing.
JobOK(j) ==
  /\ j \in Jobs
  /\ j.pc # "idle" => j.room \in Rooms
  /\ j.pc = "backoff" => j.attempt < MaxAttempts
  /\ j.pc \in {"publish", "publishing"} => j.step >= 1

TypesInv == TypeOK /\ JobOK(job)

\* A join has no room before it makes one and none after a failure; once it
\* has made one, this.room is that one or gone.
JoinInv ==
  /\ job.pc \in {"module", "backoff"} => room = None
  /\ job.pc = "yield" => /\ job.obj \in RoomObjects
                         /\ room # None => room = job.obj /\ livekit[room].state = "new"
  /\ job.pc = "connecting" =>
       job.obj \in RoomObjects /\ room = job.obj /\ livekit[room].state = "connecting"

\* Only this.room is in use, and only this.room is being closed.
InUse == \A o \in RoomObjects : livekit[o].state # "free" => o = room /\ livekit[o].room = currentRoom
InClosing == \A w \in Callers : closing[w] \in RoomObjects =>
                closing[w] = room /\ livekit[room].state # "new"

\* Nothing is published before the room is up.
TracksInv ==
  /\ room = None => track = Unpublished
  /\ room # None /\ livekit[room].state \in {"new", "connecting"} =>
       \A k \in Kinds : track[k].state # "published"

RoomsInv == JoinInv /\ InUse /\ InClosing /\ TracksInv

-----------------------------------------------------------------------------
(* Helpers and types.                                                      *)

LEMMA Numbers == Len(Media) \in Nat /\ MaxAttempts \in Nat \ {0} /\ MaxFrames \in Nat
BY AvClientAssumption

LEMMA IdleIsOK == JobOK(Idle)
BY Numbers DEF JobOK, Jobs, JobStates, Idle

LEMMA FailedIsOK == \A j : JobOK(j) /\ j.pc # "idle" => JobOK(Failed(j))
<1> SUFFICES ASSUME NEW j, JobOK(j), j.pc # "idle" PROVE JobOK(Failed(j))
  OBVIOUS
<1>1. CASE j.attempt < MaxAttempts
  BY <1>1 DEF Failed, JobOK, Jobs, JobStates
<1>2. CASE ~(j.attempt < MaxAttempts)
  BY <1>2, IdleIsOK DEF Failed
<1> QED BY <1>1, <1>2

\* The first attempt to join r.
LEMMA AttemptIsOK ==
  ASSUME NEW r \in Rooms, NEW pc \in {"module", "leaving"}
  PROVE  JobOK([[Idle EXCEPT !.room = r, !.attempt = 1] EXCEPT !.pc = pc])
<1>1. Idle \in Jobs /\ 1 \in 0..MaxAttempts
  BY IdleIsOK, Numbers DEF JobOK
<1>2. \A i \in Jobs : [i EXCEPT !.room = r, !.attempt = 1] \in Jobs
                      /\ [i EXCEPT !.room = r, !.attempt = 1].room = r
  BY <1>1 DEF Jobs
<1>3. \A i \in Jobs : i.room = r => JobOK([i EXCEPT !.pc = pc])
  BY DEF JobOK, Jobs, JobStates
<1> QED BY <1>1, <1>2, <1>3

\* Another point of the same attempt.
LEMMA GoesOn ==
  ASSUME NEW j, JobOK(j), j.pc # "idle",
         NEW pc \in {"module", "yield", "connecting"}, NEW obj \in RoomObjects \cup {None}
  PROVE  JobOK([j EXCEPT !.pc = pc]) /\ JobOK([j EXCEPT !.pc = pc, !.obj = obj])
BY DEF JobOK, Jobs, JobStates

\* A callback joins the queue, and leaves it.
LEMMA QueueType ==
  ASSUME NEW S, NEW q \in Seq(S)
  PROVE  /\ \A x \in S : Append(q, x) \in Seq(S)
         /\ q # <<>> => Head(q) \in S /\ Tail(q) \in Seq(S)
OBVIOUS

LEMMA NextMediaType ==
  ASSUME TypeOK, NEW j, JobOK(j), j.pc # "idle", NextMedia(j)
  PROVE  JobOK(job') /\ macrotasks' \in Seq(Callers \cup {"job"})
<1>1. CASE j.step < Len(Media)
  <2>1. j.step + 1 \in 0..Len(Media) /\ j.step + 1 >= 1
    BY <1>1, Numbers DEF JobOK, Jobs
  <2>2. job' = [j EXCEPT !.pc = "publish", !.step = j.step + 1]
    BY <1>1 DEF NextMedia
  <2>3. JobOK(job')
    BY <2>1, <2>2 DEF JobOK, Jobs, JobStates
  <2>4. macrotasks' \in Seq(Callers \cup {"job"})
    <3>1. macrotasks' = Append(macrotasks, "job") /\ macrotasks \in Seq(Callers \cup {"job"})
      BY <1>1 DEF NextMedia, TypeOK
    <3>2. "job" \in Callers \cup {"job"}
      OBVIOUS
    <3> QED BY <3>1, <3>2, QueueType
  <2> QED BY <2>3, <2>4
<1>2. CASE ~(j.step < Len(Media))
  BY <1>2, IdleIsOK, FailedIsOK DEF NextMedia, TypeOK
<1> QED BY <1>1, <1>2

LEMMA DisconnectBeginsType ==
  ASSUME TypeOK, NEW w \in Callers, DisconnectBegins(w)
  PROVE  /\ leaveTimer' = None
         /\ closing' \in [Callers -> RoomObjects \cup {None, "yield"}]
         /\ macrotasks' \in Seq(Callers \cup {"job"}) /\ disconnecting' \in BOOLEAN
<1>1. CASE room = None
  BY <1>1 DEF DisconnectBegins, TypeOK
<1>2. CASE room # None
  <2>1. macrotasks' = Append(macrotasks, w) /\ macrotasks \in Seq(Callers \cup {"job"})
    BY <1>2 DEF DisconnectBegins, TypeOK
  <2>2. w \in Callers \cup {"job"}
    OBVIOUS
  <2>3. macrotasks' \in Seq(Callers \cup {"job"})
    BY <2>1, <2>2, QueueType
  <2> QED BY <1>2, <2>3 DEF DisconnectBegins, TypeOK
<1> QED BY <1>1, <1>2

LEMMA NoTrackType == NoTrack \in Tracks /\ Unpublished \in [Kinds -> Tracks]
BY DEF NoTrack, Tracks, Unpublished

LEMMA TrackTypes ==
  \A t \in Tracks, on \in BOOLEAN : Enabled(t, on) \in Tracks /\ Switched(t, on) \in Tracks
BY DEF Enabled, Switched, Tracks, NoTrack

LEMMA GoneType ==
  ASSUME TypeOK, NEW o
  PROVE  /\ Gone(o) \in [RoomObjects -> [state : {"free", "new", "connecting", "up"},
                                         room : Rooms \cup {None}]]
         /\ \A p \in RoomObjects : Gone(o)[p] = IF p = o THEN [state |-> "free", room |-> None]
                                                ELSE livekit[p]
BY DEF Gone, TypeOK

LEMMA StateType ==
  ASSUME TypeOK, NEW o, NEW s \in {"free", "new", "connecting", "up"},
         livekit' = [livekit EXCEPT ![o].state = s]
  PROVE  /\ livekit' \in [RoomObjects -> [state : {"free", "new", "connecting", "up"},
                                          room : Rooms \cup {None}]]
         /\ \A p \in RoomObjects : /\ livekit'[p].room = livekit[p].room
                                   /\ livekit'[p].state = IF p = o THEN s ELSE livekit[p].state
<1>1. \A p \in RoomObjects : livekit'[p] = IF p = o THEN [livekit[p] EXCEPT !.state = s] ELSE livekit[p]
  BY DEF TypeOK
<1>2. livekit' \in [RoomObjects -> [state : {"free", "new", "connecting", "up"}, room : Rooms \cup {None}]]
  BY DEF TypeOK
<1> QED BY <1>1, <1>2 DEF TypeOK

\* Every variable keeps its type.
LEMMA TypesKept == TypesInv /\ [Next]_vars => TypesInv'
<1> SUFFICES ASSUME TypesInv, [Next]_vars PROVE TypesInv'
  OBVIOUS
<1>1. TypeOK /\ JobOK(job) /\ macrotasks \in Seq(Callers \cup {"job"}) /\ frameQueue \in Seq(Frames)
  BY DEF TypesInv, TypeOK
<1>2. CASE ReceiveFrame
  <2>1. \A f \in Frames : Append(frameQueue, f) \in Seq(Frames)
    BY <1>1, QueueType
  <2>2. received' \in 0..MaxFrames
    BY <1>1, <1>2, Numbers DEF ReceiveFrame, TypeOK
  <2> QED BY <1>1, <1>2, <2>1, <2>2 DEF ReceiveFrame, TypesInv, TypeOK
<1>3. CASE ProcessLeave
  <2>1. Tail(frameQueue) \in Seq(Frames)
    BY <1>1, <1>3, QueueType DEF ProcessLeave
  <2> QED BY <1>1, <1>3, <2>1 DEF ProcessLeave, TypesInv, TypeOK
<1>4. CASE ProcessJoin
  <2> DEFINE r == Head(frameQueue).room
             j == [Idle EXCEPT !.room = r, !.attempt = 1]
  <2>1. Tail(frameQueue) \in Seq(Frames) /\ Head(frameQueue) \in Frames
    BY <1>1, <1>4, QueueType DEF ProcessJoin
  <2>2. r \in Rooms
    BY <2>1 DEF Frames
  <2> HIDE DEF r
  <2>3. \A pc \in {"module", "leaving"} : JobOK([j EXCEPT !.pc = pc])
    BY <2>2, AttemptIsOK
  <2>4. JobOK(job')
    BY <1>1, <1>4, <2>3 DEF ProcessJoin, r
  <2>5. /\ leaveTimer' \in Rooms \cup {None}
        /\ closing' \in [Callers -> RoomObjects \cup {None, "yield"}]
        /\ macrotasks' \in Seq(Callers \cup {"job"}) /\ disconnecting' \in BOOLEAN
    <3>1. DisconnectBegins("join") \/ UNCHANGED <<closing, macrotasks, disconnecting>>
      BY <1>4 DEF ProcessJoin
    <3>2. CASE DisconnectBegins("join")
      BY <1>1, <3>2, DisconnectBeginsType DEF Callers
    <3>3. CASE UNCHANGED <<closing, macrotasks, disconnecting>>
      BY <1>1, <1>4, <3>3 DEF ProcessJoin, TypeOK, DisconnectBegins
    <3> QED BY <3>1, <3>2, <3>3
  <2> QED BY <1>1, <1>4, <2>1, <2>4, <2>5 DEF ProcessJoin, TypesInv, TypeOK, JobOK, Jobs
<1>5. CASE NewRoom
  <2>1. PICK o \in RoomObjects :
          /\ room' = o /\ currentRoom' = job.room
          /\ livekit' = [livekit EXCEPT ![o] = [state |-> "new", room |-> job.room]]
          /\ job' = [job EXCEPT !.pc = "yield", !.obj = o]
    BY <1>5 DEF NewRoom
  <2>2. job.room \in Rooms /\ job.pc # "idle"
    BY <1>1, <1>5 DEF NewRoom, JobOK
  <2>3. JobOK(job')
    BY <1>1, <2>1, <2>2, GoesOn
  <2>4. macrotasks' \in Seq(Callers \cup {"job"})
    <3>1. "job" \in Callers \cup {"job"}
      OBVIOUS
    <3> QED BY <1>1, <1>5, <3>1, QueueType DEF NewRoom
  <2>5. livekit' \in [RoomObjects -> [state : {"free", "new", "connecting", "up"},
                                      room : Rooms \cup {None}]]
    BY <1>1, <2>1, <2>2 DEF TypeOK
  <2>6. room' \in RoomObjects /\ currentRoom' \in Rooms /\ room' # None /\ currentRoom' # None
    BY <2>1, <2>2, AvClientAssumption
  <2> QED
    BY <1>1, <1>5, <2>3, <2>4, <2>5, <2>6, NoTrackType DEF NewRoom, TypesInv, TypeOK, JobOK, Jobs
<1>6. CASE StartConnect
  <2>1. macrotasks' \in Seq(Callers \cup {"job"})
    BY <1>1, <1>6, QueueType DEF StartConnect
  <2>2. JobOK(job')
    BY <1>1, <1>6, FailedIsOK, GoesOn DEF StartConnect
  <2>3. livekit' \in [RoomObjects -> [state : {"free", "new", "connecting", "up"},
                                      room : Rooms \cup {None}]]
    <3>1. CASE room = None
      BY <1>1, <1>6, <3>1 DEF StartConnect, TypeOK
    <3>2. CASE room # None
      BY <1>1, <1>6, <3>2, StateType DEF StartConnect
    <3> QED BY <3>1, <3>2
  <2> QED BY <1>1, <1>6, <2>1, <2>2, <2>3 DEF StartConnect, TypesInv, TypeOK, JobOK, Jobs
<1>7. CASE ConnectSucceeds
  <2>1. JobOK([job EXCEPT !.step = 0]) /\ [job EXCEPT !.step = 0].pc # "idle"
    BY <1>1, <1>7, Numbers DEF ConnectSucceeds, JobOK, Jobs, JobStates
  <2>2. JobOK(job') /\ macrotasks' \in Seq(Callers \cup {"job"})
    BY <1>1, <1>7, <2>1, NextMediaType DEF ConnectSucceeds
  <2>3. livekit' \in [RoomObjects -> [state : {"free", "new", "connecting", "up"},
                                      room : Rooms \cup {None}]]
    BY <1>1, <1>7, StateType DEF ConnectSucceeds
  <2> QED BY <1>1, <1>7, <2>2, <2>3 DEF ConnectSucceeds, TypesInv, TypeOK, JobOK, Jobs
<1>8. CASE ConnectFails
  <2>1. JobOK(job')
    BY <1>1, <1>8, FailedIsOK DEF ConnectFails
  <2> QED
    BY <1>1, <1>8, <2>1, GoneType, NoTrackType DEF ConnectFails, TypesInv, TypeOK, JobOK, Jobs
<1>9. CASE Retry
  <2>1. JobOK(job')
    <3>1. job.attempt + 1 \in 0..MaxAttempts /\ job' = [job EXCEPT !.pc = "module", !.attempt = job.attempt + 1]
      BY <1>1, <1>9, Numbers DEF Retry, JobOK, Jobs
    <3> QED BY <1>1, <1>9, <3>1 DEF Retry, JobOK, Jobs, JobStates
  <2> QED BY <1>1, <1>9, <2>1 DEF Retry, TypesInv, TypeOK, JobOK, Jobs
<1>10. CASE Publish
  <2>1. macrotasks' \in Seq(Callers \cup {"job"})
    BY <1>1, <1>10, QueueType DEF Publish
  <2>2. JobOK(job')
    BY <1>1, <1>10 DEF Publish, JobOK, Jobs, JobStates
  <2>3. track' \in [Kinds -> Tracks]
    <3>1. job.step \in 1..Len(Media)
      BY <1>1, <1>10, Numbers DEF Publish, JobOK, Jobs
    <3>2. Media[job.step] \in Kinds
      BY <3>1 DEF Kinds
    <3>3. Enabled(track[Media[job.step]], wanted[Media[job.step]]) \in Tracks
      BY <1>1, <3>2, TrackTypes DEF TypeOK
    <3> QED BY <1>1, <1>10, <3>3 DEF Publish, TypeOK
  <2> QED BY <1>1, <1>10, <2>1, <2>2, <2>3 DEF Publish, TypesInv, TypeOK, JobOK, Jobs
<1>11. CASE PublishReturns
  <2>1. JobOK(job') /\ macrotasks' \in Seq(Callers \cup {"job"})
    BY <1>1, <1>11, NextMediaType DEF PublishReturns
  <2> QED BY <1>1, <1>11, <2>1 DEF PublishReturns, TypesInv, TypeOK, JobOK, Jobs
<1>12. CASE DisconnectGoesOn
  <2>1. macrotasks' \in Seq(Callers \cup {"job"})
    BY <1>1, <1>12, QueueType DEF DisconnectGoesOn
  <2>2. JobOK(job')
    BY <1>1, <1>12, IdleIsOK DEF DisconnectGoesOn
  <2>3. closing' \in [Callers -> RoomObjects \cup {None, "yield"}]
    BY <1>1, <1>12 DEF DisconnectGoesOn, TypeOK
  <2>4. livekit' \in [RoomObjects -> [state : {"free", "new", "connecting", "up"},
                                      room : Rooms \cup {None}]]
    BY <1>1, <1>12, GoneType DEF DisconnectGoesOn, TypeOK
  <2> QED
    BY <1>1, <1>12, <2>1, <2>2, <2>3, <2>4, NoTrackType
    DEF DisconnectGoesOn, DisconnectEnds, TypesInv, TypeOK, JobOK, Jobs
<1>13. CASE LeaveTimerFires
  <2>1. /\ leaveTimer' = None
        /\ closing' \in [Callers -> RoomObjects \cup {None, "yield"}]
        /\ macrotasks' \in Seq(Callers \cup {"job"}) /\ disconnecting' \in BOOLEAN
    <3>1. CASE currentRoom = leaveTimer
      BY <1>1, <1>13, <3>1, DisconnectBeginsType DEF LeaveTimerFires, Callers
    <3>2. CASE currentRoom # leaveTimer
      BY <1>1, <1>13, <3>2 DEF LeaveTimerFires, TypeOK
    <3> QED BY <3>1, <3>2
  <2> QED BY <1>1, <1>13, <2>1 DEF LeaveTimerFires, TypesInv, TypeOK
<1>14. CASE SetStatus
  <2>1. /\ leaveTimer' \in Rooms \cup {None}
        /\ closing' \in [Callers -> RoomObjects \cup {None, "yield"}]
        /\ macrotasks' \in Seq(Callers \cup {"job"}) /\ disconnecting' \in BOOLEAN
    <3>1. CASE dnd'
      BY <1>1, <1>14, <3>1, DisconnectBeginsType DEF SetStatus, Callers
    <3>2. CASE ~dnd'
      BY <1>1, <1>14, <3>2 DEF SetStatus, TypeOK
    <3> QED BY <3>1, <3>2
  <2> QED BY <1>1, <1>14, <2>1 DEF SetStatus, TypesInv, TypeOK
<1>15. CASE Close
  <2>1. /\ leaveTimer' = None
        /\ closing' \in [Callers -> RoomObjects \cup {None, "yield"}]
        /\ macrotasks' \in Seq(Callers \cup {"job"}) /\ disconnecting' \in BOOLEAN
    BY <1>1, <1>15, DisconnectBeginsType DEF Close, Callers
  <2> QED BY <1>1, <1>15, <2>1 DEF Close, TypesInv, TypeOK
<1>16. CASE SetAfk
  <2>1. \A k \in Kinds : Enabled(track[k], ~afkMuted' /\ wanted[k]) \in Tracks
    <3> SUFFICES ASSUME NEW k \in Kinds PROVE Enabled(track[k], ~afkMuted' /\ wanted[k]) \in Tracks
      OBVIOUS
    <3>1. (~afkMuted' /\ wanted[k]) \in BOOLEAN /\ track[k] \in Tracks
      BY <1>1 DEF TypeOK
    <3> QED BY <3>1, TrackTypes
  <2>2. track' \in [Kinds -> Tracks]
    BY <1>1, <1>16, <2>1 DEF SetAfk, TypeOK
  <2> QED BY <1>1, <1>16, <2>2 DEF SetAfk, TypesInv, TypeOK
<1>17. ASSUME NEW k \in Kinds, SetMedia(k) PROVE TypesInv'
  <2>1. (~wanted[k]) \in BOOLEAN /\ track[k] \in Tracks
    BY <1>1 DEF TypeOK
  <2>2. Switched(track[k], ~wanted[k]) \in Tracks
    BY <2>1, TrackTypes
  <2>3. track' \in [Kinds -> Tracks]
    BY <1>1, <1>17, <2>2 DEF SetMedia, TypeOK
  <2>4. wanted' \in [Kinds -> BOOLEAN]
    BY <1>1, <1>17 DEF SetMedia, TypeOK
  <2> QED BY <1>1, <1>17, <2>3, <2>4 DEF SetMedia, TypesInv, TypeOK
<1>18. ASSUME NEW k \in Kinds, PublishSettles(k) PROVE TypesInv'
  <2>1. track' \in [Kinds -> Tracks]
    <3>1. [track[k] EXCEPT !.state = "published"] \in Tracks
      BY <1>1 DEF TypeOK, Tracks
    <3>2. CASE track' = [track EXCEPT ![k].state = "published"]
      BY <1>1, <3>1, <3>2 DEF TypeOK
    <3>3. CASE track' = [track EXCEPT ![k] = NoTrack]
      BY <1>1, <3>3, NoTrackType DEF TypeOK
    <3> QED BY <1>18, <3>2, <3>3 DEF PublishSettles
  <2> QED BY <1>1, <1>18, <2>1 DEF PublishSettles, TypesInv, TypeOK
<1>19. ASSUME NEW o \in RoomObjects, RoomClosed(o) PROVE TypesInv'
  <2>1. JobOK(job')
    BY <1>1, <1>19, FailedIsOK, GoesOn DEF RoomClosed
  <2>2. closing' \in [Callers -> RoomObjects \cup {None, "yield"}]
    BY <1>1, <1>19 DEF RoomClosed, TypeOK
  <2> QED
    BY <1>1, <1>19, <2>1, <2>2, GoneType, NoTrackType
    DEF RoomClosed, DisconnectEnds, TypesInv, TypeOK, JobOK, Jobs
<1>20. ASSUME NEW o \in RoomObjects, RoomDrops(o) PROVE TypesInv'
  BY <1>1, <1>20, GoneType, NoTrackType DEF RoomDrops, TypesInv, TypeOK
<1>21. CASE UNCHANGED vars
  BY <1>1, <1>21 DEF vars, TypesInv, TypeOK
<1> QED
  BY <1>2, <1>3, <1>4, <1>5, <1>6, <1>7, <1>8, <1>9, <1>10, <1>11, <1>12, <1>13, <1>14,
     <1>15, <1>16, <1>17, <1>18, <1>19, <1>20, <1>21 DEF Next

LEMMA TypesHold == Spec => []TypesInv
<1>1. Init => TypesInv
  <2> SUFFICES ASSUME Init PROVE TypesInv
    OBVIOUS
  <2>1. JobOK(job)
    BY IdleIsOK DEF Init
  <2>2. frameQueue \in Seq(Frames) /\ macrotasks \in Seq(Callers \cup {"job"})
    BY DEF Init
  <2>3. /\ livekit \in [RoomObjects -> [state : {"free", "new", "connecting", "up"},
                                       room : Rooms \cup {None}]]
        /\ closing \in [Callers -> RoomObjects \cup {None, "yield"}]
    BY DEF Init
  <2>4. /\ received \in 0..MaxFrames /\ lastFrame \in Frames \cup {NoFrame}
        /\ wanted \in [Kinds -> BOOLEAN] /\ track \in [Kinds -> Tracks]
    BY NoTrackType, Numbers DEF Init
  <2> QED BY <2>1, <2>2, <2>3, <2>4 DEF Init, TypesInv, TypeOK, JobOK, Jobs
<1> QED BY <1>1, TypesKept, PTL DEF Spec

-----------------------------------------------------------------------------
(* Where the join stands, what is in use and what is closed.               *)

\* Whoever calls disconnect() waits for its yield first: nothing is closed yet.
LEMMA DisconnectBeginsKeeps ==
  ASSUME TypesInv, InClosing, NEW w \in Callers, DisconnectBegins(w), UNCHANGED <<room, livekit>>
  PROVE  InClosing'
<1>1. CASE room = None
  BY <1>1 DEF DisconnectBegins, InClosing
<1>2. CASE room # None
  <2>1. \A v \in Callers : closing'[v] = IF v = w THEN "yield" ELSE closing[v]
    BY <1>2 DEF DisconnectBegins, TypesInv, TypeOK
  <2> QED BY <2>1, AvClientAssumption DEF InClosing
<1> QED BY <1>1, <1>2

\* A job that connect() is done with for now has no room to speak of.
LEMMA FailedIs ==
  \A j : JobOK(j) => Failed(j).pc \in {"backoff", "idle"}
BY DEF Failed, Idle, JobOK, Jobs

LEMMA NextMediaIs ==
  ASSUME NEW j, JobOK(j), NextMedia(j)
  PROVE  job'.pc \in {"publish", "idle"} \/ (room = None /\ job'.pc = "backoff")
<1>1. CASE j.step < Len(Media)
  BY <1>1 DEF NextMedia, JobOK, Jobs
<1>2. CASE ~(j.step < Len(Media))
  BY <1>2, FailedIs DEF NextMedia, Idle
<1> QED BY <1>1, <1>2

LEMMA JoinsKept == TypesInv /\ RoomsInv /\ [Next]_vars => JoinInv'
<1> SUFFICES ASSUME TypesInv, RoomsInv, [Next]_vars PROVE JoinInv'
  OBVIOUS
<1>1. TypeOK /\ JobOK(job) /\ JoinInv /\ InUse /\ InClosing
  BY DEF TypesInv, RoomsInv
<1>2. CASE \/ ReceiveFrame \/ ProcessLeave \/ LeaveTimerFires \/ SetStatus \/ Close \/ SetAfk
           \/ (\E k \in Kinds : SetMedia(k) \/ PublishSettles(k)) \/ UNCHANGED vars
  <2>1. UNCHANGED <<job, room, livekit>>
    BY <1>2 DEF ReceiveFrame, ProcessLeave, LeaveTimerFires, SetStatus, Close, SetAfk,
      SetMedia, PublishSettles, vars
  <2> QED BY <1>1, <2>1 DEF JoinInv
<1>3. CASE ProcessJoin
  <2> DEFINE i == [Idle EXCEPT !.room = Head(frameQueue).room, !.attempt = 1]
  <2>1. UNCHANGED <<room, currentRoom, livekit>>
    BY <1>3 DEF ProcessJoin
  <2>2. \A pc : [i EXCEPT !.pc = pc].pc = pc
    BY DEF Idle
  <2> HIDE DEF i
  <2>3. CASE UNCHANGED job
    BY <1>1, <2>1, <2>3 DEF JoinInv
  <2>4. CASE currentRoom = None /\ job' = [i EXCEPT !.pc = "module"]
    BY <1>1, <2>1, <2>2, <2>4 DEF JoinInv, TypeOK
  <2>5. CASE job' = [i EXCEPT !.pc = "leaving"]
    BY <1>1, <2>1, <2>2, <2>5 DEF JoinInv
  <2> QED BY <1>3, <2>3, <2>4, <2>5 DEF ProcessJoin, i
<1>4. CASE NewRoom
  <2>1. PICK o \in RoomObjects :
          /\ room' = o
          /\ livekit' = [livekit EXCEPT ![o] = [state |-> "new", room |-> job.room]]
          /\ job' = [job EXCEPT !.pc = "yield", !.obj = o]
    BY <1>4 DEF NewRoom
  <2>2. job'.pc = "yield" /\ job'.obj = o
    BY <1>1, <2>1 DEF JobOK, Jobs
  <2>3. livekit'[o].state = "new"
    BY <1>1, <2>1 DEF TypeOK
  <2> QED BY <2>1, <2>2, <2>3 DEF JoinInv
<1>5. CASE StartConnect
  <2>1. CASE room = None
    BY <1>1, <1>5, <2>1, FailedIs DEF StartConnect, JoinInv
  <2>2. CASE room # None
    <3>1. job.obj \in RoomObjects /\ room = job.obj /\ room' = room
      BY <1>1, <1>5, <2>2 DEF StartConnect, JoinInv
    <3>2. job'.pc = "connecting" /\ job'.obj = job.obj
      BY <1>1, <1>5, <2>2 DEF StartConnect, JobOK, Jobs
    <3>3. livekit'[job.obj].state = "connecting"
      BY <1>1, <1>5, <2>2, <3>1, StateType DEF StartConnect
    <3> QED BY <3>1, <3>2, <3>3 DEF JoinInv
  <2> QED BY <2>1, <2>2
<1>6. CASE ConnectSucceeds
  <2>1. JobOK([job EXCEPT !.step = 0])
    BY <1>1, <1>6, Numbers DEF ConnectSucceeds, JobOK, Jobs, JobStates
  <2>2. job'.pc \in {"publish", "idle"} \/ (room = None /\ job'.pc = "backoff")
    BY <1>6, <2>1, NextMediaIs DEF ConnectSucceeds
  <2> QED BY <1>6, <2>2 DEF ConnectSucceeds, JoinInv
<1>7. CASE ConnectFails
  BY <1>1, <1>7, FailedIs DEF ConnectFails, JoinInv
<1>8. CASE Retry
  <2>1. job'.pc = "module"
    BY <1>1, <1>8 DEF Retry, JobOK, Jobs
  <2> QED BY <1>1, <1>8, <2>1 DEF Retry, JoinInv
<1>9. CASE Publish
  <2>1. job'.pc = "publishing"
    BY <1>1, <1>9 DEF Publish, JobOK, Jobs
  <2> QED BY <2>1 DEF JoinInv
<1>10. CASE PublishReturns
  <2>1. job'.pc \in {"publish", "idle"} \/ (room = None /\ job'.pc = "backoff")
    BY <1>1, <1>10, NextMediaIs DEF PublishReturns
  <2> QED BY <1>10, <2>1 DEF PublishReturns, JoinInv
<1>11. CASE DisconnectGoesOn
  <2>1. job' = job \/ job'.pc = "idle"
    BY <1>11 DEF DisconnectGoesOn, Idle
  <2>2. CASE room = None \/ livekit[room].state = "new"
    <3>1. room' = None
      BY <1>11, <2>2 DEF DisconnectGoesOn, DisconnectEnds
    <3>2. job'.pc # "connecting"
      BY <1>1, <2>1, <2>2, AvClientAssumption DEF JoinInv
    <3> QED BY <1>1, <2>1, <3>1, <3>2 DEF JoinInv
  <2>3. CASE ~(room = None \/ livekit[room].state = "new")
    BY <1>1, <1>11, <2>3 DEF DisconnectGoesOn, JoinInv
  <2> QED BY <2>2, <2>3
<1>12. ASSUME NEW o \in RoomObjects, RoomClosed(o) PROVE JoinInv'
  <2>1. room' = None /\ o = room
    BY <1>1, <1>12 DEF RoomClosed, DisconnectEnds, BeingClosed, InClosing
  <2>2. CASE job.pc = "leaving" /\ closing["join"] = o
    <3>1. job'.pc = "module"
      BY <1>1, <1>12, <2>2 DEF RoomClosed, JobOK, Jobs
    <3> QED BY <2>1, <3>1 DEF JoinInv
  <2>3. CASE job.pc = "connecting"
    <3>1. job' = Failed(job)
      BY <1>1, <1>12, <2>1, <2>3 DEF RoomClosed, JoinInv
    <3> QED BY <1>1, <2>1, <3>1, FailedIs DEF JoinInv
  <2>4. CASE ~(job.pc = "leaving" /\ closing["join"] = o) /\ job.pc # "connecting"
    <3>1. job' = job
      BY <1>12, <2>4 DEF RoomClosed
    <3> QED BY <1>1, <2>1, <2>4, <3>1 DEF JoinInv
  <2> QED BY <2>2, <2>3, <2>4
<1>13. ASSUME NEW o \in RoomObjects, RoomDrops(o) PROVE JoinInv'
  <2>1. o = room /\ livekit[o].state = "up" /\ UNCHANGED job
    BY <1>1, <1>13 DEF RoomDrops, Up, InUse
  <2>2. job.pc # "connecting" /\ job.pc # "yield" /\ room # None
    BY <1>1, <2>1, AvClientAssumption DEF JoinInv
  <2> QED BY <1>1, <2>1, <2>2 DEF JoinInv
<1> QED
  BY <1>2, <1>3, <1>4, <1>5, <1>6, <1>7, <1>8, <1>9, <1>10, <1>11, <1>12, <1>13 DEF Next

\* When this.room is closed nothing else is in use.
LEMMA NothingInUse ==
  ASSUME TypesInv, InUse, NEW o, o = room \/ room = None, room' = None, livekit' = Gone(o)
  PROVE  InUse' /\ \A p \in RoomObjects : livekit'[p].state = "free"
<1>1. \A p \in RoomObjects : livekit'[p].state = "free"
  BY GoneType, AvClientAssumption DEF TypesInv, InUse
<1> QED BY <1>1 DEF InUse

LEMMA UsesKept == TypesInv /\ RoomsInv /\ [Next]_vars => InUse' /\ InClosing'
<1> SUFFICES ASSUME TypesInv, RoomsInv, [Next]_vars PROVE InUse' /\ InClosing'
  OBVIOUS
<1>1. TypeOK /\ JobOK(job) /\ JoinInv /\ InUse /\ InClosing
  BY DEF TypesInv, RoomsInv
<1>2. CASE \/ ReceiveFrame \/ ProcessLeave \/ Retry \/ Publish \/ PublishReturns \/ SetAfk
           \/ (\E k \in Kinds : SetMedia(k) \/ PublishSettles(k)) \/ UNCHANGED vars
  <2>1. UNCHANGED <<room, currentRoom, livekit, closing>>
    BY <1>2 DEF ReceiveFrame, ProcessLeave, Retry, Publish, PublishReturns, SetAfk, SetMedia,
      PublishSettles, vars
  <2> QED BY <1>1, <2>1 DEF InUse, InClosing
<1>3. CASE ProcessJoin \/ LeaveTimerFires \/ SetStatus \/ Close
  <2>1. UNCHANGED <<room, currentRoom, livekit>>
    BY <1>3 DEF ProcessJoin, LeaveTimerFires, SetStatus, Close
  <2>2. UNCHANGED closing \/ \E w \in Callers : DisconnectBegins(w)
    BY <1>3 DEF ProcessJoin, LeaveTimerFires, SetStatus, Close, Callers
  <2>3. InClosing'
    BY <1>1, <2>1, <2>2, DisconnectBeginsKeeps DEF InClosing
  <2> QED BY <1>1, <2>1, <2>3 DEF InUse
<1>4. CASE NewRoom
  <2>1. PICK o \in RoomObjects :
          /\ room' = o /\ currentRoom' = job.room
          /\ livekit' = [livekit EXCEPT ![o] = [state |-> "new", room |-> job.room]]
    BY <1>4 DEF NewRoom
  <2>2. room = None /\ UNCHANGED closing
    BY <1>1, <1>4 DEF NewRoom, JoinInv
  <2>3. \A p \in RoomObjects : livekit[p].state = "free"
    BY <1>1, <2>2, AvClientAssumption DEF InUse
  <2>4. \A p \in RoomObjects : livekit'[p] = IF p = o THEN [state |-> "new", room |-> job.room]
                                             ELSE livekit[p]
    BY <1>1, <2>1 DEF TypeOK
  <2>5. InUse'
    BY <2>1, <2>3, <2>4 DEF InUse
  <2>6. InClosing'
    BY <1>1, <2>2, AvClientAssumption DEF InClosing
  <2> QED BY <2>5, <2>6
<1>5. CASE StartConnect
  <2>1. CASE room = None
    BY <1>1, <1>5, <2>1 DEF StartConnect, InUse, InClosing
  <2>2. CASE room # None
    <3>1. room = job.obj /\ livekit[room].state = "new" /\ UNCHANGED <<room, currentRoom, closing>>
      BY <1>1, <1>5, <2>2 DEF StartConnect, JoinInv
    <3>2. \A p \in RoomObjects : /\ livekit'[p].room = livekit[p].room
                                 /\ livekit'[p].state = IF p = room THEN "connecting" ELSE livekit[p].state
      BY <1>1, <1>5, <2>2, <3>1, StateType DEF StartConnect
    <3>3. InUse'
      BY <1>1, <3>1, <3>2 DEF InUse
    <3>4. InClosing'
      BY <1>1, <3>1, <3>2 DEF InClosing
    <3> QED BY <3>3, <3>4
  <2> QED BY <2>1, <2>2
<1>6. CASE ConnectSucceeds
  <2>1. room = job.obj /\ livekit[room].state = "connecting" /\ UNCHANGED <<room, currentRoom, closing>>
    BY <1>1, <1>6 DEF ConnectSucceeds, JoinInv
  <2>2. \A p \in RoomObjects : /\ livekit'[p].room = livekit[p].room
                               /\ livekit'[p].state = IF p = room THEN "up" ELSE livekit[p].state
    <3>1. livekit' = [livekit EXCEPT ![room].state = "up"]
      BY <1>6, <2>1 DEF ConnectSucceeds
    <3> QED BY <1>1, <3>1, StateType
  <2>3. InUse'
    BY <1>1, <2>1, <2>2 DEF InUse
  <2>4. InClosing'
    BY <1>1, <2>1, <2>2 DEF InClosing
  <2> QED BY <2>3, <2>4
<1>7. CASE ConnectFails
  <2>1. room = job.obj /\ room' = None /\ livekit' = Gone(job.obj) /\ UNCHANGED closing
        /\ ~BeingClosed(room)
    BY <1>1, <1>7 DEF ConnectFails, JoinInv
  <2>2. InUse'
    BY <1>1, <2>1, NothingInUse DEF TypesInv
  <2>3. InClosing'
    BY <1>1, <2>1 DEF InClosing, BeingClosed
  <2> QED BY <2>2, <2>3
<1>8. CASE DisconnectGoesOn
  <2> DEFINE w == Head(macrotasks)
  <2>1. w \in Callers
    BY <1>8 DEF DisconnectGoesOn
  <2>2. CASE room = None \/ livekit[room].state = "new"
    <3>1. /\ room' = None /\ closing' = [closing EXCEPT ![w] = None]
          /\ livekit' = IF room = None THEN livekit ELSE Gone(room)
      BY <1>8, <2>2 DEF DisconnectGoesOn, DisconnectEnds
    <3>2. \A v \in Callers : closing'[v] = IF v = w THEN None ELSE closing[v]
      BY <1>1, <3>1 DEF TypeOK
    <3>3. InClosing'
      BY <1>1, <2>2, <3>2, AvClientAssumption DEF InClosing
    <3>4. CASE room = None
      <4>1. \A p \in RoomObjects : livekit[p].state = "free"
        BY <1>1, <3>4, AvClientAssumption DEF InUse
      <4> QED BY <3>1, <3>3, <3>4, <4>1 DEF InUse
    <3>5. CASE room # None
      BY <1>1, <3>1, <3>3, <3>5, NothingInUse DEF TypesInv
    <3> QED BY <3>4, <3>5
  <2>3. CASE ~(room = None \/ livekit[room].state = "new")
    <3>1. closing' = [closing EXCEPT ![w] = room] /\ UNCHANGED <<room, currentRoom, livekit>>
      BY <1>8, <2>3 DEF DisconnectGoesOn
    <3>2. \A v \in Callers : closing'[v] = IF v = w THEN room ELSE closing[v]
      BY <1>1, <3>1 DEF TypeOK
    <3> QED BY <1>1, <2>3, <3>1, <3>2 DEF InUse, InClosing
  <2> QED BY <2>2, <2>3
<1>9. ASSUME NEW o \in RoomObjects, RoomClosed(o) PROVE InUse' /\ InClosing'
  <2>1. o = room /\ room' = None /\ livekit' = Gone(o)
    BY <1>1, <1>9 DEF RoomClosed, DisconnectEnds, BeingClosed, InClosing
  <2>2. InUse'
    BY <1>1, <2>1, NothingInUse DEF TypesInv
  <2>3. \A v \in Callers : closing'[v] = IF closing[v] = o THEN None ELSE closing[v]
    BY <1>9 DEF RoomClosed
  <2>4. InClosing'
    BY <1>1, <2>1, <2>3, AvClientAssumption DEF InClosing
  <2> QED BY <2>2, <2>4
<1>10. ASSUME NEW o \in RoomObjects, RoomDrops(o) PROVE InUse' /\ InClosing'
  <2>1. o = room /\ ~BeingClosed(o) /\ UNCHANGED closing /\ livekit' = Gone(o)
    BY <1>1, <1>10 DEF RoomDrops, Up, InUse
  <2>2. \A p \in RoomObjects : livekit'[p].state = "free"
    BY <1>1, <2>1, GoneType DEF InUse
  <2>3. InUse'
    BY <2>2 DEF InUse
  <2>4. InClosing'
    BY <1>1, <2>1 DEF InClosing, BeingClosed
  <2> QED BY <2>3, <2>4
<1> QED
  BY <1>2, <1>3, <1>4, <1>5, <1>6, <1>7, <1>8, <1>9, <1>10 DEF Next

-----------------------------------------------------------------------------
(* What the tracks are, and the theorems.                                  *)

\* Neither switch of a track publishes it at once.
LEMMA SwitchesAre ==
  ASSUME NEW t \in Tracks, NEW on \in BOOLEAN
  PROVE  /\ t.state # "published" => Enabled(t, on).state # "published"
                                     /\ Switched(t, on).state # "published"
         /\ ~on /\ t.state = "published" => Enabled(t, on).muted /\ Switched(t, on).paused
BY DEF Enabled, Switched, Tracks, NoTrack

LEMMA UnpublishedIs == \A k \in Kinds : Unpublished[k].state = "none"
BY DEF Unpublished, NoTrack

\* What a switch does to the tracks leaves no track published that was not.
LEMMA SwitchedTracks ==
  ASSUME TypesInv, TypesInv',
         SetAfk \/ Publish \/ \E k \in Kinds : SetMedia(k)
  PROVE  /\ \A k \in Kinds : track[k].state # "published" => track'[k].state # "published"
         /\ room = None => track' = track
         /\ UNCHANGED <<room, livekit>>
<1>1. UNCHANGED <<room, livekit>> /\ (room = None => track' = track)
  BY DEF SetAfk, Publish, SetMedia
<1>2. ASSUME NEW k \in Kinds, track[k].state # "published", room # None
      PROVE  track'[k].state # "published"
  <2>1. track[k] \in Tracks /\ wanted[k] \in BOOLEAN
    BY DEF TypesInv, TypeOK
  <2>2. CASE SetAfk
    <3>1. track'[k] = Enabled(track[k], ~afkMuted' /\ wanted[k])
      BY <1>2, <2>2 DEF SetAfk
    <3>2. (~afkMuted' /\ wanted[k]) \in BOOLEAN
      OBVIOUS
    <3> QED BY <1>2, <2>1, <3>1, <3>2, SwitchesAre
  <2>3. CASE Publish
    <3>1. track'[k] = track[k] \/ track'[k] = Enabled(track[k], wanted[k])
      BY <1>2, <2>3 DEF Publish, TypesInv, TypeOK
    <3> QED BY <1>2, <2>1, <3>1, SwitchesAre
  <2>4. ASSUME NEW l \in Kinds, SetMedia(l) PROVE track'[k].state # "published"
    <3>1. track'[k] = track[k] \/ track'[k] = Switched(track[k], ~wanted[k])
      BY <1>2, <2>4 DEF SetMedia, TypesInv, TypeOK
    <3>2. (~wanted[k]) \in BOOLEAN
      OBVIOUS
    <3> QED BY <1>2, <2>1, <3>1, <3>2, SwitchesAre
  <2> QED BY <2>2, <2>3, <2>4
<1> QED BY <1>1, <1>2

LEMMA TracksKept == TypesInv /\ RoomsInv /\ TypesInv' /\ [Next]_vars => TracksInv'
<1> SUFFICES ASSUME TypesInv, RoomsInv, TypesInv', [Next]_vars PROVE TracksInv'
  OBVIOUS
<1>1. TypeOK /\ JoinInv /\ InUse /\ InClosing /\ TracksInv
  BY DEF TypesInv, RoomsInv
<1>2. CASE \/ ReceiveFrame \/ ProcessLeave \/ ProcessJoin \/ Retry \/ PublishReturns
           \/ LeaveTimerFires \/ SetStatus \/ Close \/ UNCHANGED vars
  <2>1. UNCHANGED <<room, livekit, track>>
    BY <1>2 DEF ReceiveFrame, ProcessLeave, ProcessJoin, Retry, PublishReturns,
      LeaveTimerFires, SetStatus, Close, vars
  <2> QED BY <1>1, <2>1 DEF TracksInv
<1>3. CASE SetAfk \/ Publish \/ \E k \in Kinds : SetMedia(k)
  BY <1>1, <1>3, SwitchedTracks DEF TracksInv
<1>4. CASE NewRoom \/ ConnectFails
  BY <1>4, UnpublishedIs DEF NewRoom, ConnectFails, TracksInv
<1>5. CASE StartConnect
  <2>1. UNCHANGED <<room, track>>
    BY <1>5 DEF StartConnect
  <2>2. CASE room = None
    BY <1>1, <1>5, <2>1, <2>2 DEF StartConnect, TracksInv
  <2>3. CASE room # None
    <3>1. livekit[room].state = "new"
      BY <1>1, <1>5, <2>3 DEF StartConnect, JoinInv
    <3> QED BY <1>1, <2>1, <2>3, <3>1 DEF TracksInv
  <2> QED BY <2>2, <2>3
<1>6. CASE ConnectSucceeds
  <2>1. room = job.obj /\ room \in RoomObjects /\ UNCHANGED <<room, track>>
    BY <1>1, <1>6 DEF ConnectSucceeds, JoinInv
  <2>2. livekit'[room].state = "up"
    <3>1. livekit' = [livekit EXCEPT ![room].state = "up"]
      BY <1>6, <2>1 DEF ConnectSucceeds
    <3>2. \A p \in RoomObjects : livekit'[p].state = IF p = room THEN "up" ELSE livekit[p].state
      BY <1>1, <3>1, StateType
    <3> QED BY <2>1, <3>2
  <2> QED BY <1>1, <2>1, <2>2 DEF TracksInv
<1>7. CASE DisconnectGoesOn
  BY <1>1, <1>7, UnpublishedIs DEF DisconnectGoesOn, DisconnectEnds, TracksInv
<1>8. ASSUME NEW k \in Kinds, PublishSettles(k) PROVE TracksInv'
  <2>1. track[k].state = "publishing" /\ UNCHANGED <<room, livekit>>
    BY <1>8 DEF PublishSettles
  <2>2. room # None
    BY <1>1, <2>1, UnpublishedIs DEF TracksInv
  <2>3. CASE Up(room)
    BY <1>1, <2>1, <2>2, <2>3 DEF TracksInv, Up
  <2>4. CASE track' = [track EXCEPT ![k] = NoTrack]
    <3>1. \A l \in Kinds : track'[l] = IF l = k THEN NoTrack ELSE track[l]
      BY <1>1, <2>4 DEF TypeOK
    <3> QED BY <1>1, <2>1, <2>2, <3>1 DEF TracksInv, NoTrack
  <2> QED BY <1>8, <2>3, <2>4 DEF PublishSettles
<1>9. ASSUME NEW o \in RoomObjects, RoomClosed(o) PROVE TracksInv'
  BY <1>9 DEF RoomClosed, DisconnectEnds, TracksInv
<1>10. ASSUME NEW o \in RoomObjects, RoomDrops(o) PROVE TracksInv'
  <2>1. o = room /\ livekit' = Gone(o)
    BY <1>1, <1>10 DEF RoomDrops, Up, InUse
  <2>2. livekit'[room].state = "free"
    BY <1>1, <2>1, GoneType
  <2> QED BY <1>1, <1>10, <2>2 DEF RoomDrops, TracksInv
<1> QED
  BY <1>2, <1>3, <1>4, <1>5, <1>6, <1>7, <1>8, <1>9, <1>10 DEF Next

LEMMA RoomsHold == Spec => [](TypesInv /\ RoomsInv)
<1>1. Init => RoomsInv
  BY AvClientAssumption DEF Init, RoomsInv, JoinInv, InUse, InClosing, TracksInv, Idle, Unpublished, NoTrack
<1>2. RoomsInv /\ TypesInv /\ TypesInv' /\ [Next]_vars => RoomsInv'
  BY JoinsKept, UsesKept, TracksKept DEF RoomsInv
<1> QED BY <1>1, <1>2, TypesHold, PTL DEF Spec

\* Every variable keeps its type, and this.room and this.currentRoom are set
\* and forgotten together, whoever closes rooms while connect() waits.
THEOREM TypeCorrect == Spec => []TypeOK
<1>1. TypesInv => TypeOK
  BY DEF TypesInv
<1> QED BY <1>1, TypesHold, PTL

\* The browser never has a LiveKit connection other than that of this.room, and
\* that one is for this.currentRoom: connect(), disconnect() and the Disconnected
\* event lose sight of no connection, in any order of their steps.
THEOREM OneConnection == Spec => []OneLiveRoom
<1>1. RoomsInv => OneLiveRoom
  BY DEF RoomsInv, InUse, OneLiveRoom, Up
<1> QED BY <1>1, RoomsHold, PTL

\* Media the user has switched off stays silent through AFK, rejoins and
\* publications: setMicMuted, applyAutoMute and connect() never make a track
\* audible that is not wanted, except one whose publication was under way.
THEOREM MutesHold == Spec => MuteHolds
<1> DEFINE Silent(k) ==
      Audible(k)' /\ ~wanted'[k] => \/ Audible(k) /\ ~wanted[k]
                                    \/ track[k].state = "publishing"
<1>1. TypesInv /\ RoomsInv /\ TypesInv' /\ RoomsInv' /\ [Next]_vars => \A k \in Kinds : Silent(k)
  <2> SUFFICES ASSUME TypesInv, RoomsInv, TypesInv', RoomsInv', [Next]_vars, NEW k \in Kinds,
                      Audible(k)', ~wanted'[k], track[k].state # "publishing"
               PROVE  Audible(k) /\ ~wanted[k]
    OBVIOUS
  <2>1. /\ room' # None /\ livekit'[room'].state = "up"
        /\ track'[k].state = "published" /\ ~track'[k].paused /\ ~track'[k].muted
    BY DEF Audible
  <2>2. track[k] \in Tracks /\ wanted[k] \in BOOLEAN /\ TypeOK /\ TypeOK'
    BY DEF TypesInv, TypeOK
  <2>3. CASE \/ ReceiveFrame \/ ProcessLeave \/ ProcessJoin \/ Retry \/ PublishReturns
             \/ LeaveTimerFires \/ SetStatus \/ Close \/ UNCHANGED vars
    <3>1. UNCHANGED <<room, livekit, track, wanted>>
      BY <2>3 DEF ReceiveFrame, ProcessLeave, ProcessJoin, Retry, PublishReturns,
        LeaveTimerFires, SetStatus, Close, vars
    <3> QED BY <2>1, <3>1 DEF Audible
  <2>4. CASE NewRoom \/ ConnectFails \/ \E o \in RoomObjects : RoomClosed(o)
    <3>1. track' = Unpublished
      BY <2>4 DEF NewRoom, ConnectFails, RoomClosed, DisconnectEnds
    <3> QED BY <2>1, <3>1, UnpublishedIs
  <2>5. CASE DisconnectGoesOn
    <3>1. track' = Unpublished \/ UNCHANGED <<room, livekit, track, wanted>>
      BY <2>5 DEF DisconnectGoesOn, DisconnectEnds
    <3> QED BY <2>1, <3>1, UnpublishedIs DEF Audible
  <2>6. CASE StartConnect
    <3>1. UNCHANGED <<room, track, wanted>>
      BY <2>6 DEF StartConnect
    <3>2. room \in RoomObjects
      BY <2>1, <2>2, <3>1 DEF TypeOK
    <3>3. livekit' = [livekit EXCEPT ![room].state = "connecting"]
      BY <2>1, <2>6, <3>1 DEF StartConnect, RoomsInv, JoinInv
    <3>4. livekit'[room].state = "connecting"
      <4>1. TypeOK /\ "connecting" \in {"free", "new", "connecting", "up"}
        BY <2>2
      <4>2. \A p \in RoomObjects :
              livekit'[p].state = IF p = room THEN "connecting" ELSE livekit[p].state
        BY ONLY <3>3, <4>1, StateType
      <4> QED BY <3>2, <4>2
    <3> QED BY <2>1, <3>1, <3>4
  <2>7. CASE ConnectSucceeds
    <3>1. room # None /\ livekit[room].state = "connecting" /\ UNCHANGED track
      BY <2>7, AvClientAssumption DEF ConnectSucceeds, RoomsInv, JoinInv
    <3> QED BY <2>1, <3>1 DEF RoomsInv, TracksInv
  <2>8. CASE Publish
    <3>1. UNCHANGED <<room, livekit, wanted>> /\ room # None
      BY <2>1, <2>8 DEF Publish
    <3>2. track'[k] = track[k] \/ track'[k] = Enabled(track[k], wanted[k])
      BY <2>2, <2>8, <3>1 DEF Publish, TypeOK
    <3>3. track'[k] = track[k]
      BY <2>1, <2>2, <3>1, <3>2, SwitchesAre
    <3> QED BY <2>1, <3>1, <3>3 DEF Audible
  <2>9. CASE SetAfk
    <3>1. UNCHANGED <<room, livekit, wanted>> /\ room # None
      BY <2>1, <2>9 DEF SetAfk
    <3>2. track'[k] = Enabled(track[k], FALSE)
      BY <2>9, <3>1 DEF SetAfk
    <3> QED BY <2>1, <2>2, <3>2, SwitchesAre
  <2>10. ASSUME NEW l \in Kinds, SetMedia(l) PROVE Audible(k) /\ ~wanted[k]
    <3>1. UNCHANGED <<room, livekit>> /\ room # None
      BY <2>1, <2>10 DEF SetMedia
    <3>2. CASE l = k
      <4>1. track'[k] = Switched(track[k], FALSE)
        BY <2>2, <2>10, <3>1, <3>2 DEF SetMedia, TypeOK
      <4> QED BY <2>1, <2>2, <4>1, SwitchesAre
    <3>3. CASE l # k
      <4>1. track'[k] = track[k] /\ wanted'[k] = wanted[k]
        BY <2>2, <2>10, <3>1, <3>3 DEF SetMedia, TypeOK
      <4> QED BY <2>1, <3>1, <4>1 DEF Audible
    <3> QED BY <3>2, <3>3
  <2>11. ASSUME NEW l \in Kinds, PublishSettles(l) PROVE Audible(k) /\ ~wanted[k]
    <3>1. UNCHANGED <<room, livekit, wanted>> /\ l # k
      BY <2>11 DEF PublishSettles
    <3>2. track'[k] = track[k]
      BY <2>2, <2>11, <3>1 DEF PublishSettles, TypeOK
    <3> QED BY <2>1, <3>1, <3>2 DEF Audible
  <2>12. ASSUME NEW o \in RoomObjects, RoomDrops(o) PROVE Audible(k) /\ ~wanted[k]
    <3>1. o = room /\ livekit' = Gone(o) /\ UNCHANGED wanted
      BY <2>12 DEF RoomDrops, Up, RoomsInv, InUse
    <3>2. \/ track' = Unpublished \/ UNCHANGED <<room, track>>
      BY <2>12 DEF RoomDrops
    <3>3. livekit'[room].state = "free"
      BY <2>2, <3>1, GoneType
    <3> QED BY <2>1, <3>2, <3>3, UnpublishedIs
  <2> QED
    BY <2>3, <2>4, <2>5, <2>6, <2>7, <2>8, <2>9, <2>10, <2>11, <2>12 DEF Next
<1> QED BY <1>1, RoomsHold, PTL DEF Spec, MuteHolds
=============================================================================
