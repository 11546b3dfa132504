----------------------------- MODULE Recording -----------------------------
(***************************************************************************)
(* Recording of A/V rooms (backend/cmd/ext-rec): an admin starts and stops *)
(* a recording, the admin pages stop it, a ticker stops it when its room   *)
(* has been empty for ten seconds, and a restarted ext-rec reconciles the  *)
(* rows of the recordings collection with the egresses LiveKit runs.       *)
(*                                                                         *)
(* Each of these is a goroutine of its own.  activeRecs is behind a mutex  *)
(* that none of them holds while it waits for LiveKit or for worldsim: the *)
(* steps of the model are what happens between two such waits.  What a     *)
(* stopped recording still needs, the extraction of its sound and of a     *)
(* thumbnail, runs under a semaphore whose limit changes at run time.      *)
(*                                                                         *)
(* A recording stands for its meeting_id, its egress and its row.          *)
(***************************************************************************)
EXTENDS Naturals, FiniteSets

CONSTANTS
  Rooms,
  MaxRecs,     \* bound: recordings started, numbered in the order of their start_time
  Mp4,         \* the recordings with the target mp4: these have a file
  Requests,    \* the subjects on which stops are asked for
  MaxLimit,    \* bound: the ffmpeg_concurrency that is set
  MaxFaults,   \* bound: restarts of ext-rec and calls that fail
  Faults,      \* what may go wrong
  None

Recs == 1..MaxRecs
Stoppers == Requests \cup {"auto"}
\* "calls": a call of LiveKit or of worldsim fails.  "early": requests are served before the reconciliation.
\* "overlap": two goroutines stop recordings at once.  "hasty": a recording is
\* stopped while its row is still being created.
PossibleFaults == {"crash", "calls", "early", "overlap", "hasty"}

ASSUME RecordingAssumption ==
  /\ MaxRecs \in Nat \ {0} /\ MaxLimit \in Nat \ {0, 1} /\ MaxFaults \in Nat
  /\ Requests \subseteq {"manual", "admin"}
  /\ Mp4 \subseteq Recs /\ Faults \subseteq PossibleFaults
  /\ None \notin Rooms /\ None \notin Recs

VARIABLES
  people,      \* is anybody in the LiveKit room
  egress,      \* LiveKit's egress of each recording
  roomOf,      \* the room of each recording
  rows,        \* the recordings collection
  activeRecs,  \* the recording of each room
  emptySince,  \* rooms whose emptiness the ticker has noted
  starting,    \* where the recording.start handler stands
  stopping,    \* where each caller of stopRecording stands
  reconcile,   \* where reconcileOrphanEgresses stands, and its two snapshots
  toMark,      \* rows its goroutines are about to mark as failed
  toStop,      \* egresses its goroutines are about to stop
  jobs,        \* extractions
  limit,       \* of audioSem
  faults,      \* restarts and failed calls so far
  lost,        \* history: recordings nobody sees to before the next restart
  contested    \* history: recordings stopped twice, or started before the
               \* reconciliation

vars == <<people, egress, roomOf, rows, activeRecs, emptySince, starting, stopping,
          reconcile, toMark, toStop, jobs, limit, faults, lost, contested>>

livekit == <<people, egress, roomOf>>
memory == <<activeRecs, emptySince>>
reconciling == <<reconcile, toMark, toStop>>
history == <<lost, contested>>

\* The extractions (bound: one of a kind for each recording at a time).
Jobs == Mp4 \X {"audio", "thumbnail"}

NoRow == [status |-> "none", audio |-> "none"]
Rows == [status : {"none", "active", "completed", "error"},
         audio : {"none", "pending", "ok", "failed"}]

Rest == [pc |-> "idle", room |-> None, rec |-> None]
NotYet == [pc |-> "start", rows |-> {}, egresses |-> {}]

Running == {e \in Recs : egress[e] = "running"}
\* LiveKit writes the file when the egress ends; it may be late, or missing.
Written == {e \in Mp4 : egress[e] = "ended"}
Extracting == {j \in Jobs : jobs[j] = "running"}

Init ==
  /\ people \in [Rooms -> BOOLEAN]
  /\ egress = [e \in Recs |-> "none"] /\ roomOf = [e \in Recs |-> None]
  /\ rows = [e \in Recs |-> NoRow]
  /\ activeRecs = [r \in Rooms |-> None] /\ emptySince = {}
  /\ starting = Rest /\ stopping = [w \in Stoppers |-> Rest]
  /\ reconcile = NotYet /\ toMark = {} /\ toStop = {}
  /\ jobs = [j \in Jobs |-> "none"] /\ limit = 1
  /\ faults = 0
  /\ lost = {} /\ contested = {}

-----------------------------------------------------------------------------
(* recording.start *)

Serving == reconcile.pc = "done" \/ "early" \in Faults

\* The handler looks whether the room is recorded, and unlocks.  A request of
\* somebody who is no admin, or while recording is disabled, changes nothing.
RequestStart(r) ==
  /\ starting.pc = "idle" /\ Serving
  /\ activeRecs[r] = None
  /\ \E e \in Recs : egress[e] = "none"
  /\ starting' = [Rest EXCEPT !.pc = "egress", !.room = r]
  /\ UNCHANGED <<livekit, rows, memory, stopping, reconciling, jobs, limit, faults, history>>

Mishap == faults < MaxFaults /\ faults' = faults + 1
Failing == "calls" \in Faults /\ Mishap

\* LiveKit starts to record a room.
EgressStarts(e, r) ==
  /\ egress[e] = "none" /\ \A d \in Recs : d < e => egress[d] # "none"
  /\ egress' = [egress EXCEPT ![e] = "running"]
  /\ roomOf' = [roomOf EXCEPT ![e] = r]
  /\ contested' = IF reconcile.pc = "done" THEN contested ELSE contested \cup {e}

\* Mutant: the handler goes on after an error.
StartEgressBlindly ==
  /\ starting.pc = "egress"
  /\ \/ \E e \in Recs :
          /\ EgressStarts(e, starting.room)
          /\ starting' = [starting EXCEPT !.pc = "record", !.rec = e]
     \/ /\ starting' = [starting EXCEPT !.pc = "record"]
        /\ UNCHANGED <<egress, roomOf, contested>>
  /\ UNCHANGED <<people, rows, memory, stopping, reconciling, jobs, limit, faults, lost>>

\* StartRoomCompositeEgress.  An error ends the handler, though LiveKit may
\* record by then.
StartEgress ==
  /\ starting.pc = "egress"
  /\ \/ \E e \in Recs :
          /\ EgressStarts(e, starting.room)
          /\ \/ /\ starting' = [starting EXCEPT !.pc = "record", !.rec = e]
                /\ UNCHANGED <<lost, faults>>
             \/ /\ Failing /\ starting' = Rest
                /\ lost' = lost \cup {e}
     \/ /\ starting' = Rest
        /\ UNCHANGED <<egress, roomOf, history, faults>>
  /\ UNCHANGED <<people, rows, memory, stopping, reconciling, jobs, limit>>

\* The recordings of activeRecs whose place others take.
Displaced == {activeRecs[r] : r \in Rooms} \ ({activeRecs'[r] : r \in Rooms} \cup {None})

StartRecords ==
  /\ starting.pc = "record"
  /\ activeRecs' = [activeRecs EXCEPT ![starting.room] = starting.rec]
  /\ starting' = [starting EXCEPT !.pc = "row"]
  /\ lost' = lost \cup Displaced
  /\ UNCHANGED <<livekit, rows, emptySince, stopping, reconciling, jobs, limit, faults,
                 contested>>

\* A row that cannot be created is no reason to stop the recording.  One that is
\* created for a recording that was stopped meanwhile stays as it is.
StartCreatesRow ==
  /\ starting.pc = "row"
  /\ \/ rows' = [rows EXCEPT ![starting.rec].status = "active"] /\ UNCHANGED faults
     \/ Failing /\ UNCHANGED rows
  /\ lost' = IF activeRecs[starting.room] = starting.rec THEN lost ELSE lost \cup {starting.rec}
  /\ starting' = Rest
  /\ UNCHANGED <<livekit, memory, stopping, reconciling, jobs, limit, contested>>

-----------------------------------------------------------------------------
(* The auto-stop ticker, the goroutine "auto". *)

\* Without these faults somebody stops a recording only once it is started,
\* and nobody else is stopping one.
MayStop(r) ==
  /\ "hasty" \in Faults \/ starting.rec # activeRecs[r]
  /\ \/ "overlap" \in Faults
     \/ \A w \in Stoppers : stopping[w].pc \in {"idle", "occupied", "empty", "elapsed"}

\* Whoever stops a recording that is being stopped contests it.
Contest(e) ==
  contested' = IF \E w \in Stoppers : stopping[w].rec = e THEN contested \cup {e} ELSE contested

\* After the reconciliation it asks LiveKit for the participants of a room in its
\* snapshot (an error is no answer: it asks again in a second) ...
TickLooks(r) ==
  /\ stopping["auto"].pc = "idle" /\ activeRecs[r] # None /\ reconcile.pc = "done"
  /\ stopping' = [stopping EXCEPT !["auto"] =
                    [Rest EXCEPT !.pc = IF people[r] THEN "occupied" ELSE "empty", !.room = r]]
  /\ UNCHANGED <<livekit, rows, memory, starting, reconciling, jobs, limit, faults, history>>

\* ... and, under the lock, starts or resets the room's timer ...
TickNotes ==
  LET r == stopping["auto"].room IN
  /\ \/ /\ stopping["auto"].pc = "occupied"
        /\ emptySince' = emptySince \ {r}
     \/ /\ stopping["auto"].pc = "empty" /\ r \notin emptySince
        /\ emptySince' = emptySince \cup {r}
  /\ stopping' = [stopping EXCEPT !["auto"] = Rest]
  /\ UNCHANGED <<livekit, rows, activeRecs, starting, reconciling, jobs, limit, faults, history>>

\* ... which is over, or not.
TickTimes ==
  /\ stopping["auto"].pc = "empty" /\ stopping["auto"].room \in emptySince
  /\ stopping' = [stopping EXCEPT !["auto"] = [@ EXCEPT !.pc = "elapsed"]]
  /\ UNCHANGED <<livekit, rows, memory, starting, reconciling, jobs, limit, faults, history>>

TickWaits ==
  /\ stopping["auto"].pc = "empty" /\ stopping["auto"].room \in emptySince
  /\ stopping' = [stopping EXCEPT !["auto"] = Rest]
  /\ UNCHANGED <<livekit, rows, memory, starting, reconciling, jobs, limit, faults, history>>

\* The recording is read again: the one that is active now is stopped.
TickStops ==
  LET r == stopping["auto"].room IN
  /\ stopping["auto"].pc = "elapsed"
  /\ \/ /\ activeRecs[r] = None /\ stopping' = [stopping EXCEPT !["auto"] = Rest]
        /\ UNCHANGED contested
     \/ /\ activeRecs[r] # None /\ MayStop(r) /\ Contest(activeRecs[r])
        /\ stopping' = [stopping EXCEPT !["auto"] =
                          [pc |-> "stop", room |-> r, rec |-> activeRecs[r]]]
  /\ UNCHANGED <<livekit, rows, memory, starting, reconciling, jobs, limit, faults, lost>>

-----------------------------------------------------------------------------
(* recording.stop, recording.admin.stop, and stopRecording *)

\* An admin page stops a recording only if its row says that it is active.
RequestStop(w, r) ==
  /\ stopping[w].pc = "idle" /\ Serving /\ MayStop(r)
  /\ activeRecs[r] # None /\ Contest(activeRecs[r])
  /\ w = "admin" => rows[activeRecs[r]].status = "active"
  /\ stopping' = [stopping EXCEPT ![w] = [pc |-> "stop", room |-> r, rec |-> activeRecs[r]]]
  /\ UNCHANGED <<livekit, rows, memory, starting, reconciling, jobs, limit, faults, lost>>

\* LiveKit ends an egress, which may have ended by itself, or does not.
EndsEgress(e) ==
  \/ egress' = [egress EXCEPT ![e] = "ended"] /\ UNCHANGED <<lost, faults>>
  \/ Failing /\ UNCHANGED egress /\ lost' = lost \cup ({e} \cap Running)

\* StopEgress; an error is logged, and nothing else.
StopsEgress(w) ==
  /\ stopping[w].pc = "stop"
  /\ EndsEgress(stopping[w].rec)
  /\ stopping' = [stopping EXCEPT ![w].pc = "forget"]
  /\ UNCHANGED <<people, roomOf, rows, memory, starting, reconciling, jobs, limit,
                 contested>>

\* Whatever recording the room has now is forgotten.
StopForgets(w) ==
  LET r == stopping[w].room IN
  /\ stopping[w].pc = "forget"
  /\ activeRecs' = [activeRecs EXCEPT ![r] = None]
  /\ emptySince' = emptySince \ {r}
  /\ lost' = lost \cup (Displaced \ {stopping[w].rec})
  /\ stopping' = [stopping EXCEPT ![w].pc = "complete"]
  /\ UNCHANGED <<livekit, rows, starting, reconciling, jobs, limit, faults, contested>>

\* An update of a row that exists.
Updated(e, changed) ==
  rows' = IF rows[e].status = "none" THEN rows ELSE [rows EXCEPT ![e] = changed]

\* An error is logged, and nothing else.
Update(e, changed) ==
  \/ Updated(e, changed) /\ UNCHANGED faults
  \/ Failing /\ UNCHANGED rows

\* Nobody tries again to write down what a recording came to.
Settle(e, status) ==
  \/ Updated(e, [rows[e] EXCEPT !.status = status]) /\ UNCHANGED <<lost, faults>>
  \/ Failing /\ UNCHANGED rows /\ lost' = lost \cup {e}

\* The row is completed; for a recording with a file the extraction follows.
StopCompletes(w) ==
  LET e == stopping[w].rec IN
  /\ stopping[w].pc = "complete"
  /\ Settle(e, "completed")
  /\ stopping' = [stopping EXCEPT ![w] = IF e \in Mp4 THEN [@ EXCEPT !.pc = "extract"] ELSE Rest]
  /\ UNCHANGED <<livekit, memory, starting, reconciling, jobs, limit, contested>>

StopExtracts(w) ==
  LET e == stopping[w].rec IN
  /\ stopping[w].pc = "extract"
  /\ Update(e, [rows[e] EXCEPT !.audio = "pending"])
  /\ jobs' = [j \in Jobs |-> IF j[1] = e
                             THEN "trying" ELSE jobs[j]]
  /\ stopping' = [stopping EXCEPT ![w] = Rest]
  /\ UNCHANGED <<livekit, memory, starting, reconciling, limit, history>>

-----------------------------------------------------------------------------
(* audioSem and the extractions *)

\* Acquire: a goroutine that finds the semaphore full sleeps until it is woken.
Acquire(j) ==
  /\ jobs[j] = "trying"
  /\ jobs' = [jobs EXCEPT ![j] = IF Cardinality(Extracting) < limit THEN "running" ELSE "asleep"]
  /\ UNCHANGED <<livekit, rows, memory, starting, stopping, reconciling, limit, faults, history>>

\* Mutant: Release wakes nobody.
ReleaseSilently(j) == jobs' = [jobs EXCEPT ![j] = "none"]

\* Release: the semaphore wakes one of those that sleep.
Release(j) ==
  \/ /\ \A k \in Jobs : jobs[k] # "asleep"
     /\ jobs' = [jobs EXCEPT ![j] = "none"]
  \/ \E k \in Jobs :
       /\ jobs[k] = "asleep"
       /\ jobs' = [jobs EXCEPT ![j] = "none", ![k] = "trying"]

\* ffmpeg is done, well or badly, and so is the row.  Without a file, after a
\* minute, it is not even tried.
ExtractAudio(j) ==
  /\ jobs[j] = "running" /\ j[2] = "audio"
  /\ \E result \in {"ok", "failed"} :
       /\ result = "ok" => j[1] \in Written
       /\ Update(j[1], [rows[j[1]] EXCEPT !.audio = result])
  /\ Release(j)
  /\ UNCHANGED <<livekit, memory, starting, stopping, reconciling, limit, history>>

\* A thumbnail is but a name in the row, and not even that if it cannot be made.
ExtractThumbnail(j) ==
  /\ jobs[j] = "running" /\ j[2] = "thumbnail"
  /\ Release(j)
  /\ UNCHANGED <<livekit, rows, memory, starting, stopping, reconciling, limit, faults, history>>

\* Without an ffmpeg_concurrency two extractions run at once; dynamicSemaphore
\* would take one for its least limit.
Concurrency(n) == IF n < 1 THEN 2 ELSE n
AtLeastOne(n) == IF n < 1 THEN 1 ELSE n

\* world_options.update: the new limit wakes everybody.
SetLimit(n) ==
  /\ limit' = AtLeastOne(Concurrency(n))
  /\ jobs' = [j \in Jobs |-> IF jobs[j] = "asleep" THEN "trying" ELSE jobs[j]]
  /\ UNCHANGED <<livekit, rows, memory, starting, stopping, reconciling, faults, history>>

-----------------------------------------------------------------------------
(* reconcileOrphanEgresses, once after worldsim is ready *)

\* Mutant: all rows are reconciled, not the active ones.
ListActiveAll == {e \in Recs : rows[e].status # "none"}

ListActive == {e \in Recs : rows[e].status = "active"}

ReconcileListsRows ==
  /\ reconcile.pc = "start"
  /\ reconcile' = [reconcile EXCEPT !.pc = "rows", !.rows = ListActive]
  /\ UNCHANGED <<livekit, rows, memory, starting, stopping, toMark, toStop, jobs, limit, faults,
                 history>>

ReconcileListsEgresses ==
  /\ reconcile.pc = "rows"
  /\ reconcile' = [reconcile EXCEPT !.pc = "egresses", !.egresses = Running]
  /\ UNCHANGED <<livekit, rows, memory, starting, stopping, toMark, toStop, jobs, limit, faults,
                 history>>

\* Either list may fail, and that is the end of the reconciliation.
ReconcileFails ==
  /\ Failing /\ reconcile.pc \in {"start", "rows"}
  /\ reconcile' = [NotYet EXCEPT !.pc = "done"]
  /\ lost' = lost \cup {e \in Running \cup ListActive :
                         /\ starting.pc = "record" => starting.rec # e
                         /\ \A r \in Rooms : activeRecs[r] # e}
  /\ UNCHANGED <<livekit, rows, memory, starting, stopping, toMark, toStop, jobs, limit,
                 contested>>

\* Mutant: an egress without a row is left alone.
OrphansNone == {}

Orphans == reconcile.egresses \ reconcile.rows

\* Mutant: rows whose egress runs are left alone.
RestoredNever(r) == activeRecs[r]

\* Rows come newest first, so that the oldest of a room is the one that stays.
Restored(r) ==
  LET known == {e \in reconcile.rows \cap reconcile.egresses : roomOf[e] = r} IN
    IF known = {} THEN activeRecs[r] ELSE CHOOSE e \in known : \A d \in known : e <= d

\* Recordings that run and have a row, with an older one of their room beside them.
Crowded ==
  LET known == reconcile.rows \cap reconcile.egresses IN
    {e \in known : \E d \in known : roomOf[d] = roomOf[e] /\ d < e}

Reconcile ==
  /\ reconcile.pc = "egresses"
  /\ activeRecs' = [r \in Rooms |-> Restored(r)]
  /\ toMark' = reconcile.rows \ reconcile.egresses
  /\ toStop' = Orphans
  /\ reconcile' = [NotYet EXCEPT !.pc = "done"]
  /\ lost' = lost \cup Displaced \cup Crowded
  /\ UNCHANGED <<livekit, rows, emptySince, starting, stopping, jobs, limit, faults, contested>>

MarkError(e) ==
  /\ e \in toMark /\ toMark' = toMark \ {e}
  /\ Settle(e, "error")
  /\ UNCHANGED <<livekit, memory, starting, stopping, reconcile, toStop, jobs, limit,
                 contested>>

StopOrphan(e) ==
  /\ e \in toStop /\ toStop' = toStop \ {e}
  /\ EndsEgress(e)
  /\ UNCHANGED <<people, roomOf, rows, memory, starting, stopping, reconcile, toMark, jobs, limit,
                 contested>>

-----------------------------------------------------------------------------
(* The admin pages *)

\* handleRecordingsDelete, of any recording that has a row, and each step of
\* handleRecordingsDeleteAll.  The files it names go too, so that an extraction
\* fails, as it may anyway.
Delete(e) ==
  /\ rows[e].status # "none"
  /\ rows' = [rows EXCEPT ![e] = NoRow]
  /\ UNCHANGED <<livekit, memory, starting, stopping, reconciling, jobs, limit, faults, history>>

\* handleRecordingsBackfillThumbnails, for a recording with a file; which have a
\* thumbnail is not kept.
Backfill(e) ==
  /\ e \in Mp4 /\ rows[e].status # "none"
  /\ jobs[<<e, "thumbnail">>] = "none"
  /\ jobs' = [jobs EXCEPT ![<<e, "thumbnail">>] = "trying"]
  /\ UNCHANGED <<livekit, rows, memory, starting, stopping, reconciling, limit, faults, history>>

-----------------------------------------------------------------------------
(* The environment *)

\* Everything but the rows and LiveKit's egresses is memory of the process.  All
\* that was lost will be found: the reconciliation goes by those two.
Crash ==
  /\ "crash" \in Faults /\ Mishap
  /\ activeRecs' = [r \in Rooms |-> None] /\ emptySince' = {}
  /\ starting' = Rest /\ stopping' = [w \in Stoppers |-> Rest]
  /\ reconcile' = NotYet /\ toMark' = {} /\ toStop' = {}
  /\ jobs' = [j \in Jobs |-> "none"]
  /\ lost' = {} /\ contested' = {}
  /\ UNCHANGED <<livekit, rows, limit>>

\* LiveKit ends an egress by itself.
EgressDies(e) ==
  /\ egress[e] = "running" /\ egress' = [egress EXCEPT ![e] = "ended"]
  /\ UNCHANGED <<people, roomOf, rows, memory, starting, stopping, reconciling, jobs, limit,
                 faults, history>>

PeopleChange(r) ==
  /\ people' = [people EXCEPT ![r] = ~@]
  /\ UNCHANGED <<egress, roomOf, rows, memory, starting, stopping, reconciling, jobs, limit,
                 faults, history>>

Next ==
  \/ StartEgress \/ StartRecords \/ StartCreatesRow
  \/ TickNotes \/ TickTimes \/ TickWaits \/ TickStops
  \/ ReconcileListsRows \/ ReconcileListsEgresses \/ ReconcileFails \/ Reconcile \/ Crash
  \/ \E r \in Rooms :
       \/ RequestStart(r) \/ TickLooks(r) \/ PeopleChange(r)
       \/ \E w \in Requests : RequestStop(w, r)
  \/ \E w \in Stoppers : StopsEgress(w) \/ StopForgets(w) \/ StopCompletes(w) \/ StopExtracts(w)
  \/ \E j \in Jobs : Acquire(j) \/ ExtractAudio(j) \/ ExtractThumbnail(j)
  \/ \E n \in 0..MaxLimit : SetLimit(n)
  \/ \E e \in Recs : MarkError(e) \/ StopOrphan(e) \/ EgressDies(e)
  \/ \E e \in Recs : Delete(e) \/ Backfill(e)

Spec == Init /\ [][Next]_vars

\* What each goroutine goes on with.
Starts == StartEgress \/ StartRecords \/ StartCreatesRow
Stops == \E w \in Stoppers : StopsEgress(w) \/ StopForgets(w) \/ StopCompletes(w) \/ StopExtracts(w)
Ticks == TickNotes \/ TickStops \/ \E r \in Rooms : TickLooks(r)
Reconciles ==
  \/ ReconcileListsRows \/ ReconcileListsEgresses \/ ReconcileFails \/ Reconcile
  \/ \E e \in Recs : MarkError(e) \/ StopOrphan(e)
Extracts == \E j \in Jobs : ExtractAudio(j) \/ ExtractThumbnail(j)

\* Goroutines run, requests are answered, the ticker ticks and ten seconds pass.
FairSpec ==
  /\ Spec
  /\ WF_vars(Starts) /\ WF_vars(Stops) /\ WF_vars(Ticks) /\ SF_vars(TickTimes)
  /\ WF_vars(Reconciles) /\ WF_vars(Extracts) /\ SF_vars(\E j \in Jobs : Acquire(j))

-----------------------------------------------------------------------------
(* Properties *)

\* Types of the variables, and what they mean: a recording that was started has
\* a room, only one with a file has sound to extract, and what recording.start
\* writes down is a recording.
TypeOK ==
  /\ people \in [Rooms -> BOOLEAN]
  /\ egress \in [Recs -> {"none", "running", "ended"}]
  /\ roomOf \in [Recs -> Rooms \cup {None}]
  /\ rows \in [Recs -> Rows]
  /\ activeRecs \in [Rooms -> Recs \cup {None}] /\ emptySince \subseteq Rooms
  /\ starting \in [pc : {"idle", "egress", "record", "row"},
                   room : Rooms \cup {None}, rec : Recs \cup {None}]
  /\ stopping \in [Stoppers -> [pc : {"idle", "occupied", "empty", "elapsed", "stop", "forget",
                                      "complete", "extract"},
                                room : Rooms \cup {None}, rec : Recs \cup {None}]]
  /\ reconcile \in [pc : {"start", "rows", "egresses", "done"},
                    rows : SUBSET Recs, egresses : SUBSET Recs]
  /\ toMark \subseteq Recs /\ toStop \subseteq Recs
  /\ jobs \in [Jobs -> {"none", "trying", "asleep", "running"}]
  /\ limit \in 1..MaxLimit /\ faults \in 0..MaxFaults
  /\ lost \subseteq Recs /\ contested \subseteq Recs
  /\ \A e \in Recs : egress[e] = "none" <=> roomOf[e] = None
  /\ starting.pc \in {"record", "row"} => starting.rec \in Recs

\* An egress that runs is under control: the room's stop button and the ticker
\* find it in activeRecs, or somebody is about to record it or to stop it.  It is
\* lost until the next restart only if LiveKit or worldsim failed a call about
\* it, or if activeRecs has had another recording of its room beside it.
RunningIsKnown ==
  \A e \in Running \ lost :
    \/ activeRecs[roomOf[e]] = e
    \/ starting.rec = e /\ starting.pc = "record"
    \/ reconcile.pc # "done"
    \/ e \in toStop

\* What a recording came to is not revised: a completed recording is not marked
\* as failed, and sound that was extracted is not pending again; unless two
\* goroutines stop it at once, or it was started before the reconciliation.
OutcomesStand ==
  [][\A e \in Recs \ contested :
       rows'[e].status # "none" =>
         /\ rows[e].status = "completed" => rows'[e].status = "completed"
         /\ rows[e].audio = "ok" => rows'[e].audio = "ok"]_vars

\* "if it stays empty for 10 consecutive seconds, stop the recording": nothing
\* goes on being recorded, or listed as being recorded, in a room that stays
\* empty, across restarts of ext-rec and whatever calls fail, but for what is
\* lost until the next restart.
EmptyRoomsSettle ==
  \A r \in Rooms :
    <>[]~people[r] =>
      <>[](\A e \in Recs \ lost :
             roomOf[e] = r => egress[e] # "running" /\ rows[e].status # "active")

\* Extractions do not all sleep: while some are left one runs, however the limit
\* changes and whatever is asked for meanwhile.
ExtractionsGoOn == []<>(Extracting # {} \/ \A j \in Jobs : jobs[j] = "none")
=============================================================================
