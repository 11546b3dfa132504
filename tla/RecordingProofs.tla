-------------------------- MODULE RecordingProofs --------------------------
(***************************************************************************)
(* Theorems about Recording, for any number of rooms, recordings and       *)
(* requests, whatever calls fail, however often ext-rec restarts and       *)
(* whoever stops what beside whom.                                         *)
(*                                                                         *)
(* None of the goroutines holds the mutex across its waits, so that each   *)
(* works with what it read before: the invariants say what is still true   *)
(* of that when it is used.                                                *)
(***************************************************************************)
EXTENDS Recording, TLAPS, WellFoundedInduction

\* A stopper has made up its mind.
Busy(w) == stopping[w].pc \in {"stop", "forget", "complete", "extract"}

\* Where recording.start stands: its recording has no row yet.
Starting ==
  /\ starting.pc # "idle" => starting.room \in Rooms
  /\ starting.pc \in {"record", "row"} =>
       /\ starting.rec \in Recs /\ egress[starting.rec] # "none"
       /\ roomOf[starting.rec] = starting.room /\ rows[starting.rec].status = "none"

\* Where each caller of stopRecording stands: the egress ends before the
\* recording is forgotten, or LiveKit refused.
Stopping ==
  \A w \in Stoppers :
    /\ stopping[w].pc # "idle" => stopping[w].room \in Rooms
    /\ ~Busy(w) => stopping[w].rec = None
    /\ Busy(w) => /\ stopping[w].rec \in Recs /\ egress[stopping[w].rec] # "none"
                  /\ roomOf[stopping[w].rec] = stopping[w].room
    /\ stopping[w].pc \in {"forget", "complete", "extract"} =>
         egress[stopping[w].rec] = "ended" \/ stopping[w].rec \in lost
    /\ stopping[w].pc = "extract" => stopping[w].rec \in Mp4

\* What is written down is of recordings that were started, in their room.
Known ==
  /\ \A r \in Rooms : activeRecs[r] # None => egress[activeRecs[r]] # "none" /\ roomOf[activeRecs[r]] = r
  /\ \A e \in Recs : rows[e].status # "none" => egress[e] # "none"
  /\ \A e \in toMark \cup toStop \cup reconcile.rows \cup reconcile.egresses : egress[e] # "none"

Sane == TypeOK /\ Starting /\ Stopping /\ Known

\* recording.start is about to put e into activeRecs.
Registering(e) == starting.pc = "record" /\ starting.rec = e

\* A recording that runs when the reconciliation is about to use its second
\* snapshot is in it, unless it was started since.
Listed ==
  reconcile.pc = "egresses" =>
    \A e \in Running \ lost :
      e \in reconcile.egresses \/ activeRecs[roomOf[e]] = e \/ Registering(e)

\* Nobody has e in hand, or will.
Free(e) ==
  /\ \A r \in Rooms : activeRecs[r] # e
  /\ \A w \in Stoppers : stopping[w].rec # e
  /\ ~Registering(e)

\* The recording that is about to be registered is new to everybody.
New ==
  \A e \in Recs : Registering(e) =>
    /\ \A r \in Rooms : activeRecs[r] # e
    /\ \A w \in Stoppers : stopping[w].rec # e
    /\ e \notin toMark \cup reconcile.rows

\* The snapshots of the reconciliation are gone with it.
Snapshots == reconcile.pc = "done" => reconcile.rows = {} /\ reconcile.egresses = {}

\* Before the reconciliation nobody does anything with a recording but start it.
Untouched(e) == Free(e) /\ (e \in Mp4 => jobs[<<e, "audio">>] = "none")
Early == reconcile.pc # "done" => \A e \in Recs \ contested : Untouched(e)

\* Nobody completes a recording that is about to be marked as failed.
Marking ==
  \A e \in Recs \ contested :
    /\ e \in reconcile.rows \cup toMark => rows[e].status # "completed"
    /\ e \in toMark => Free(e)

\* A recording has one stopper, which forgets it for good.
OneStopper ==
  \A e \in Recs \ contested :
    /\ \A v, w \in Stoppers : stopping[v].rec = e /\ stopping[w].rec = e => v = w
    /\ \A w \in Stoppers, r \in Rooms :
         stopping[w].rec = e /\ stopping[w].pc \in {"complete", "extract"} => activeRecs[r] # e

\* An extraction is for a recording that nobody will stop again, and succeeds
\* once its egress has ended.
Extracted ==
  /\ \A e \in Recs : rows[e].audio = "ok" => e \in Mp4 /\ egress[e] = "ended"
  /\ \A e \in Mp4 : jobs[<<e, "audio">>] # "none" => egress[e] # "none"
  /\ \A e \in Mp4 \ contested :
       /\ rows[e].audio = "ok" => jobs[<<e, "audio">>] = "none" /\ e \notin reconcile.egresses
       /\ rows[e].audio = "ok" \/ jobs[<<e, "audio">>] # "none" => Free(e)

Outcomes == New /\ Snapshots /\ Early /\ Marking /\ OneStopper /\ Extracted

-----------------------------------------------------------------------------
(* Rows, extractions, and where a stopper stands *)


StopStates == [pc : {"idle", "occupied", "empty", "elapsed", "stop", "forget", "complete", "extract"},
               room : Rooms \cup {None}, rec : Recs \cup {None}]

LEMMA RecordingsAre == Recs \subseteq Nat /\ Mp4 \subseteq Recs /\ "auto" \in Stoppers /\ Requests \subseteq Stoppers
BY RecordingAssumption DEF Recs, Stoppers

LEMMA JobsAre ==
  /\ \A j \in Jobs : j[1] \in Mp4 /\ j[1] \in Recs /\ j[2] \in {"audio", "thumbnail"} /\ j = <<j[1], j[2]>>
  /\ \A e \in Mp4 : <<e, "audio">> \in Jobs /\ <<e, "thumbnail">> \in Jobs
<1>1. ASSUME NEW j \in Jobs
      PROVE  j[1] \in Mp4 /\ j[2] \in {"audio", "thumbnail"} /\ j = <<j[1], j[2]>>
  BY DEF Jobs
<1>2. \A e \in Mp4 : <<e, "audio">> \in Jobs /\ <<e, "thumbnail">> \in Jobs
  BY DEF Jobs
<1> QED BY <1>1, <1>2, RecordingsAre

LEMMA RestIs ==
  /\ Rest \in [pc : {"idle", "egress", "record", "row"}, room : Rooms \cup {None}, rec : Recs \cup {None}]
  /\ Rest \in StopStates /\ Rest.pc = "idle"
BY DEF Rest, StopStates

\* A stopper goes on.
LEMMA StopperGoes ==
  ASSUME TypeOK, NEW w \in Stoppers, NEW s \in StopStates, stopping' = [stopping EXCEPT ![w] = s]
  PROVE  /\ stopping' \in [Stoppers -> StopStates]
         /\ \A v \in Stoppers : stopping'[v] = IF v = w THEN s ELSE stopping[v]
BY DEF TypeOK, StopStates

LEMMA StopperSteps ==
  ASSUME TypeOK, NEW w \in Stoppers, NEW pc \in {"elapsed", "forget", "complete", "extract"}
  PROVE  LET s == [stopping[w] EXCEPT !.pc = pc]
         IN  s \in StopStates /\ s.pc = pc /\ s.room = stopping[w].room /\ s.rec = stopping[w].rec
BY DEF TypeOK, StopStates

\* One row changes, in one of its fields.
LEMMA RowTypes ==
  ASSUME NEW row \in Rows
  PROVE  /\ NoRow \in Rows
         /\ \A s \in {"none", "active", "completed", "error"} :
              LET new == [row EXCEPT !.status = s]
              IN  new \in Rows /\ new.status = s /\ new.audio = row.audio
         /\ \A a \in {"pending", "ok", "failed"} :
              LET new == [row EXCEPT !.audio = a]
              IN  new \in Rows /\ new.status = row.status /\ new.audio = a
BY DEF Rows, NoRow

LEMMA OneRow ==
  ASSUME TypeOK, NEW e, NEW new \in Rows, rows' = [rows EXCEPT ![e] = new]
  PROVE  /\ rows' \in [Recs -> Rows]
         /\ \A d \in Recs : rows'[d] = IF d = e THEN new ELSE rows[d]
BY DEF TypeOK

LEMMA RowIsCreated ==
  ASSUME TypeOK, NEW e \in Recs, rows' = [rows EXCEPT ![e].status = "active"]
  PROVE  /\ rows' \in [Recs -> Rows]
         /\ \A d \in Recs : d # e => rows'[d] = rows[d]
         /\ rows'[e].status = "active" /\ rows'[e].audio = rows[e].audio
<1> DEFINE row == rows[e]
           new == [row EXCEPT !.status = "active"]
<1>1. rows' = [rows EXCEPT ![e] = new]
  OBVIOUS
<1>2. row \in Rows
  BY DEF TypeOK
<1> HIDE DEF row
<1>3. new.status = "active" /\ new.audio = row.audio /\ new \in Rows
  BY <1>2 DEF Rows
<1> HIDE DEF new
<1>4. rows' \in [Recs -> Rows] /\ \A d \in Recs : rows'[d] = IF d = e THEN new ELSE rows[d]
  BY <1>1, <1>3, OneRow
<1> QED BY <1>3, <1>4 DEF row

LEMMA UpdateIs ==
  ASSUME TypeOK, NEW e \in Recs, NEW new \in Rows, Updated(e, new)
  PROVE  /\ rows' \in [Recs -> Rows]
         /\ \A d \in Recs : rows'[d] = IF d = e /\ rows[e].status # "none" THEN new ELSE rows[d]
BY OneRow DEF Updated, TypeOK

LEMMA StatusUpdate ==
  ASSUME TypeOK, NEW e \in Recs, NEW s \in {"completed", "error"},
         Updated(e, [rows[e] EXCEPT !.status = s]) \/ UNCHANGED rows
  PROVE  /\ rows' \in [Recs -> Rows]
         /\ \A d \in Recs :
              \/ rows'[d] = rows[d]
              \/ /\ d = e /\ rows[d].status # "none"
                 /\ rows'[d].status = s /\ rows'[d].audio = rows[d].audio
<1>1. CASE UNCHANGED rows
  BY <1>1 DEF TypeOK
<1>2. CASE Updated(e, [rows[e] EXCEPT !.status = s])
  <2> DEFINE row == rows[e]
             new == [row EXCEPT !.status = s]
  <2>1. row \in Rows
    BY DEF TypeOK
  <2> HIDE DEF row
  <2>2. new \in Rows /\ new.status = s /\ new.audio = row.audio
    BY <2>1 DEF Rows
  <2>3. Updated(e, new)
    BY <1>2 DEF row
  <2> HIDE DEF new
  <2> QED BY <2>2, <2>3, UpdateIs DEF row
<1> QED BY <1>1, <1>2

LEMMA AudioUpdate ==
  ASSUME TypeOK, NEW e \in Recs, NEW a \in {"pending", "ok", "failed"},
         Update(e, [rows[e] EXCEPT !.audio = a])
  PROVE  /\ rows' \in [Recs -> Rows]
         /\ \A d \in Recs :
              \/ rows'[d] = rows[d]
              \/ /\ d = e /\ rows[d].status # "none"
                 /\ rows'[d].status = rows[d].status /\ rows'[d].audio = a
<1>1. CASE UNCHANGED rows
  BY <1>1 DEF TypeOK
<1>2. CASE Updated(e, [rows[e] EXCEPT !.audio = a])
  <2> DEFINE row == rows[e]
             new == [row EXCEPT !.audio = a]
  <2>1. row \in Rows
    BY DEF TypeOK
  <2> HIDE DEF row
  <2>2. new \in Rows /\ new.status = row.status /\ new.audio = a
    BY <2>1 DEF Rows
  <2>3. Updated(e, new)
    BY <1>2 DEF row
  <2> HIDE DEF new
  <2> QED BY <2>2, <2>3, UpdateIs DEF row
<1> QED BY <1>1, <1>2 DEF Update

LEMMA OldestExists ==
  ASSUME NEW S \in SUBSET Nat, S # {}
  PROVE  \E e \in S : \A d \in S : e <= d
<1> DEFINE R == OpToRel(<, Nat)
<1>1. R = {p \in Nat \X Nat : p[1] < p[2]}
  BY DEF OpToRel
<1>2. IsWellFoundedOn(R, Nat)
  BY NatLessThanWellFounded
<1> HIDE DEF R
<1>3. PICK e \in S : \A d \in S : ~(<<d, e>> \in R)
  BY <1>2, WFMin
<1>4. \A d \in S : ~(d < e)
  BY <1>1, <1>3
<1> QED BY <1>4

\* What a room gets back: its oldest recording that is listed and runs.
LEMMA RestoredIs ==
  ASSUME TypeOK, NEW r \in Rooms
  PROVE  \/ /\ Restored(r) \in reconcile.rows \cap reconcile.egresses
            /\ roomOf[Restored(r)] = r
            /\ \A e \in (reconcile.rows \cap reconcile.egresses) \ Crowded : roomOf[e] = r => Restored(r) = e
         \/ /\ Restored(r) = activeRecs[r]
            /\ \A e \in reconcile.rows \cap reconcile.egresses : roomOf[e] # r
<1> DEFINE known == {e \in reconcile.rows \cap reconcile.egresses : roomOf[e] = r}
<1>1. CASE known = {}
  BY <1>1 DEF Restored
<1>2. CASE known # {}
  <2>1. known \in SUBSET Nat
    BY RecordingsAre DEF TypeOK
  <2>2. \E e \in known : \A d \in known : e <= d
    BY <1>2, <2>1, OldestExists
  <2>3. Restored(r) = CHOOSE e \in known : \A d \in known : e <= d
    BY <1>2 DEF Restored
  <2> HIDE DEF known
  <2>4. Restored(r) \in known
    BY <2>2, <2>3
  <2>5. \A d \in known : Restored(r) <= d
    BY <2>2, <2>3
  <2>6. ASSUME NEW e \in known, e \notin Crowded PROVE Restored(r) = e
    <3>1. \A d \in known : ~(d < e)
      BY <2>6 DEF Crowded, known
    <3>2. ASSUME NEW a \in Nat, NEW b \in Nat, a <= b, ~(a < b) PROVE a = b
      BY <3>2
    <3> QED BY <2>1, <2>4, <2>5, <2>6, <3>1, <3>2, Zenon
  <2> QED BY <2>4, <2>6 DEF known
<1> QED BY <1>1, <1>2

-----------------------------------------------------------------------------
(* Types *)


\* What only grows until the next restart.
HistoryTyped ==
  /\ faults' \in 0..MaxFaults /\ lost' \subseteq Recs /\ contested' \subseteq Recs
  /\ Crash \/ (lost \subseteq lost' /\ contested \subseteq contested')

LEMMA MishapTypes == TypeOK /\ (Mishap \/ UNCHANGED faults) => faults' \in 0..MaxFaults
BY RecordingAssumption DEF TypeOK, Mishap

LEMMA HistoryTypes == Sane /\ [Next]_vars => HistoryTyped
<1> SUFFICES ASSUME Sane, [Next]_vars PROVE HistoryTyped
  OBVIOUS
<1> USE DEF Sane
<1> DEFINE Goal == /\ Mishap \/ UNCHANGED faults
                   /\ lost' \subseteq Recs /\ contested' \subseteq Recs
                   /\ Crash \/ (lost \subseteq lost' /\ contested \subseteq contested')
<1>1. ASSUME UNCHANGED <<faults, history>> PROVE Goal
  BY <1>1 DEF TypeOK, history
<1>2. ASSUME Crash PROVE Goal
  BY <1>2 DEF Crash
<1>3. \A r \in Rooms : activeRecs[r] \in Recs \cup {None}
  BY DEF TypeOK
<1>4. Displaced \subseteq Recs
  BY <1>3 DEF Displaced
<1>5. ASSUME StartEgress PROVE Goal
  BY <1>5 DEF StartEgress, EgressStarts, Failing, TypeOK, history
<1>6. ASSUME StartRecords PROVE Goal
  BY <1>4, <1>6 DEF StartRecords, TypeOK
<1>7. ASSUME StartCreatesRow PROVE Goal
  <2>1. starting.rec \in Recs
    BY <1>7 DEF StartCreatesRow, Starting
  <2> QED BY <1>7, <2>1 DEF StartCreatesRow, Failing, TypeOK
<1>8. ASSUME TickStops \/ \E w \in Requests, r \in Rooms : RequestStop(w, r) PROVE Goal
  <2>1. \A e : e \in Recs /\ Contest(e) => contested' \subseteq Recs /\ contested \subseteq contested'
    BY DEF Contest, TypeOK
  <2>2. stopping["auto"].pc # "idle" => stopping["auto"].room \in Rooms
    BY RecordingsAre DEF Stopping
  <2>3. contested' = contested \/ \E r \in Rooms : activeRecs[r] # None /\ Contest(activeRecs[r])
    BY <1>8, <2>2 DEF TickStops, RequestStop
  <2>4. contested' \subseteq Recs /\ contested \subseteq contested'
    BY <1>3, <2>1, <2>3 DEF TypeOK
  <2> QED BY <1>8, <2>4 DEF TickStops, RequestStop, TypeOK
<1>9. ASSUME NEW w \in Stoppers, StopsEgress(w) \/ StopForgets(w) \/ StopCompletes(w) \/ StopExtracts(w)
      PROVE  Goal
  <2>1. stopping[w].rec \in Recs
    BY <1>9 DEF StopsEgress, StopForgets, StopCompletes, StopExtracts, Stopping, Busy
  <2> QED
    BY <1>4, <1>9, <2>1 DEF StopsEgress, EndsEgress, StopForgets, StopCompletes, Settle, StopExtracts, Update,
      Failing, TypeOK, history
<1>10. ASSUME NEW j \in Jobs, ExtractAudio(j) PROVE Goal
  BY <1>10 DEF ExtractAudio, Update, Failing, TypeOK, history
<1>11. ASSUME ReconcileFails PROVE Goal
  <2>1. Running \cup ListActive \subseteq Recs
    BY DEF Running, ListActive
  <2> QED BY <1>11, <2>1 DEF ReconcileFails, Failing, TypeOK
<1>12. ASSUME Reconcile PROVE Goal
  <2>1. reconcile.rows \cap reconcile.egresses \subseteq Recs
    BY DEF TypeOK
  <2> QED BY <1>4, <1>12, <2>1 DEF Reconcile, Crowded, TypeOK
<1>13. ASSUME NEW e \in Recs, MarkError(e) \/ StopOrphan(e) PROVE Goal
  BY <1>13 DEF MarkError, StopOrphan, Settle, EndsEgress, Failing, TypeOK
<1>14. \/ UNCHANGED <<faults, history>>
       \/ Crash \/ StartEgress \/ StartRecords \/ StartCreatesRow
       \/ TickStops \/ ReconcileFails \/ Reconcile
       \/ \E w \in Requests, r \in Rooms : RequestStop(w, r)
       \/ \E w \in Stoppers : StopsEgress(w) \/ StopForgets(w) \/ StopCompletes(w) \/ StopExtracts(w)
       \/ \E j \in Jobs : ExtractAudio(j)
       \/ \E e \in Recs : MarkError(e) \/ StopOrphan(e)
  BY DEF Next, vars, history, RequestStart, TickNotes, TickTimes, TickWaits, TickLooks, PeopleChange,
    Acquire, ExtractThumbnail, SetLimit, ReconcileListsRows, ReconcileListsEgresses, Delete, Backfill, EgressDies
<1>15. CASE Goal
  BY <1>15, MishapTypes DEF HistoryTyped
<1> HIDE DEF Goal
<1>16. Goal
  BY <1>1, <1>2, <1>5, <1>6, <1>7, <1>8, <1>9, <1>10, <1>11, <1>12, <1>13, <1>14 DEF Goal
<1> QED BY <1>15, <1>16

\* An egress that exists ends, or goes on: it is for the room it was started for.
LEMMA EgressEnds ==
  ASSUME TypeOK, NEW e \in Recs, egress[e] # "none", egress' = [egress EXCEPT ![e] = "ended"]
  PROVE  /\ egress' \in [Recs -> {"none", "running", "ended"}]
         /\ \A d \in Recs : egress'[d] = IF d = e THEN "ended" ELSE egress[d]
         /\ \A d \in Recs : egress'[d] = "none" <=> roomOf[d] = None
BY DEF TypeOK

LEMMA StartTypes ==
  ASSUME Sane, HistoryTyped, StartEgress \/ StartRecords \/ StartCreatesRow \/ \E r \in Rooms : RequestStart(r)
  PROVE  TypeOK'
<1> USE DEF Sane, HistoryTyped
<1>1. ASSUME NEW r \in Rooms, RequestStart(r) PROVE TypeOK'
  <2>1. starting' \in [pc : {"idle", "egress", "record", "row"},
                       room : Rooms \cup {None}, rec : Recs \cup {None}]
    BY <1>1, RestIs DEF RequestStart
  <2> QED BY <1>1, <2>1 DEF RequestStart, TypeOK, livekit, memory, reconciling
<1>2. CASE StartEgress
  <2>1. CASE starting' = Rest /\ UNCHANGED <<egress, roomOf>>
    BY <1>2, <2>1, RestIs DEF StartEgress, TypeOK, memory, reconciling
  <2>2. ASSUME NEW e \in Recs, EgressStarts(e, starting.room),
               starting' = Rest \/ starting' = [starting EXCEPT !.pc = "record", !.rec = e]
        PROVE  TypeOK'
    <3>1. starting.room \in Rooms /\ starting.room # None
      BY <1>2, RecordingAssumption DEF StartEgress, Starting
    <3>2. \A d \in Recs : /\ egress'[d] = IF d = e THEN "running" ELSE egress[d]
                          /\ roomOf'[d] = IF d = e THEN starting.room ELSE roomOf[d]
      BY <2>2 DEF EgressStarts, TypeOK
    <3>3. \A d \in Recs : egress'[d] = "none" <=> roomOf'[d] = None
      BY <3>1, <3>2 DEF TypeOK
    <3>4. /\ egress' \in [Recs -> {"none", "running", "ended"}]
          /\ roomOf' \in [Recs -> Rooms \cup {None}]
      BY <2>2, <3>1 DEF EgressStarts, TypeOK
    <3>5. /\ starting' \in [pc : {"idle", "egress", "record", "row"},
                            room : Rooms \cup {None}, rec : Recs \cup {None}]
          /\ starting'.pc \in {"record", "row"} => starting'.rec \in Recs
      BY <2>2, RestIs DEF TypeOK
    <3> QED BY <1>2, <3>3, <3>4, <3>5 DEF StartEgress, TypeOK, memory, reconciling
  <2> QED BY <1>2, <2>1, <2>2 DEF StartEgress
<1>3. CASE StartRecords
  <2>1. starting.rec \in Recs
    BY <1>3 DEF StartRecords, Starting
  <2>2. activeRecs' \in [Rooms -> Recs \cup {None}]
    BY <1>3, <2>1 DEF StartRecords, TypeOK
  <2>3. /\ starting' \in [pc : {"idle", "egress", "record", "row"},
                          room : Rooms \cup {None}, rec : Recs \cup {None}]
        /\ starting'.rec \in Recs
    BY <1>3, <2>1 DEF StartRecords, TypeOK
  <2> QED BY <1>3, <2>2, <2>3 DEF StartRecords, TypeOK, livekit, reconciling
<1>4. CASE StartCreatesRow
  <2>1. rows' \in [Recs -> Rows]
    <3>1. CASE UNCHANGED rows
      BY <3>1 DEF TypeOK
    <3>2. CASE rows' = [rows EXCEPT ![starting.rec].status = "active"]
      <4>1. starting.rec \in Recs
        BY <1>4 DEF StartCreatesRow, Starting
      <4> QED BY <3>2, <4>1, RowIsCreated
    <3> QED BY <1>4, <3>1, <3>2 DEF StartCreatesRow
  <2> QED BY <1>4, <2>1, RestIs DEF StartCreatesRow, TypeOK, livekit, memory, reconciling
<1> QED BY <1>1, <1>2, <1>3, <1>4

LEMMA TickTypes ==
  ASSUME Sane, HistoryTyped,
         TickNotes \/ TickTimes \/ TickWaits \/ TickStops \/ \E r \in Rooms : TickLooks(r)
  PROVE  TypeOK'
<1> USE DEF Sane, HistoryTyped
<1> DEFINE auto == stopping["auto"]
<1>1. auto \in StopStates /\ (auto.pc # "idle" => auto.room \in Rooms)
  BY RecordingsAre DEF TypeOK, StopStates, Stopping
<1>2. ASSUME NEW s \in StopStates, stopping' = [stopping EXCEPT !["auto"] = s]
      PROVE  stopping' \in [Stoppers -> StopStates]
  BY <1>2, RecordingsAre, StopperGoes
<1>3. stopping' \in [Stoppers -> StopStates]
  <2>1. CASE TickNotes \/ TickWaits
    BY <1>2, <2>1, RestIs DEF TickNotes, TickWaits
  <2>2. CASE TickTimes
    <3>1. [auto EXCEPT !.pc = "elapsed"] \in StopStates
      BY <1>1 DEF StopStates
    <3> QED BY <1>2, <2>2, <3>1 DEF TickTimes
  <2>3. CASE TickStops
    <3>1. CASE activeRecs[auto.room] = None
      BY <1>2, <2>3, <3>1, RestIs DEF TickStops
    <3>2. CASE activeRecs[auto.room] # None
      <4>1. activeRecs[auto.room] \in Recs
        BY <1>1, <2>3, <3>2 DEF TickStops, TypeOK
      <4>2. [pc |-> "stop", room |-> auto.room, rec |-> activeRecs[auto.room]] \in StopStates
        BY <1>1, <4>1 DEF StopStates
      <4> QED BY <1>2, <2>3, <3>2, <4>2 DEF TickStops
    <3> QED BY <3>1, <3>2
  <2>4. ASSUME NEW r \in Rooms, TickLooks(r) PROVE stopping' \in [Stoppers -> StopStates]
    <3>1. [Rest EXCEPT !.pc = IF people[r] THEN "occupied" ELSE "empty", !.room = r] \in StopStates
      BY RestIs DEF StopStates
    <3> QED BY <1>2, <2>4, <3>1 DEF TickLooks
  <2> QED BY <2>1, <2>2, <2>3, <2>4
<1>4. emptySince' \subseteq Rooms
  BY <1>1 DEF TickNotes, TickTimes, TickWaits, TickStops, TickLooks, memory, TypeOK
<1>5. CASE TickNotes
  BY <1>3, <1>4, <1>5 DEF TickNotes, TypeOK, StopStates, livekit, reconciling
<1>6. CASE TickTimes \/ TickWaits \/ TickStops \/ \E r \in Rooms : TickLooks(r)
  <2>1. UNCHANGED <<livekit, rows, memory, starting, reconciling, jobs, limit>>
    BY <1>6 DEF TickTimes, TickWaits, TickStops, TickLooks
  <2> QED BY <1>3, <2>1 DEF TypeOK, StopStates, livekit, memory, reconciling
<1> QED BY <1>5, <1>6

LEMMA StopTypes ==
  ASSUME Sane, HistoryTyped,
         \/ \E w \in Requests, r \in Rooms : RequestStop(w, r)
         \/ \E w \in Stoppers : StopsEgress(w) \/ StopForgets(w) \/ StopCompletes(w) \/ StopExtracts(w)
  PROVE  TypeOK'
<1> USE DEF Sane, HistoryTyped
<1>1. ASSUME NEW w \in Requests, NEW r \in Rooms, RequestStop(w, r) PROVE TypeOK'
  <2>1. [pc |-> "stop", room |-> r, rec |-> activeRecs[r]] \in StopStates
    BY <1>1 DEF RequestStop, TypeOK, StopStates
  <2>2. w \in Stoppers
    BY RecordingsAre
  <2>3. stopping' \in [Stoppers -> StopStates]
    BY <1>1, <2>1, <2>2, StopperGoes DEF RequestStop
  <2> QED BY <1>1, <2>3 DEF RequestStop, TypeOK, StopStates, livekit, memory, reconciling
<1>2. ASSUME NEW w \in Stoppers, StopsEgress(w) PROVE TypeOK'
  <2>1. stopping[w].rec \in Recs /\ egress[stopping[w].rec] # "none"
    BY <1>2 DEF StopsEgress, Stopping, Busy
  <2>2. /\ egress' \in [Recs -> {"none", "running", "ended"}]
        /\ \A d \in Recs : egress'[d] = "none" <=> roomOf[d] = None
    BY <1>2, <2>1, EgressEnds DEF StopsEgress, EndsEgress, TypeOK
  <2>3. stopping' \in [Stoppers -> StopStates]
    BY <1>2 DEF StopsEgress, TypeOK, StopStates
  <2> QED BY <1>2, <2>2, <2>3 DEF StopsEgress, TypeOK, StopStates, memory, reconciling
<1>3. ASSUME NEW w \in Stoppers, StopForgets(w) PROVE TypeOK'
  <2>1. stopping' \in [Stoppers -> StopStates]
    BY <1>3 DEF StopForgets, TypeOK, StopStates
  <2>2. activeRecs' \in [Rooms -> Recs \cup {None}] /\ emptySince' \subseteq Rooms
    BY <1>3 DEF StopForgets, TypeOK
  <2> QED BY <1>3, <2>1, <2>2 DEF StopForgets, TypeOK, StopStates, livekit, reconciling
<1>4. ASSUME NEW w \in Stoppers, StopCompletes(w) PROVE TypeOK'
  <2> DEFINE e == stopping[w].rec
  <2>1. e \in Recs
    BY <1>4 DEF StopCompletes, Stopping, Busy
  <2>2. Updated(e, [rows[e] EXCEPT !.status = "completed"]) \/ UNCHANGED rows
    BY <1>4 DEF StopCompletes, Settle
  <2>3. rows' \in [Recs -> Rows]
    BY <2>1, <2>2, StatusUpdate
  <2>4. (IF e \in Mp4 THEN [stopping[w] EXCEPT !.pc = "extract"] ELSE Rest) \in StopStates
    BY RestIs, StopperSteps
  <2>5. stopping' \in [Stoppers -> StopStates]
    BY <1>4, <2>4, StopperGoes DEF StopCompletes
  <2> QED BY <1>4, <2>3, <2>5 DEF StopCompletes, TypeOK, StopStates, livekit, memory, reconciling
<1>5. ASSUME NEW w \in Stoppers, StopExtracts(w) PROVE TypeOK'
  <2> DEFINE e == stopping[w].rec
  <2>1. e \in Recs
    BY <1>5 DEF StopExtracts, Stopping, Busy
  <2>2. Update(e, [rows[e] EXCEPT !.audio = "pending"])
    BY <1>5 DEF StopExtracts
  <2>3. rows' \in [Recs -> Rows]
    BY <2>1, <2>2, AudioUpdate
  <2>4. stopping' \in [Stoppers -> StopStates]
    BY <1>5, RestIs, StopperGoes DEF StopExtracts
  <2>5. jobs' \in [Jobs -> {"none", "trying", "asleep", "running"}]
    BY <1>5 DEF StopExtracts, TypeOK
  <2> QED
    BY <1>5, <2>3, <2>4, <2>5 DEF StopExtracts, TypeOK, StopStates, livekit, memory, reconciling
<1> QED BY <1>1, <1>2, <1>3, <1>4, <1>5

LEMMA ExtractionTypes ==
  ASSUME Sane, HistoryTyped,
         \/ \E j \in Jobs : Acquire(j) \/ ExtractAudio(j) \/ ExtractThumbnail(j)
         \/ \E n \in 0..MaxLimit : SetLimit(n)
         \/ \E e \in Recs : Backfill(e)
  PROVE  TypeOK'
<1> USE DEF Sane, HistoryTyped
<1> DEFINE JobStates == {"none", "trying", "asleep", "running"}
<1>1. ASSUME NEW j \in Jobs, Acquire(j) PROVE TypeOK'
  <2>1. jobs' \in [Jobs -> JobStates]
    BY <1>1 DEF Acquire, TypeOK
  <2> QED BY <1>1, <2>1 DEF Acquire, TypeOK, livekit, memory, reconciling
<1>2. ASSUME NEW j \in Jobs, Release(j) PROVE jobs' \in [Jobs -> JobStates]
  <2>1. CASE jobs' = [jobs EXCEPT ![j] = "none"]
    BY <2>1 DEF TypeOK
  <2>2. ASSUME NEW k \in Jobs, jobs' = [jobs EXCEPT ![j] = "none", ![k] = "trying"]
        PROVE  jobs' \in [Jobs -> JobStates]
    BY <2>2 DEF TypeOK
  <2> QED BY <1>2, <2>1, <2>2 DEF Release
<1>3. ASSUME NEW j \in Jobs, ExtractAudio(j) PROVE TypeOK'
  <2>1. j[1] \in Recs
    BY JobsAre
  <2>2. PICK a \in {"ok", "failed"} : Update(j[1], [rows[j[1]] EXCEPT !.audio = a])
    BY <1>3 DEF ExtractAudio
  <2>3. rows' \in [Recs -> Rows]
    BY <2>1, <2>2, AudioUpdate
  <2>4. jobs' \in [Jobs -> JobStates]
    BY <1>2, <1>3 DEF ExtractAudio
  <2> QED BY <1>3, <2>3, <2>4 DEF ExtractAudio, TypeOK, livekit, memory, reconciling
<1>4. ASSUME NEW j \in Jobs, ExtractThumbnail(j) PROVE TypeOK'
  <2>1. jobs' \in [Jobs -> JobStates]
    BY <1>2, <1>4 DEF ExtractThumbnail
  <2> QED BY <1>4, <2>1 DEF ExtractThumbnail, TypeOK, livekit, memory, reconciling
<1>5. ASSUME NEW n \in 0..MaxLimit, SetLimit(n) PROVE TypeOK'
  <2>1. limit' \in 1..MaxLimit
    BY <1>5, RecordingAssumption DEF SetLimit, Concurrency, AtLeastOne
  <2>2. jobs' \in [Jobs -> JobStates]
    BY <1>5 DEF SetLimit, TypeOK
  <2> QED BY <1>5, <2>1, <2>2 DEF SetLimit, TypeOK, livekit, memory, reconciling
<1>6. ASSUME NEW e \in Recs, Backfill(e) PROVE TypeOK'
  <2>1. jobs' \in [Jobs -> JobStates]
    BY <1>6 DEF Backfill, TypeOK
  <2> QED BY <1>6, <2>1 DEF Backfill, TypeOK, livekit, memory, reconciling
<1> QED BY <1>1, <1>3, <1>4, <1>5, <1>6

LEMMA ReconcileTypes ==
  ASSUME Sane, HistoryTyped,
         \/ ReconcileListsRows \/ ReconcileListsEgresses \/ ReconcileFails \/ Reconcile
         \/ \E e \in Recs : MarkError(e) \/ StopOrphan(e)
  PROVE  TypeOK'
<1> USE DEF Sane, HistoryTyped
<1>1. CASE ReconcileListsRows
  <2>1. reconcile' \in [pc : {"start", "rows", "egresses", "done"}, rows : SUBSET Recs, egresses : SUBSET Recs]
    BY <1>1 DEF ReconcileListsRows, ListActive, TypeOK
  <2> QED BY <1>1, <2>1 DEF ReconcileListsRows, TypeOK, livekit, memory
<1>2. CASE ReconcileListsEgresses
  <2>1. reconcile' \in [pc : {"start", "rows", "egresses", "done"}, rows : SUBSET Recs, egresses : SUBSET Recs]
    BY <1>2 DEF ReconcileListsEgresses, Running, TypeOK
  <2> QED BY <1>2, <2>1 DEF ReconcileListsEgresses, TypeOK, livekit, memory
<1>3. CASE Reconcile
  <2>1. \A r \in Rooms : Restored(r) \in Recs \cup {None}
    BY RestoredIs DEF TypeOK
  <2>2. activeRecs' \in [Rooms -> Recs \cup {None}]
    BY <1>3, <2>1 DEF Reconcile
  <2>3. reconcile' \in [pc : {"start", "rows", "egresses", "done"}, rows : SUBSET Recs, egresses : SUBSET Recs]
    BY <1>3 DEF Reconcile, NotYet
  <2>4. toMark' \subseteq Recs /\ toStop' \subseteq Recs
    BY <1>3 DEF Reconcile, Orphans, TypeOK
  <2> QED BY <1>3, <2>2, <2>3, <2>4 DEF Reconcile, TypeOK, livekit
<1>4. ASSUME NEW e \in Recs, MarkError(e) PROVE TypeOK'
  <2>1. Updated(e, [rows[e] EXCEPT !.status = "error"]) \/ UNCHANGED rows
    BY <1>4 DEF MarkError, Settle
  <2>2. rows' \in [Recs -> Rows]
    BY <2>1, StatusUpdate
  <2> QED BY <1>4, <2>2 DEF MarkError, TypeOK, livekit, memory
<1>5. ASSUME NEW e \in Recs, StopOrphan(e) PROVE TypeOK'
  <2>1. egress[e] # "none"
    BY <1>5 DEF StopOrphan, Known
  <2>2. /\ egress' \in [Recs -> {"none", "running", "ended"}]
        /\ \A d \in Recs : egress'[d] = "none" <=> roomOf[d] = None
    BY <1>5, <2>1, EgressEnds DEF StopOrphan, EndsEgress, TypeOK
  <2> QED BY <1>5, <2>2 DEF StopOrphan, TypeOK, memory
<1>6. CASE ReconcileFails
  <2>1. reconcile' \in [pc : {"start", "rows", "egresses", "done"}, rows : SUBSET Recs, egresses : SUBSET Recs]
    BY <1>6 DEF ReconcileFails, NotYet
  <2> QED BY <1>6, <2>1 DEF ReconcileFails, TypeOK, livekit, memory
<1> QED BY <1>1, <1>2, <1>3, <1>4, <1>5, <1>6

LEMMA AdminTypes ==
  ASSUME Sane, HistoryTyped, NEW e \in Recs, Delete(e)
  PROVE  TypeOK'
<1> USE DEF Sane, HistoryTyped
<1>1. NoRow \in Rows
  BY DEF NoRow, Rows
<1>2. rows' \in [Recs -> Rows]
  BY <1>1, OneRow DEF Delete
<1> QED BY <1>2 DEF Delete, TypeOK, livekit, memory, reconciling

LEMMA TypesKept == Sane /\ [Next]_vars => TypeOK'
<1> SUFFICES ASSUME Sane, [Next]_vars PROVE TypeOK'
  OBVIOUS
<1>0. HistoryTyped
  BY HistoryTypes
<1> USE DEF Sane, HistoryTyped
<1>1. CASE StartEgress \/ StartRecords \/ StartCreatesRow \/ \E r \in Rooms : RequestStart(r)
  BY <1>0, <1>1, StartTypes
<1>2. CASE TickNotes \/ TickTimes \/ TickWaits \/ TickStops \/ \E r \in Rooms : TickLooks(r)
  BY <1>0, <1>2, TickTypes
<1>3. CASE \/ \E w \in Requests, r \in Rooms : RequestStop(w, r)
           \/ \E w \in Stoppers : StopsEgress(w) \/ StopForgets(w) \/ StopCompletes(w) \/ StopExtracts(w)
  BY <1>0, <1>3, StopTypes
<1>4. CASE \/ \E j \in Jobs : Acquire(j) \/ ExtractAudio(j) \/ ExtractThumbnail(j)
           \/ \E n \in 0..MaxLimit : SetLimit(n)
           \/ \E e \in Recs : Backfill(e)
  BY <1>0, <1>4, ExtractionTypes
<1>5. CASE \/ ReconcileListsRows \/ ReconcileListsEgresses \/ ReconcileFails \/ Reconcile
           \/ \E e \in Recs : MarkError(e) \/ StopOrphan(e)
  BY <1>0, <1>5, ReconcileTypes
<1>6. CASE \E e \in Recs : Delete(e)
  BY <1>0, <1>6, AdminTypes
<1>7. CASE Crash
  <2>1. /\ activeRecs' \in [Rooms -> Recs \cup {None}] /\ emptySince' \subseteq Rooms
        /\ starting' = Rest /\ stopping' \in [Stoppers -> StopStates]
        /\ toMark' = {} /\ toStop' = {} /\ jobs' \in [Jobs -> {"none", "trying", "asleep", "running"}]
        /\ reconcile' \in [pc : {"start", "rows", "egresses", "done"}, rows : SUBSET Recs, egresses : SUBSET Recs]
    BY <1>7, RestIs, RecordingAssumption DEF Crash, NotYet, TypeOK
  <2> QED BY <1>0, <1>7, <2>1, RestIs DEF Crash, TypeOK, StopStates, livekit
<1>8. ASSUME NEW e \in Recs, EgressDies(e) PROVE TypeOK'
  <2>1. /\ egress' \in [Recs -> {"none", "running", "ended"}]
        /\ \A d \in Recs : egress'[d] = "none" <=> roomOf[d] = None
    BY <1>8, EgressEnds DEF EgressDies
  <2> QED BY <1>0, <1>8, <2>1 DEF EgressDies, TypeOK, memory, reconciling
<1>9. ASSUME NEW r \in Rooms, PeopleChange(r) PROVE TypeOK'
  <2>1. people' \in [Rooms -> BOOLEAN]
    BY <1>9 DEF PeopleChange, TypeOK
  <2> QED BY <1>0, <1>9, <2>1 DEF PeopleChange, TypeOK, memory, reconciling
<1>10. CASE UNCHANGED vars
  BY <1>0, <1>10 DEF vars, TypeOK
<1> QED
  BY <1>1, <1>2, <1>3, <1>4, <1>5, <1>6, <1>7, <1>8, <1>9, <1>10 DEF Next

-----------------------------------------------------------------------------
(* What a step does to an egress, a row, and each of the goroutines *)


\* Who changes what.
LEMMA Touches ==
  ASSUME [Next]_vars
  PROVE  /\ \/ UNCHANGED starting
            \/ StartEgress \/ StartRecords \/ StartCreatesRow \/ Crash
            \/ \E r \in Rooms : RequestStart(r)
         /\ \/ UNCHANGED stopping
            \/ TickNotes \/ TickTimes \/ TickWaits \/ TickStops \/ Crash
            \/ \E r \in Rooms : TickLooks(r)
            \/ \E w \in Requests, r \in Rooms : RequestStop(w, r)
            \/ \E w \in Stoppers : StopsEgress(w) \/ StopForgets(w) \/ StopCompletes(w) \/ StopExtracts(w)
         /\ \/ UNCHANGED activeRecs
            \/ StartRecords \/ Reconcile \/ Crash \/ \E w \in Stoppers : StopForgets(w)
         /\ \/ UNCHANGED reconcile
            \/ ReconcileListsRows \/ ReconcileListsEgresses \/ ReconcileFails \/ Reconcile \/ Crash
         /\ \/ UNCHANGED toMark \/ Reconcile \/ Crash \/ \E e \in Recs : MarkError(e)
         /\ \/ UNCHANGED toStop \/ Reconcile \/ Crash \/ \E e \in Recs : StopOrphan(e)
         /\ \/ UNCHANGED <<egress, roomOf>>
            \/ StartEgress \/ \E w \in Stoppers : StopsEgress(w)
            \/ \E e \in Recs : StopOrphan(e) \/ EgressDies(e)
         /\ \/ UNCHANGED rows
            \/ StartCreatesRow
            \/ \E w \in Stoppers : StopCompletes(w) \/ StopExtracts(w)
            \/ \E j \in Jobs : ExtractAudio(j)
            \/ \E e \in Recs : MarkError(e) \/ Delete(e)
         /\ \/ UNCHANGED jobs
            \/ Crash \/ \E w \in Stoppers : StopExtracts(w)
            \/ \E j \in Jobs : Acquire(j) \/ ExtractAudio(j) \/ ExtractThumbnail(j)
            \/ \E n \in 0..MaxLimit : SetLimit(n)
            \/ \E e \in Recs : Backfill(e)
<1>1. CASE \/ StartEgress \/ StartRecords \/ StartCreatesRow \/ \E r \in Rooms : RequestStart(r)
  BY <1>1 DEF StartEgress, StartRecords, StartCreatesRow, RequestStart, livekit, memory, reconciling
<1>2. CASE TickNotes \/ TickTimes \/ TickWaits \/ TickStops \/ \E r \in Rooms : TickLooks(r)
  BY <1>2 DEF TickNotes, TickTimes, TickWaits, TickStops, TickLooks, livekit, memory, reconciling
<1>3. CASE \/ \E w \in Requests, r \in Rooms : RequestStop(w, r)
           \/ \E w \in Stoppers : StopsEgress(w) \/ StopForgets(w) \/ StopCompletes(w) \/ StopExtracts(w)
  BY <1>3 DEF RequestStop, StopsEgress, StopForgets, StopCompletes, StopExtracts, livekit,
    memory, reconciling
<1>4. CASE \/ \E j \in Jobs : Acquire(j) \/ ExtractAudio(j) \/ ExtractThumbnail(j)
           \/ \E n \in 0..MaxLimit : SetLimit(n)
           \/ \E e \in Recs : Backfill(e)
  BY <1>4 DEF Acquire, ExtractAudio, ExtractThumbnail, SetLimit, Backfill, livekit, memory, reconciling
<1>5. CASE \/ ReconcileListsRows \/ ReconcileListsEgresses \/ ReconcileFails \/ Reconcile
           \/ \E e \in Recs : MarkError(e) \/ StopOrphan(e)
  BY <1>5 DEF ReconcileListsRows, ReconcileListsEgresses, ReconcileFails, Reconcile, MarkError, StopOrphan,
    livekit, memory, reconciling
<1>6. CASE \E e \in Recs : Delete(e)
  BY <1>6 DEF Delete, livekit, memory, reconciling
<1>7. CASE Crash
  BY <1>7 DEF Crash, livekit
<1>8. CASE \/ \E e \in Recs : EgressDies(e)
           \/ \E r \in Rooms : PeopleChange(r)
           \/ UNCHANGED vars
  BY <1>8 DEF EgressDies, PeopleChange, vars, memory, reconciling
<1> QED
  BY <1>1, <1>2, <1>3, <1>4, <1>5, <1>6, <1>7, <1>8 DEF Next

\* An egress starts once, in the room of its request, and ends for good.
LEMMA EgressStep ==
  ASSUME Sane, [Next]_vars, NEW e \in Recs
  PROVE  /\ egress[e] # "none" => egress'[e] # "none" /\ roomOf'[e] = roomOf[e]
         /\ egress[e] = "ended" => egress'[e] = "ended"
         /\ egress'[e] = "running" /\ egress[e] # "running" =>
              StartEgress /\ (Registering(e)' \/ e \in lost')
<1> USE DEF Sane
<1>1. CASE UNCHANGED <<egress, roomOf>>
  BY <1>1
<1>2. ASSUME StartEgress, NEW d \in Recs, EgressStarts(d, starting.room),
             \/ starting' = [starting EXCEPT !.pc = "record", !.rec = d]
             \/ starting' = Rest /\ lost' = lost \cup {d}
      PROVE  /\ egress[e] # "none" => egress'[e] # "none" /\ roomOf'[e] = roomOf[e]
             /\ egress[e] = "ended" => egress'[e] = "ended"
             /\ egress'[e] = "running" /\ egress[e] # "running" =>
                  StartEgress /\ (Registering(e)' \/ e \in lost')
  <2>1. /\ egress'[e] = IF e = d THEN "running" ELSE egress[e]
        /\ roomOf'[e] = IF e = d THEN starting.room ELSE roomOf[e]
        /\ egress[d] = "none"
    BY <1>2 DEF EgressStarts, TypeOK
  <2>2. Registering(d)' \/ d \in lost'
    BY <1>2 DEF Registering, TypeOK
  <2> QED BY <1>2, <2>1, <2>2
<1>3. ASSUME NEW d \in Recs, egress[d] # "none", egress' = [egress EXCEPT ![d] = "ended"],
             UNCHANGED roomOf
      PROVE  /\ egress[e] # "none" => egress'[e] # "none" /\ roomOf'[e] = roomOf[e]
             /\ egress[e] = "ended" => egress'[e] = "ended"
             /\ egress'[e] = "running" => egress[e] = "running"
  <2>1. egress'[e] = IF e = d THEN "ended" ELSE egress[e]
    BY <1>3, EgressEnds
  <2> QED BY <1>3, <2>1
<1>4. ASSUME NEW w \in Stoppers, StopsEgress(w)
      PROVE  \/ UNCHANGED <<egress, roomOf>>
             \/ \E d \in Recs : /\ egress[d] # "none" /\ egress' = [egress EXCEPT ![d] = "ended"]
                                /\ UNCHANGED roomOf
  BY <1>4 DEF StopsEgress, EndsEgress, Stopping, Busy
<1>5. ASSUME NEW d \in Recs, StopOrphan(d) \/ EgressDies(d)
      PROVE  \/ UNCHANGED <<egress, roomOf>>
             \/ \E c \in Recs : /\ egress[c] # "none" /\ egress' = [egress EXCEPT ![c] = "ended"]
                                /\ UNCHANGED roomOf
  BY <1>5 DEF StopOrphan, EndsEgress, EgressDies, Known
<1>6. ASSUME StartEgress
      PROVE  \/ UNCHANGED <<egress, roomOf>>
             \/ \E d \in Recs :
                  /\ EgressStarts(d, starting.room)
                  /\ \/ starting' = [starting EXCEPT !.pc = "record", !.rec = d]
                     \/ starting' = Rest /\ lost' = lost \cup {d}
  BY <1>6 DEF StartEgress
<1> QED BY <1>1, <1>2, <1>3, <1>4, <1>5, <1>6, Touches

\* A row is created by recording.start only, completed by stopRecording and
\* marked by the reconciliation; its audio_status follows the extraction.
LEMMA RowStep ==
  ASSUME Sane, [Next]_vars, NEW e \in Recs
  PROVE  /\ \/ rows'[e].status = rows[e].status
            \/ rows'[e] = NoRow
            \/ StartCreatesRow /\ e = starting.rec /\ rows'[e].status = "active"
            \/ /\ rows[e].status # "none" /\ rows'[e].status = "completed"
               /\ \E w \in Stoppers : StopCompletes(w) /\ stopping[w].rec = e
            \/ rows[e].status # "none" /\ rows'[e].status = "error" /\ MarkError(e)
         /\ \/ rows'[e].audio = rows[e].audio
            \/ rows'[e] = NoRow
            \/ /\ rows[e].status # "none" /\ rows'[e].audio = "pending"
               /\ \E w \in Stoppers : StopExtracts(w) /\ stopping[w].rec = e
            \/ /\ rows[e].status # "none" /\ rows'[e].audio \in {"ok", "failed"}
               /\ rows'[e].audio = "ok" => e \in Written
               /\ \E j \in Jobs : ExtractAudio(j) /\ j[1] = e
         /\ rows[e].status = "none" /\ rows'[e].status = "none" => rows'[e] \in {rows[e], NoRow}
<1> USE DEF Sane
<1> DEFINE Goal == 
      /\ \/ rows'[e].status = rows[e].status
         \/ rows'[e] = NoRow
         \/ StartCreatesRow /\ e = starting.rec /\ rows'[e].status = "active"
         \/ /\ rows[e].status # "none" /\ rows'[e].status = "completed"
            /\ \E w \in Stoppers : StopCompletes(w) /\ stopping[w].rec = e
         \/ rows[e].status # "none" /\ rows'[e].status = "error" /\ MarkError(e)
      /\ \/ rows'[e].audio = rows[e].audio
         \/ rows'[e] = NoRow
         \/ /\ rows[e].status # "none" /\ rows'[e].audio = "pending"
            /\ \E w \in Stoppers : StopExtracts(w) /\ stopping[w].rec = e
         \/ /\ rows[e].status # "none" /\ rows'[e].audio \in {"ok", "failed"}
            /\ rows'[e].audio = "ok" => e \in Written
            /\ \E j \in Jobs : ExtractAudio(j) /\ j[1] = e
      /\ rows[e].status = "none" /\ rows'[e].status = "none" => rows'[e] \in {rows[e], NoRow}
<1>1. rows[e] \in Rows /\ (rows'[e] = rows[e] => Goal) /\ (rows'[e] = NoRow => Goal)
  BY DEF TypeOK
<1>2. CASE StartCreatesRow
  <2>1. CASE rows' = [rows EXCEPT ![starting.rec].status = "active"]
    <3>1. starting.rec \in Recs
      BY <1>2 DEF StartCreatesRow, Starting
    <3> QED BY <1>1, <1>2, <2>1, <3>1, RowIsCreated
  <2> QED BY <1>1, <1>2, <2>1 DEF StartCreatesRow
<1>3. ASSUME NEW d \in Recs, rows' = [rows EXCEPT ![d] = NoRow] PROVE Goal
  <2>1. NoRow \in Rows
    BY DEF NoRow, Rows
  <2>2. rows'[e] = IF e = d THEN NoRow ELSE rows[e]
    BY <1>3, <2>1, OneRow
  <2> QED BY <1>1, <2>2
<1>4. CASE \E d \in Recs : Delete(d)
  BY <1>3, <1>4 DEF Delete
<1>5. ASSUME NEW w \in Stoppers, StopCompletes(w) PROVE Goal
  <2>1. stopping[w].rec \in Recs
    BY <1>5 DEF StopCompletes, Stopping, Busy
  <2>2. \/ Updated(stopping[w].rec, [rows[stopping[w].rec] EXCEPT !.status = "completed"])
        \/ UNCHANGED rows
    BY <1>5 DEF StopCompletes, Settle
  <2>3. \/ rows'[e] = rows[e]
        \/ /\ e = stopping[w].rec /\ rows[e].status # "none"
           /\ rows'[e].status = "completed" /\ rows'[e].audio = rows[e].audio
    BY <2>1, <2>2, StatusUpdate
  <2> QED BY <1>1, <1>5, <2>3
<1>6. ASSUME NEW w \in Stoppers, StopExtracts(w) PROVE Goal
  <2>1. stopping[w].rec \in Recs
    BY <1>6 DEF StopExtracts, Stopping, Busy
  <2>2. Update(stopping[w].rec, [rows[stopping[w].rec] EXCEPT !.audio = "pending"])
    BY <1>6 DEF StopExtracts
  <2>3. \/ rows'[e] = rows[e]
        \/ /\ e = stopping[w].rec /\ rows[e].status # "none"
           /\ rows'[e].status = rows[e].status /\ rows'[e].audio = "pending"
    BY <2>1, <2>2, AudioUpdate
  <2> QED BY <1>1, <1>6, <2>3
<1>7. ASSUME NEW j \in Jobs, ExtractAudio(j) PROVE Goal
  <2>1. j[1] \in Recs
    BY JobsAre
  <2>2. PICK a \in {"ok", "failed"} :
          Update(j[1], [rows[j[1]] EXCEPT !.audio = a]) /\ (a = "ok" => j[1] \in Written)
    BY <1>7 DEF ExtractAudio
  <2>3. \/ rows'[e] = rows[e]
        \/ /\ e = j[1] /\ rows[e].status # "none"
           /\ rows'[e].status = rows[e].status /\ rows'[e].audio = a
    BY <2>1, <2>2, AudioUpdate
  <2>4. a = "ok" => j[1] \in Written
    BY <2>2
  <2> QED BY <1>1, <1>7, <2>3, <2>4
<1>9. ASSUME NEW d \in Recs, MarkError(d) PROVE Goal
  <2>1. Updated(d, [rows[d] EXCEPT !.status = "error"]) \/ UNCHANGED rows
    BY <1>9 DEF MarkError, Settle
  <2>2. \/ rows'[e] = rows[e]
        \/ /\ e = d /\ rows[e].status # "none"
           /\ rows'[e].status = "error" /\ rows'[e].audio = rows[e].audio
    BY <2>1, StatusUpdate
  <2> QED BY <1>1, <1>9, <2>2
<1>10. CASE UNCHANGED rows
  BY <1>1, <1>10
<1> QED
  <2>1. Goal
    BY <1>2, <1>4, <1>5, <1>6, <1>7, <1>9, <1>10, Touches
  <2> QED BY <2>1

\* How recording.start proceeds.
LEMMA StartingStep ==
  ASSUME Sane, [Next]_vars
  PROVE  \/ starting' = starting
         \/ starting' = Rest
         \/ /\ starting'.pc = "egress"
            /\ \E r \in Rooms : RequestStart(r) /\ starting'.room = r
         \/ /\ StartEgress /\ starting.pc = "egress" /\ starting'.pc = "record"
            /\ starting'.room = starting.room
            /\ starting'.rec \in Recs /\ egress[starting'.rec] = "none"
            /\ egress'[starting'.rec] = "running" /\ roomOf'[starting'.rec] = starting.room
         \/ /\ StartRecords /\ starting.pc = "record" /\ starting'.pc = "row"
            /\ starting'.room = starting.room /\ starting'.rec = starting.rec
<1> USE DEF Sane
<1>1. ASSUME NEW r \in Rooms, RequestStart(r) PROVE starting'.pc = "egress" /\ starting'.room = r
  BY <1>1 DEF RequestStart, Rest
<1>2. ASSUME StartEgress, starting' # Rest
      PROVE  /\ starting.pc = "egress" /\ starting'.pc = "record"
             /\ starting'.room = starting.room
             /\ starting'.rec \in Recs /\ egress[starting'.rec] = "none"
             /\ egress'[starting'.rec] = "running" /\ roomOf'[starting'.rec] = starting.room
  <2>1. PICK e \in Recs : /\ egress[e] = "none"
                          /\ egress' = [egress EXCEPT ![e] = "running"]
                          /\ roomOf' = [roomOf EXCEPT ![e] = starting.room]
                          /\ contested' = IF reconcile.pc = "done" THEN contested ELSE contested \cup {e}
                          /\ starting' = [starting EXCEPT !.pc = "record", !.rec = e]
    BY <1>2 DEF StartEgress, EgressStarts
  <2>2. starting'.pc = "record" /\ starting'.rec = e /\ starting'.room = starting.room
    BY <2>1 DEF TypeOK
  <2>3. egress'[e] = "running" /\ roomOf'[e] = starting.room
    BY <2>1 DEF TypeOK
  <2> QED BY <1>2, <2>1, <2>2, <2>3 DEF StartEgress
<1>3. ASSUME StartRecords
      PROVE  /\ starting.pc = "record" /\ starting'.pc = "row"
             /\ starting'.room = starting.room /\ starting'.rec = starting.rec
  BY <1>3 DEF StartRecords, TypeOK
<1>4. StartCreatesRow \/ Crash => starting' = Rest
  BY DEF StartCreatesRow, Crash
<1> QED BY <1>1, <1>2, <1>3, <1>4, Touches

\* How a caller of stopRecording proceeds.
LEMMA StopperStep ==
  ASSUME Sane, [Next]_vars, NEW w \in Stoppers
  PROVE  \/ stopping'[w] = stopping[w]
         \/ stopping'[w] = Rest
         \/ /\ ~Busy(w)' /\ stopping'[w].room \in Rooms /\ stopping'[w].rec = None
            /\ TickTimes \/ \E r \in Rooms : TickLooks(r)
         \/ /\ ~Busy(w) /\ stopping'[w].pc = "stop" /\ stopping'[w].room \in Rooms
            /\ stopping'[w].rec = activeRecs[stopping'[w].room] /\ stopping'[w].rec \in Recs
            /\ Contest(stopping'[w].rec)
            /\ TickStops \/ \E r \in Rooms : RequestStop(w, r)
            /\ \A v \in Stoppers : v # w => stopping'[v] = stopping[v]
         \/ /\ StopsEgress(w) /\ stopping[w].pc = "stop" /\ stopping'[w].pc = "forget"
            /\ stopping'[w].room = stopping[w].room /\ stopping'[w].rec = stopping[w].rec
         \/ /\ StopForgets(w) /\ stopping[w].pc = "forget" /\ stopping'[w].pc = "complete"
            /\ stopping'[w].room = stopping[w].room /\ stopping'[w].rec = stopping[w].rec
         \/ /\ StopCompletes(w) /\ stopping[w].pc = "complete" /\ stopping'[w].pc = "extract"
            /\ stopping'[w].room = stopping[w].room /\ stopping'[w].rec = stopping[w].rec
            /\ stopping[w].rec \in Mp4
<1> USE DEF Sane
<1> DEFINE Goal ==
         \/ stopping'[w] = stopping[w]
         \/ stopping'[w] = Rest
         \/ /\ ~Busy(w)' /\ stopping'[w].room \in Rooms /\ stopping'[w].rec = None
            /\ TickTimes \/ \E r \in Rooms : TickLooks(r)
         \/ /\ ~Busy(w) /\ stopping'[w].pc = "stop" /\ stopping'[w].room \in Rooms
            /\ stopping'[w].rec = activeRecs[stopping'[w].room] /\ stopping'[w].rec \in Recs
            /\ Contest(stopping'[w].rec)
            /\ TickStops \/ \E r \in Rooms : RequestStop(w, r)
            /\ \A v \in Stoppers : v # w => stopping'[v] = stopping[v]
         \/ /\ StopsEgress(w) /\ stopping[w].pc = "stop" /\ stopping'[w].pc = "forget"
            /\ stopping'[w].room = stopping[w].room /\ stopping'[w].rec = stopping[w].rec
         \/ /\ StopForgets(w) /\ stopping[w].pc = "forget" /\ stopping'[w].pc = "complete"
            /\ stopping'[w].room = stopping[w].room /\ stopping'[w].rec = stopping[w].rec
         \/ /\ StopCompletes(w) /\ stopping[w].pc = "complete" /\ stopping'[w].pc = "extract"
            /\ stopping'[w].room = stopping[w].room /\ stopping'[w].rec = stopping[w].rec
            /\ stopping[w].rec \in Mp4
<1>1. /\ stopping'[w] = stopping[w] => Goal
      /\ stopping'[w] = Rest => Goal
  OBVIOUS
<1>2. ASSUME NEW v \in Stoppers, NEW s \in StopStates, stopping' = [stopping EXCEPT ![v] = s]
      PROVE  \A u \in Stoppers : stopping'[u] = IF u = v THEN s ELSE stopping[u]
  BY <1>2, StopperGoes
<1>3. stopping[w] \in StopStates /\ "auto" \in Stoppers /\ Rest \in StopStates
  BY RecordingsAre, RestIs DEF TypeOK, StopStates
<1>4. CASE TickNotes \/ TickWaits
  BY <1>1, <1>2, <1>3, <1>4 DEF TickNotes, TickWaits
<1>5. CASE TickTimes
  <2> DEFINE s == [stopping["auto"] EXCEPT !.pc = "elapsed"]
  <2>1. /\ s \in StopStates /\ s.pc = "elapsed" /\ s.room = stopping["auto"].room
        /\ s.rec = stopping["auto"].rec
    BY <1>3, StopperSteps
  <2>2. stopping["auto"].room \in Rooms /\ stopping["auto"].rec = None
    BY <1>3, <1>5 DEF TickTimes, Stopping, Busy
  <2>3. stopping' = [stopping EXCEPT !["auto"] = s]
    BY <1>5 DEF TickTimes
  <2> HIDE DEF s
  <2>4. stopping'[w] = IF w = "auto" THEN s ELSE stopping[w]
    BY <1>2, <1>3, <2>1, <2>3
  <2> QED BY <1>1, <1>5, <2>1, <2>2, <2>4 DEF Busy
<1>6. ASSUME NEW v \in Stoppers, NEW r \in Rooms, activeRecs[r] # None, Contest(activeRecs[r]), ~Busy(v),
             (v = "auto" /\ TickStops) \/ RequestStop(v, r),
             stopping' = [stopping EXCEPT ![v] = [pc |-> "stop", room |-> r, rec |-> activeRecs[r]]]
      PROVE  Goal
  <2> DEFINE s == [pc |-> "stop", room |-> r, rec |-> activeRecs[r]]
  <2>1. s \in StopStates /\ s.pc = "stop" /\ s.room = r /\ s.rec = activeRecs[r] /\ s.rec \in Recs
    BY <1>6 DEF StopStates, TypeOK
  <2> HIDE DEF s
  <2>2. \A u \in Stoppers : stopping'[u] = IF u = v THEN s ELSE stopping[u]
    BY <1>2, <1>6, <2>1 DEF s
  <2> QED BY <1>1, <1>6, <2>1, <2>2
<1>7. CASE TickStops
  <2> DEFINE r == stopping["auto"].room
  <2>1. r \in Rooms /\ ~Busy("auto")
    BY <1>3, <1>7 DEF TickStops, Stopping, Busy
  <2>2. CASE activeRecs[r] = None /\ stopping' = [stopping EXCEPT !["auto"] = Rest]
    BY <1>1, <1>2, <1>3, <2>2
  <2>3. CASE /\ activeRecs[r] # None /\ Contest(activeRecs[r])
             /\ stopping' = [stopping EXCEPT !["auto"] = [pc |-> "stop", room |-> r, rec |-> activeRecs[r]]]
    BY <1>3, <1>6, <1>7, <2>1, <2>3
  <2> QED BY <1>7, <2>2, <2>3 DEF TickStops
<1>8. ASSUME NEW r \in Rooms, TickLooks(r) PROVE Goal
  <2> DEFINE s == [Rest EXCEPT !.pc = IF people[r] THEN "occupied" ELSE "empty", !.room = r]
  <2>1. s \in StopStates /\ s.pc \in {"occupied", "empty"} /\ s.room = r /\ s.rec = None
    BY RestIs DEF StopStates, Rest
  <2>2. stopping' = [stopping EXCEPT !["auto"] = s]
    BY <1>8 DEF TickLooks
  <2> HIDE DEF s
  <2>3. stopping'[w] = IF w = "auto" THEN s ELSE stopping[w]
    BY <1>2, <1>3, <2>1, <2>2
  <2> QED BY <1>1, <1>8, <2>1, <2>3 DEF Busy
<1>9. ASSUME NEW v \in Requests, NEW r \in Rooms, RequestStop(v, r) PROVE Goal
  <2>1. v \in Stoppers
    BY RecordingsAre
  <2> QED BY <1>6, <1>9, <2>1 DEF RequestStop, Busy
<1>10. ASSUME NEW v \in Stoppers, StopsEgress(v) PROVE Goal
  <2> DEFINE s == [stopping[v] EXCEPT !.pc = "forget"]
  <2>1. s \in StopStates /\ s.pc = "forget" /\ s.room = stopping[v].room /\ s.rec = stopping[v].rec
    BY StopperSteps
  <2>2. stopping' = [stopping EXCEPT ![v] = s] /\ stopping[v].pc = "stop"
    BY <1>10 DEF StopsEgress
  <2> HIDE DEF s
  <2>3. stopping'[w] = IF w = v THEN s ELSE stopping[w]
    BY <1>2, <2>1, <2>2
  <2> QED BY <1>1, <1>10, <2>1, <2>2, <2>3
<1>11. ASSUME NEW v \in Stoppers, StopForgets(v) PROVE Goal
  <2> DEFINE s == [stopping[v] EXCEPT !.pc = "complete"]
  <2>1. s \in StopStates /\ s.pc = "complete" /\ s.room = stopping[v].room /\ s.rec = stopping[v].rec
    BY StopperSteps
  <2>2. stopping' = [stopping EXCEPT ![v] = s] /\ stopping[v].pc = "forget"
    BY <1>11 DEF StopForgets
  <2> HIDE DEF s
  <2>3. stopping'[w] = IF w = v THEN s ELSE stopping[w]
    BY <1>2, <2>1, <2>2
  <2> QED BY <1>1, <1>11, <2>1, <2>2, <2>3
<1>12. ASSUME NEW v \in Stoppers, StopCompletes(v) PROVE Goal
  <2> DEFINE s == [stopping[v] EXCEPT !.pc = "extract"]
  <2>1. s \in StopStates /\ s.pc = "extract" /\ s.room = stopping[v].room /\ s.rec = stopping[v].rec
    BY StopperSteps
  <2>2. /\ stopping[v].pc = "complete"
        /\ stopping' = [stopping EXCEPT ![v] = IF stopping[v].rec \in Mp4 THEN s ELSE Rest]
    BY <1>12 DEF StopCompletes
  <2> HIDE DEF s
  <2> DEFINE next == IF stopping[v].rec \in Mp4 THEN s ELSE Rest
  <2>3. next \in StopStates
    BY <1>3, <2>1
  <2>4. stopping' = [stopping EXCEPT ![v] = next]
    BY <2>2
  <2> HIDE DEF next
  <2>5. stopping'[w] = IF w = v THEN next ELSE stopping[w]
    BY <1>2, <2>3, <2>4
  <2> QED BY <1>1, <1>12, <2>1, <2>2, <2>5 DEF next
<1>13. ASSUME NEW v \in Stoppers, StopExtracts(v) PROVE Goal
  BY <1>1, <1>2, <1>3, <1>13 DEF StopExtracts
<1>14. CASE Crash
  BY <1>1, <1>14 DEF Crash
<1>15. CASE UNCHANGED stopping
  BY <1>1, <1>15
<1> QED
  <2>1. Goal
    BY <1>4, <1>5, <1>7, <1>8, <1>9, <1>10, <1>11, <1>12, <1>13, <1>14, <1>15, Touches
  <2> QED BY <2>1

\* How the recording of a room changes.
LEMMA ActiveStep ==
  ASSUME Sane, [Next]_vars, NEW r \in Rooms
  PROVE  \/ activeRecs'[r] = activeRecs[r]
         \/ /\ activeRecs'[r] = None
            /\ Crash \/ \E w \in Stoppers : StopForgets(w) /\ stopping[w].room = r
         \/ /\ StartRecords /\ starting.pc = "record" /\ r = starting.room
            /\ activeRecs'[r] = starting.rec
         \/ /\ Reconcile /\ activeRecs'[r] \in reconcile.rows \cap reconcile.egresses
            /\ roomOf[activeRecs'[r]] = r
<1> USE DEF Sane
<1>1. CASE UNCHANGED activeRecs
  BY <1>1
<1>2. CASE StartRecords
  BY <1>2 DEF StartRecords, TypeOK
<1>3. CASE Reconcile
  <2>1. activeRecs'[r] = Restored(r)
    BY <1>3 DEF Reconcile
  <2> QED BY <1>3, <2>1, RestoredIs
<1>4. CASE Crash
  BY <1>4 DEF Crash
<1>5. ASSUME NEW w \in Stoppers, StopForgets(w)
      PROVE  activeRecs'[r] = IF r = stopping[w].room THEN None ELSE activeRecs[r]
  BY <1>5 DEF StopForgets, TypeOK
<1> QED BY <1>1, <1>2, <1>3, <1>4, <1>5, Touches

\* How the reconciliation proceeds.
LEMMA ReconcileStep ==
  ASSUME Sane, [Next]_vars
  PROVE  /\ \/ reconcile' = reconcile
            \/ /\ ReconcileListsRows /\ reconcile.pc = "start" /\ reconcile'.pc = "rows"
               /\ reconcile'.rows = ListActive /\ reconcile'.egresses = reconcile.egresses
            \/ /\ ReconcileListsEgresses /\ reconcile.pc = "rows" /\ reconcile'.pc = "egresses"
               /\ reconcile'.rows = reconcile.rows /\ reconcile'.egresses = Running
            \/ /\ Reconcile /\ reconcile.pc = "egresses" /\ reconcile'.pc = "done"
               /\ reconcile'.rows = {} /\ reconcile'.egresses = {}
            \/ /\ ReconcileFails /\ reconcile.pc \in {"start", "rows"} /\ reconcile'.pc = "done"
               /\ reconcile'.rows = {} /\ reconcile'.egresses = {}
            \/ /\ Crash /\ reconcile'.pc = "start" /\ reconcile'.rows = {} /\ reconcile'.egresses = {}
         /\ \/ toMark' = toMark
            \/ Crash /\ toMark' = {}
            \/ Reconcile /\ toMark' = reconcile.rows \ reconcile.egresses
            \/ \E e \in Recs : MarkError(e) /\ toMark' = toMark \ {e}
         /\ \/ toStop' = toStop
            \/ Crash /\ toStop' = {}
            \/ Reconcile /\ toStop' = reconcile.egresses \ reconcile.rows
            \/ \E e \in Recs : StopOrphan(e) /\ toStop' = toStop \ {e}
<1> USE DEF Sane
<1>1. ReconcileListsRows =>
        /\ reconcile.pc = "start" /\ reconcile'.pc = "rows"
        /\ reconcile'.rows = ListActive /\ reconcile'.egresses = reconcile.egresses
  BY DEF ReconcileListsRows, TypeOK
<1>2. ReconcileListsEgresses =>
        /\ reconcile.pc = "rows" /\ reconcile'.pc = "egresses"
        /\ reconcile'.rows = reconcile.rows /\ reconcile'.egresses = Running
  BY DEF ReconcileListsEgresses, TypeOK
<1>3. Reconcile =>
        /\ reconcile.pc = "egresses" /\ reconcile'.pc = "done"
        /\ reconcile'.rows = {} /\ reconcile'.egresses = {}
        /\ toMark' = reconcile.rows \ reconcile.egresses
        /\ toStop' = reconcile.egresses \ reconcile.rows
  BY DEF Reconcile, NotYet, Orphans
<1>4. Crash => /\ reconcile'.pc = "start" /\ reconcile'.rows = {} /\ reconcile'.egresses = {}
               /\ toMark' = {} /\ toStop' = {}
  BY DEF Crash, NotYet
<1>5. \A e \in Recs : /\ MarkError(e) => toMark' = toMark \ {e}
                      /\ StopOrphan(e) => toStop' = toStop \ {e}
  BY DEF MarkError, StopOrphan
<1>12. ReconcileFails => /\ reconcile.pc \in {"start", "rows"} /\ reconcile'.pc = "done"
                        /\ reconcile'.rows = {} /\ reconcile'.egresses = {}
  BY DEF ReconcileFails, NotYet
<1>6. \/ UNCHANGED reconcile
      \/ ReconcileListsRows \/ ReconcileListsEgresses \/ ReconcileFails \/ Reconcile \/ Crash
  BY Touches
<1>7. UNCHANGED toMark \/ Reconcile \/ Crash \/ \E e \in Recs : MarkError(e)
  BY Touches
<1>8. UNCHANGED toStop \/ Reconcile \/ Crash \/ \E e \in Recs : StopOrphan(e)
  BY Touches
<1>9. \/ reconcile' = reconcile
      \/ /\ ReconcileListsRows /\ reconcile.pc = "start" /\ reconcile'.pc = "rows"
         /\ reconcile'.rows = ListActive /\ reconcile'.egresses = reconcile.egresses
      \/ /\ ReconcileListsEgresses /\ reconcile.pc = "rows" /\ reconcile'.pc = "egresses"
         /\ reconcile'.rows = reconcile.rows /\ reconcile'.egresses = Running
      \/ /\ Reconcile /\ reconcile.pc = "egresses" /\ reconcile'.pc = "done"
         /\ reconcile'.rows = {} /\ reconcile'.egresses = {}
      \/ /\ ReconcileFails /\ reconcile.pc \in {"start", "rows"} /\ reconcile'.pc = "done"
         /\ reconcile'.rows = {} /\ reconcile'.egresses = {}
      \/ /\ Crash /\ reconcile'.pc = "start" /\ reconcile'.rows = {} /\ reconcile'.egresses = {}
  BY <1>1, <1>2, <1>3, <1>4, <1>6, <1>12
<1>10. \/ toMark' = toMark
       \/ Crash /\ toMark' = {}
       \/ Reconcile /\ toMark' = reconcile.rows \ reconcile.egresses
       \/ \E e \in Recs : MarkError(e) /\ toMark' = toMark \ {e}
  BY <1>3, <1>4, <1>5, <1>7
<1>11. \/ toStop' = toStop
       \/ Crash /\ toStop' = {}
       \/ Reconcile /\ toStop' = reconcile.egresses \ reconcile.rows
       \/ \E e \in Recs : StopOrphan(e) /\ toStop' = toStop \ {e}
  BY <1>3, <1>4, <1>5, <1>8
<1> QED BY <1>9, <1>10, <1>11

-----------------------------------------------------------------------------
(* What is started, stopped and known makes sense *)

LEMMA StartingKept == Sane /\ [Next]_vars => Starting'
<1> SUFFICES ASSUME Sane, [Next]_vars PROVE Starting'
  OBVIOUS
<1> USE DEF Sane
<1>1. ASSUME NEW e \in Recs, rows[e].status = "none", ~StartCreatesRow
      PROVE  rows'[e].status = "none"
  BY <1>1, RowStep DEF NoRow
<1>2. StartCreatesRow => starting' = Rest
  BY DEF StartCreatesRow
<1>3. starting'.pc # "idle" => starting'.room \in Rooms
  BY StartingStep, RestIs DEF Starting
<1>4. ASSUME starting'.pc \in {"record", "row"}
      PROVE  /\ starting'.rec \in Recs /\ egress'[starting'.rec] # "none"
             /\ roomOf'[starting'.rec] = starting'.room /\ rows'[starting'.rec].status = "none"
  <2>1. ~StartCreatesRow
    BY <1>2, <1>4, RestIs
  <2>2. CASE /\ starting.pc \in {"record", "row"}
             /\ starting'.room = starting.room /\ starting'.rec = starting.rec
    <3>1. /\ starting.rec \in Recs /\ egress[starting.rec] # "none"
          /\ roomOf[starting.rec] = starting.room /\ rows[starting.rec].status = "none"
      BY <2>2 DEF Starting
    <3>2. egress'[starting.rec] # "none" /\ roomOf'[starting.rec] = roomOf[starting.rec]
      BY <3>1, EgressStep
    <3> QED BY <1>1, <2>1, <2>2, <3>1, <3>2
  <2>3. CASE /\ starting'.room = starting.room
             /\ starting'.rec \in Recs /\ egress[starting'.rec] = "none"
             /\ egress'[starting'.rec] = "running" /\ roomOf'[starting'.rec] = starting.room
    <3>1. rows[starting'.rec].status = "none"
      BY <2>3 DEF Known
    <3> QED BY <1>1, <2>1, <2>3, <3>1
  <2> QED BY <1>4, <2>2, <2>3, StartingStep, RestIs
<1> QED BY <1>3, <1>4 DEF Starting

LEMMA StoppingKept == Sane /\ [Next]_vars => Stopping'
<1> SUFFICES ASSUME Sane, [Next]_vars, NEW w \in Stoppers
             PROVE  /\ stopping'[w].pc # "idle" => stopping'[w].room \in Rooms
                    /\ ~Busy(w)' => stopping'[w].rec = None
                    /\ Busy(w)' => /\ stopping'[w].rec \in Recs /\ egress'[stopping'[w].rec] # "none"
                                   /\ roomOf'[stopping'[w].rec] = stopping'[w].room
                    /\ stopping'[w].pc \in {"forget", "complete", "extract"} =>
                         egress'[stopping'[w].rec] = "ended" \/ stopping'[w].rec \in lost'
                    /\ stopping'[w].pc = "extract" => stopping'[w].rec \in Mp4
  BY DEF Stopping
<1> USE DEF Sane
<1>1. \A e \in Recs : /\ egress[e] # "none" => egress'[e] # "none" /\ roomOf'[e] = roomOf[e]
                      /\ egress[e] = "ended" => egress'[e] = "ended"
  BY EgressStep
<1>2. Crash => stopping'[w] = Rest
  BY DEF Crash
<1>3. ~Crash => lost \subseteq lost'
  BY HistoryTypes DEF HistoryTyped
<1>4. CASE stopping'[w] = Rest
  BY <1>4 DEF Rest, Busy
<1>5. CASE stopping'[w] = stopping[w] /\ ~Crash
  BY <1>1, <1>3, <1>5 DEF Stopping, Busy
<1>6. CASE ~Busy(w)' /\ stopping'[w].room \in Rooms /\ stopping'[w].rec = None
  BY <1>6 DEF Busy
<1>7. CASE /\ stopping'[w].pc = "stop" /\ stopping'[w].room \in Rooms
           /\ stopping'[w].rec = activeRecs[stopping'[w].room] /\ stopping'[w].rec \in Recs
  <2>1. egress[stopping'[w].rec] # "none" /\ roomOf[stopping'[w].rec] = stopping'[w].room
    BY <1>7, RecordingAssumption DEF Known
  <2> QED BY <1>1, <1>7, <2>1 DEF Busy
<1>8. CASE /\ stopping[w].pc \in {"stop", "forget", "complete"} /\ ~Crash
           /\ stopping'[w].room = stopping[w].room /\ stopping'[w].rec = stopping[w].rec
           /\ stopping'[w].pc \in {"forget", "complete", "extract"}
           /\ stopping[w].pc = "stop" => StopsEgress(w)
           /\ stopping'[w].pc = "extract" => stopping[w].rec \in Mp4
  <2>1. /\ stopping[w].room \in Rooms /\ roomOf[stopping[w].rec] = stopping[w].room
        /\ stopping[w].rec \in Recs /\ egress[stopping[w].rec] # "none"
    BY <1>8 DEF Stopping, Busy
  <2>2. egress'[stopping[w].rec] = "ended" \/ stopping[w].rec \in lost'
    <3>1. CASE stopping[w].pc = "stop"
      BY <1>8, <2>1, <3>1 DEF StopsEgress, EndsEgress, Running, TypeOK
    <3>2. CASE stopping[w].pc # "stop"
      BY <1>1, <1>3, <1>8, <2>1, <3>2 DEF Stopping
    <3> QED BY <3>1, <3>2
  <2> QED BY <1>1, <1>8, <2>1, <2>2 DEF Busy
<1>9. stopping'[w].pc # "idle" => ~Crash
  BY <1>2, RestIs
<1> QED BY <1>2, <1>4, <1>5, <1>6, <1>7, <1>8, <1>9, StopperStep

LEMMA KnownKept == Sane /\ [Next]_vars => Known'
<1> SUFFICES ASSUME Sane, [Next]_vars PROVE Known'
  OBVIOUS
<1> USE DEF Sane
<1>1. \A e \in Recs : egress[e] # "none" => egress'[e] # "none" /\ roomOf'[e] = roomOf[e]
  BY EgressStep
<1>2. ASSUME NEW r \in Rooms, activeRecs'[r] # None
      PROVE  egress'[activeRecs'[r]] # "none" /\ roomOf'[activeRecs'[r]] = r
  <2>1. activeRecs'[r] \in Recs /\ egress[activeRecs'[r]] # "none" /\ roomOf[activeRecs'[r]] = r
    <3>1. CASE activeRecs'[r] = activeRecs[r]
      BY <1>2, <3>1 DEF Known, TypeOK
    <3>2. CASE starting.pc = "record" /\ r = starting.room /\ activeRecs'[r] = starting.rec
      BY <3>2 DEF Starting
    <3>3. CASE activeRecs'[r] \in reconcile.rows \cap reconcile.egresses /\ roomOf[activeRecs'[r]] = r
      BY <3>3 DEF Known, TypeOK
    <3> QED BY <1>2, <3>1, <3>2, <3>3, ActiveStep
  <2> QED BY <1>1, <2>1
<1>3. ASSUME NEW e \in Recs, rows'[e].status # "none" PROVE egress'[e] # "none"
  <2>1. rows[e].status # "none" \/ (StartCreatesRow /\ e = starting.rec)
    BY <1>3, RowStep DEF NoRow
  <2>2. egress[e] # "none"
    BY <2>1 DEF Known, StartCreatesRow, Starting
  <2> QED BY <1>1, <2>2
<1>4. ASSUME NEW e \in toMark' \cup toStop' \cup reconcile'.rows \cup reconcile'.egresses
      PROVE  egress'[e] # "none"
  <2>1. \A d \in ListActive \cup Running : d \in Recs /\ egress[d] # "none"
    BY DEF ListActive, Running, Known
  <2>2. e \in toMark \cup toStop \cup reconcile.rows \cup reconcile.egresses \cup ListActive \cup Running
    BY <1>4, ReconcileStep
  <2>3. e \in Recs /\ egress[e] # "none"
    BY <2>1, <2>2 DEF Known, TypeOK
  <2> QED BY <1>1, <2>3
<1> QED BY <1>2, <1>3, <1>4 DEF Known

LEMMA SaneHolds == Spec => []Sane
<1>1. Init => Sane
  <2> SUFFICES ASSUME Init PROVE Sane
    OBVIOUS
  <2>1. NoRow \in Rows /\ NoRow.status = "none"
    BY DEF NoRow, Rows
  <2>2. TypeOK
    BY <2>1, RestIs, RecordingAssumption DEF Init, TypeOK, StopStates, NotYet
  <2>3. Starting /\ Stopping
    BY RestIs DEF Init, Starting, Stopping, Busy, Rest
  <2>4. Known
    BY <2>1 DEF Init, Known, NotYet
  <2> QED BY <2>2, <2>3, <2>4 DEF Sane
<1>2. Sane /\ [Next]_vars => Sane'
  BY TypesKept, StartingKept, StoppingKept, KnownKept DEF Sane
<1> QED BY <1>1, <1>2, PTL DEF Spec

\* Type correctness, whatever faults there are: what is written down is of
\* recordings that were started.
THEOREM TypeCorrect == Spec => []TypeOK
<1>1. Sane => TypeOK
  BY DEF Sane
<1> QED BY <1>1, SaneHolds, PTL

-----------------------------------------------------------------------------
(* Control: an egress that runs is known, or lost *)

\* A recording leaves activeRecs when it has ended, or it is lost.
LEMMA ActiveKept ==
  ASSUME Sane, [Next]_vars, ~Crash, NEW e \in Running' \ lost', egress[e] = "running",
         activeRecs[roomOf[e]] = e
  PROVE  activeRecs'[roomOf'[e]] = e
<1> USE DEF Sane
<1> DEFINE r == roomOf[e]
<1>1. e \in Recs /\ egress'[e] = "running" /\ e # None
  BY RecordingAssumption DEF Running
<1>3. r \in Rooms /\ roomOf'[e] = r
  BY <1>1, EgressStep DEF TypeOK
<1>4. egress[e] # "ended" /\ e \notin lost
  BY <1>1, EgressStep, HistoryTypes DEF HistoryTyped
<1>5. SUFFICES ASSUME activeRecs'[r] # e PROVE FALSE
  BY <1>3
<1>6. e \in Displaced
  <2>1. \A q \in Rooms : activeRecs'[q] # None => roomOf'[activeRecs'[q]] = q
    BY KnownKept DEF Known
  <2>2. \A q \in Rooms : activeRecs'[q] # e
    BY <1>1, <1>3, <1>5, <2>1
  <2> QED BY <1>1, <1>3, <2>2 DEF Displaced
<1>7. ASSUME NEW w \in Stoppers, StopForgets(w), stopping[w].room = r PROVE FALSE
  <2>1. stopping[w].rec = e
    BY <1>6, <1>7 DEF StopForgets
  <2>2. egress[e] = "ended" \/ e \in lost
    BY <1>7, <2>1 DEF StopForgets, Stopping
  <2> QED BY <1>4, <2>2
<1>8. ~StartRecords /\ ~Reconcile
  BY <1>6 DEF StartRecords, Reconcile
<1> QED BY <1>3, <1>5, <1>7, <1>8, ActiveStep

\* What is about to be registered is, then.
LEMMA RegisteringKept ==
  ASSUME Sane, [Next]_vars, ~Crash, NEW e \in Recs, Registering(e)
  PROVE  Registering(e)' \/ activeRecs'[roomOf'[e]] = e
<1> USE DEF Sane, Registering
<1>1. egress[e] # "none" /\ roomOf[e] = starting.room /\ starting.room \in Rooms
  BY DEF Starting
<1>2. roomOf'[e] = starting.room
  BY <1>1, EgressStep
<1>3. CASE UNCHANGED starting
  BY <1>3
<1>4. CASE StartRecords
  BY <1>1, <1>2, <1>4 DEF StartRecords, TypeOK
<1>5. ~StartEgress /\ ~StartCreatesRow /\ ~\E q \in Rooms : RequestStart(q)
  BY DEF StartEgress, StartCreatesRow, RequestStart
<1> QED BY <1>3, <1>4, <1>5, Touches

LEMMA ListedKept == Sane /\ Listed /\ [Next]_vars => Listed'
<1> SUFFICES ASSUME Sane, Listed, [Next]_vars, reconcile'.pc = "egresses", NEW e \in Running' \ lost'
             PROVE  e \in reconcile'.egresses \/ activeRecs'[roomOf'[e]] = e \/ Registering(e)'
  BY DEF Listed
<1>1. e \in Recs /\ egress'[e] = "running"
  BY DEF Running
<1>2. ~Crash
  BY DEF Crash, NotYet
<1>3. CASE egress[e] # "running"
  BY <1>1, <1>3, EgressStep
<1>4. CASE egress[e] = "running" /\ ReconcileListsEgresses /\ reconcile'.egresses = Running
  BY <1>1, <1>4 DEF Running
<1>5. CASE egress[e] = "running" /\ reconcile' = reconcile
  <2>1. e \in Running \ lost
    BY <1>1, <1>2, <1>5, HistoryTypes DEF Running, HistoryTyped
  <2>2. e \in reconcile.egresses \/ activeRecs[roomOf[e]] = e \/ Registering(e)
    BY <1>5, <2>1 DEF Listed
  <2> QED BY <1>2, <1>5, <2>2, <1>1, ActiveKept, RegisteringKept
<1> QED BY <1>2, <1>3, <1>4, <1>5, ReconcileStep

LEMMA RunningKept == Sane /\ Listed /\ RunningIsKnown /\ [Next]_vars => RunningIsKnown'
<1> SUFFICES ASSUME Sane, Listed, RunningIsKnown, [Next]_vars, NEW e \in Running' \ lost',
                    reconcile'.pc = "done"
             PROVE  activeRecs'[roomOf'[e]] = e \/ Registering(e)' \/ e \in toStop'
  BY DEF RunningIsKnown, Registering
<1>1. e \in Recs /\ egress'[e] = "running"
  BY DEF Running
<1>2. ~Crash
  BY DEF Crash, NotYet
<1>3. CASE egress[e] # "running"
  BY <1>1, <1>3, EgressStep
<1>4. CASE egress[e] = "running"
  <2>1. e \in Running \ lost /\ roomOf'[e] = roomOf[e]
    BY <1>1, <1>2, <1>4, HistoryTypes, EgressStep DEF Running, HistoryTyped
  <2>2. activeRecs[roomOf[e]] = e \/ Registering(e) =>
          activeRecs'[roomOf'[e]] = e \/ Registering(e)'
    BY <1>1, <1>2, <1>4, ActiveKept, RegisteringKept
  <2>3. CASE Reconcile /\ reconcile.pc = "egresses"
    <3>1. CASE e \in reconcile.egresses /\ e \in reconcile.rows
      <4>1. roomOf[e] \in Rooms /\ TypeOK
        BY <1>1, <1>4 DEF Sane, TypeOK
      <4>2. e \notin Crowded
        BY <2>3 DEF Reconcile
      <4>3. Restored(roomOf[e]) = e
        BY <3>1, <4>1, <4>2, RestoredIs
      <4> QED BY <2>1, <2>3, <4>1, <4>3 DEF Reconcile
    <3>2. CASE e \in reconcile.egresses /\ e \notin reconcile.rows
      BY <2>3, <3>2 DEF Reconcile, Orphans
    <3> QED BY <2>1, <2>2, <2>3, <3>1, <3>2 DEF Listed
  <2>4. CASE ReconcileFails
    <3>1. Registering(e) \/ \E q \in Rooms : activeRecs[q] = e
      BY <2>1, <2>4 DEF ReconcileFails, Registering
    <3>2. \A q \in Rooms : activeRecs[q] = e => roomOf[e] = q
      BY <1>1, RecordingAssumption DEF Sane, Known
    <3> QED BY <2>2, <3>1, <3>2
  <2>5. CASE reconcile' = reconcile
    <3>1. CASE e \in toStop
      <4>1. ~StopOrphan(e)
        BY <1>1, <1>4 DEF StopOrphan, EndsEgress, Sane, TypeOK, Running
      <4>2. ~Reconcile
        BY <2>5 DEF Reconcile
      <4> QED BY <1>2, <3>1, <4>1, <4>2, ReconcileStep
    <3> QED BY <2>1, <2>2, <2>5, <3>1 DEF RunningIsKnown, Registering
  <2> QED BY <1>2, <2>3, <2>4, <2>5, ReconcileStep
<1> QED BY <1>3, <1>4

\* An egress that runs is under control, or lost, over any number of restarts,
\* failed calls and deletions and whoever stops what at once: it is in
\* activeRecs, where the stop button and the ticker find it, or the handler that
\* started it or the reconciliation is about to put it there or to stop it.
THEOREM RunningEgressesAreKnown == Spec => []RunningIsKnown
<1>1. Init => Listed /\ RunningIsKnown
  BY DEF Init, NotYet, Listed, RunningIsKnown
<1>2. Sane /\ Listed /\ RunningIsKnown /\ [Next]_vars => (Listed /\ RunningIsKnown)'
  BY ListedKept, RunningKept
<1> QED BY <1>1, <1>2, SaneHolds, PTL DEF Spec

-----------------------------------------------------------------------------
(* Outcomes *)

\* An extraction of sound begins when a stopper asks for it.
LEMMA JobStep ==
  ASSUME Sane, [Next]_vars, NEW j \in Jobs
  PROVE  /\ jobs[j] = "none" /\ jobs'[j] # "none" =>
              j[2] = "thumbnail" \/ \E w \in Stoppers : StopExtracts(w) /\ stopping[w].rec = j[1]
         /\ ExtractAudio(j) => jobs[j] = "running" /\ jobs'[j] = "none"
<1> USE DEF Sane
<1>1. ASSUME NEW i \in Jobs, jobs[i] = "running", Release(i)
      PROVE  jobs'[i] = "none" /\ (jobs[j] = "none" => jobs'[j] = "none")
  <2>1. CASE jobs' = [jobs EXCEPT ![i] = "none"]
    BY <2>1 DEF TypeOK
  <2>2. ASSUME NEW k \in Jobs, jobs[k] = "asleep", jobs' = [jobs EXCEPT ![i] = "none", ![k] = "trying"]
        PROVE  jobs'[i] = "none" /\ (jobs[j] = "none" => jobs'[j] = "none")
    BY <1>1, <2>2 DEF TypeOK
  <2> QED BY <1>1, <2>1, <2>2 DEF Release
<1>2. ASSUME jobs[j] = "none", jobs'[j] # "none"
      PROVE  j[2] = "thumbnail" \/ \E w \in Stoppers : StopExtracts(w) /\ stopping[w].rec = j[1]
  <2>1. ASSUME NEW i \in Jobs, Acquire(i) PROVE FALSE
    BY <1>2, <2>1 DEF Acquire, TypeOK
  <2>2. ASSUME NEW i \in Jobs, ExtractAudio(i) \/ ExtractThumbnail(i) PROVE FALSE
    BY <1>1, <1>2, <2>2 DEF ExtractAudio, ExtractThumbnail
  <2>3. ASSUME NEW n \in 0..MaxLimit, SetLimit(n) PROVE FALSE
    BY <1>2, <2>3 DEF SetLimit
  <2>4. ASSUME NEW e \in Recs, Backfill(e) PROVE j[2] = "thumbnail"
    BY <1>2, <2>4 DEF Backfill, TypeOK
  <2>5. ASSUME NEW w \in Stoppers, StopExtracts(w) PROVE stopping[w].rec = j[1]
    BY <1>2, <2>5 DEF StopExtracts
  <2>6. ~Crash
    BY <1>2 DEF Crash
  <2> QED BY <1>2, <2>1, <2>2, <2>3, <2>4, <2>5, <2>6, Touches
<1>3. ExtractAudio(j) => jobs[j] = "running" /\ jobs'[j] = "none"
  BY <1>1 DEF ExtractAudio
<1> QED BY <1>2, <1>3

\* Nobody gets hold of a recording but by activeRecs and by the snapshots.
LEMMA FreeKept ==
  ASSUME Sane, [Next]_vars, NEW e \in Recs, egress[e] # "none", Free(e),
         Reconcile => e \notin reconcile.rows \cap reconcile.egresses
  PROVE  Free(e)'
<1> USE DEF Sane
<1>1. e # None
  BY RecordingAssumption
<1>2. ASSUME NEW r \in Rooms PROVE activeRecs'[r] # e
  BY <1>1, ActiveStep DEF Free, Registering
<1>3. ASSUME NEW w \in Stoppers PROVE stopping'[w].rec # e
  BY <1>1, StopperStep DEF Free, Rest
<1>4. ~Registering(e)'
  BY RestIs, StartingStep DEF Free, Registering
<1> QED BY <1>2, <1>3, <1>4 DEF Free

LEMMA SnapshotsKept == Sane /\ Snapshots /\ [Next]_vars => Snapshots'
BY ReconcileStep DEF Snapshots

LEMMA NewKept == Sane /\ New /\ [Next]_vars => New'
<1> SUFFICES ASSUME Sane, New, [Next]_vars, NEW e \in Recs, Registering(e)'
             PROVE  /\ \A r \in Rooms : activeRecs'[r] # e
                    /\ \A w \in Stoppers : stopping'[w].rec # e
                    /\ e \notin toMark' \cup reconcile'.rows
  BY DEF New, Registering
<1> USE DEF Sane
<1>1. e # None
  BY RecordingAssumption
<1>2. CASE StartEgress /\ egress[e] = "none"
  <2>1. UNCHANGED <<activeRecs, stopping, toMark, reconcile>>
    BY <1>2 DEF StartEgress, memory, reconciling
  <2>2. \A w \in Stoppers : stopping[w].rec # e
    BY <1>1, <1>2 DEF Stopping
  <2> QED BY <1>1, <1>2, <2>1, <2>2 DEF Known
<1>3. CASE starting' = starting
  <2>1. Registering(e) /\ rows[e].status = "none"
    BY <1>3 DEF Registering, Starting
  <2>2. ~StartRecords
    BY <1>3 DEF StartRecords, Registering, TypeOK
  <2>3. ASSUME NEW r \in Rooms PROVE activeRecs'[r] # e
    BY <1>1, <2>1, <2>2, ActiveStep DEF New
  <2>4. ASSUME NEW w \in Stoppers PROVE stopping'[w].rec # e
    BY <1>1, <2>1, StopperStep DEF New, Rest
  <2>5. e \notin toMark' \cup reconcile'.rows
    BY <2>1, ReconcileStep DEF New, ListActive
  <2> QED BY <2>3, <2>4, <2>5
<1> QED BY <1>2, <1>3, RestIs, StartingStep DEF Registering

LEMMA EarlyKept == Sane /\ Early /\ [Next]_vars => Early'
<1> SUFFICES ASSUME Sane, Early, [Next]_vars, reconcile'.pc # "done", NEW e \in Recs, e \notin contested'
             PROVE  Free(e)' /\ (e \in Mp4 => jobs'[<<e, "audio">>] = "none")
  BY DEF Early, Untouched
<1> USE DEF Sane
<1>1. e # None
  BY RecordingAssumption
<1>2. CASE Crash
  BY <1>1, <1>2, RestIs, JobsAre DEF Crash, Free, Registering, Rest
<1>3. CASE ~Crash
  <2>1. reconcile.pc # "done" /\ ~Reconcile
    BY <1>3, ReconcileStep DEF Reconcile, NotYet
  <2>2. Free(e) /\ (e \in Mp4 => jobs[<<e, "audio">>] = "none")
    BY <1>3, <2>1, HistoryTypes DEF Early, Untouched, HistoryTyped
  <2>3. ASSUME NEW r \in Rooms PROVE activeRecs'[r] # e
    BY <1>1, <2>1, <2>2, ActiveStep DEF Free, Registering
  <2>4. ASSUME NEW w \in Stoppers PROVE stopping'[w].rec # e
    BY <1>1, <2>2, StopperStep DEF Free, Rest
  <2>5. ~Registering(e)'
    <3>1. ASSUME StartEgress, Registering(e)' PROVE FALSE
      <4>1. PICK d \in Recs : /\ EgressStarts(d, starting.room)
                              /\ starting' = [starting EXCEPT !.pc = "record", !.rec = d]
        BY <3>1, RestIs DEF StartEgress, Registering
      <4>2. d = e
        BY <3>1, <4>1 DEF Registering, TypeOK
      <4> QED BY <2>1, <4>1, <4>2 DEF EgressStarts
    <3> QED BY <2>2, <3>1, RestIs, StartingStep DEF Free, Registering
  <2>6. ASSUME e \in Mp4 PROVE jobs'[<<e, "audio">>] = "none"
    <3> DEFINE j == <<e, "audio">>
    <3>1. j \in Jobs /\ j[1] = e /\ j[2] = "audio"
      BY <2>6, JobsAre
    <3>2. ASSUME NEW w \in Stoppers, StopExtracts(w), stopping[w].rec = e PROVE FALSE
      BY <2>2, <3>2 DEF Free
    <3> HIDE DEF j
    <3>3. jobs'[j] = "none" \/ jobs[j] # "none"
      BY <3>1, <3>2, JobStep
    <3> QED BY <2>2, <2>6, <3>3 DEF j
  <2> QED BY <2>3, <2>4, <2>5, <2>6 DEF Free
<1> QED BY <1>2, <1>3

LEMMA MarkingKept == Sane /\ Snapshots /\ Early /\ Marking /\ [Next]_vars => Marking'
<1> SUFFICES ASSUME Sane, Snapshots, Early, Marking, [Next]_vars, NEW e \in Recs, e \notin contested'
             PROVE  /\ e \in reconcile'.rows \cup toMark' => rows'[e].status # "completed"
                    /\ e \in toMark' => Free(e)'
  BY DEF Marking
<1> USE DEF Sane
<1>1. CASE Crash
  BY <1>1 DEF Crash, NotYet
<1>2. CASE ~Crash
  <2>1. e \notin contested
    BY <1>2, HistoryTypes DEF HistoryTyped
  <2>2. e \in toMark' => e \in toMark \/ (Reconcile /\ e \in reconcile.rows \ reconcile.egresses)
    BY <1>2, ReconcileStep
  <2>3. e \in reconcile'.rows => e \in reconcile.rows \/ (ReconcileListsRows /\ e \in ListActive)
    BY <1>2, ReconcileStep
  <2>4. e \in reconcile.rows => Free(e)
    BY <2>1 DEF Snapshots, Early, Untouched
  <2>5. e \in reconcile.rows \cup toMark => Free(e) /\ rows[e].status # "completed" /\ egress[e] # "none"
    BY <2>1, <2>4 DEF Marking, Known
  <2>6. ASSUME e \in reconcile'.rows \cup toMark' PROVE rows'[e].status # "completed"
    <3>1. CASE ReconcileListsRows /\ e \in ListActive
      BY <3>1 DEF ReconcileListsRows, ListActive
    <3>2. CASE e \in reconcile.rows \cup toMark
      <4>1. ASSUME NEW w \in Stoppers, stopping[w].rec = e PROVE FALSE
        BY <2>5, <3>2, <4>1 DEF Free
      <4>2. ~(rows'[e].status = "completed" /\ \E w \in Stoppers : stopping[w].rec = e)
        BY <4>1
      <4> QED BY <2>5, <3>2, <4>1, RowStep DEF NoRow
    <3> QED BY <2>2, <2>3, <2>6, <3>1, <3>2
  <2>7. ASSUME e \in toMark' PROVE Free(e)'
    <3>1. Free(e) /\ egress[e] # "none"
      BY <2>2, <2>5, <2>7
    <3>2. Reconcile => e \notin reconcile.rows \cap reconcile.egresses
      BY <2>7 DEF Reconcile
    <3> QED BY <3>1, <3>2, FreeKept
  <2> QED BY <2>6, <2>7
<1> QED BY <1>1, <1>2

LEMMA OneStopperKept == Sane /\ New /\ Early /\ OneStopper /\ [Next]_vars => OneStopper'
<1> SUFFICES ASSUME Sane, New, Early, OneStopper, [Next]_vars, NEW e \in Recs, e \notin contested',
                    NEW w \in Stoppers, stopping'[w].rec = e
             PROVE  /\ \A v \in Stoppers : stopping'[v].rec = e => v = w
                    /\ \A r \in Rooms : stopping'[w].pc \in {"complete", "extract"} => activeRecs'[r] # e
  BY DEF OneStopper
<1> USE DEF Sane
<1>1. e # None
  BY RecordingAssumption
<1>2. ~Crash
  BY <1>1 DEF Crash, Rest
<1>3. e \notin contested
  BY <1>2, HistoryTypes DEF HistoryTyped
<1>4. ASSUME NEW v \in Stoppers, stopping'[v].rec = e
      PROVE  \/ stopping[v].rec = e
             \/ /\ Contest(e) /\ stopping'[v].pc = "stop"
                /\ \A u \in Stoppers : u # v => stopping'[u] = stopping[u]
  BY <1>1, <1>4, StopperStep DEF Rest
<1>5. ASSUME NEW v \in Stoppers, stopping[v].rec = e PROVE ~Contest(e)
  BY <1>5 DEF Contest
<1>6. ASSUME NEW v \in Stoppers, stopping'[v].rec = e PROVE v = w
  <2>1. stopping[v].rec = e /\ stopping[w].rec = e => v = w
    BY <1>3 DEF OneStopper
  <2> QED BY <1>4, <1>5, <1>6, <2>1
<1>7. ASSUME NEW r \in Rooms, stopping'[w].pc \in {"complete", "extract"}, activeRecs'[r] = e PROVE FALSE
  <2>1. stopping[w].rec = e
    BY <1>4, <1>7
  <2>2. CASE stopping[w].pc \in {"complete", "extract"}
    <3>1. activeRecs[r] # e
      BY <1>3, <2>1, <2>2 DEF OneStopper
    <3>2. ~Registering(e)
      BY <2>1 DEF New
    <3>3. ~Reconcile
      BY <1>3, <2>1 DEF Early, Untouched, Free, Reconcile
    <3> QED BY <1>1, <1>7, <3>1, <3>2, <3>3, ActiveStep DEF Registering
  <2>3. CASE StopForgets(w)
    <3>1. activeRecs'[stopping[w].room] = None
      BY <2>3 DEF StopForgets, TypeOK, Stopping
    <3>2. roomOf'[e] = r
      BY <1>1, <1>7, KnownKept DEF Known
    <3>3. roomOf'[e] = stopping[w].room
      BY <2>1, <2>3 DEF StopForgets, Stopping, Busy, livekit
    <3> QED BY <1>1, <1>7, <3>1, <3>2, <3>3
  <2> QED BY <1>1, <1>7, <2>1, <2>2, <2>3, StopperStep, RestIs DEF Rest
<1> QED BY <1>6, <1>7

LEMMA ExtractedKept ==
  Sane /\ New /\ Snapshots /\ Early /\ OneStopper /\ Extracted /\ [Next]_vars => Extracted'
<1> SUFFICES ASSUME Sane, New, Snapshots, Early, OneStopper, Extracted, [Next]_vars PROVE Extracted'
  OBVIOUS
<1> USE DEF Sane
<1>1. ASSUME NEW e \in Recs, rows'[e].audio = "ok" PROVE e \in Mp4 /\ egress'[e] = "ended"
  <2>1. rows[e].audio = "ok" \/ e \in Written
    BY <1>1, RowStep DEF NoRow
  <2>2. e \in Mp4 /\ egress[e] = "ended"
    BY <2>1 DEF Extracted, Written
  <2> QED BY <2>2, EgressStep
<1>2. ASSUME NEW e \in Mp4
      PROVE  /\ e \in Recs /\ <<e, "audio">> \in Jobs
             /\ \/ jobs[<<e, "audio">>] # "none"
                \/ jobs'[<<e, "audio">>] = "none"
                \/ \E w \in Stoppers : StopExtracts(w) /\ stopping[w].rec = e
  <2> DEFINE j == <<e, "audio">>
  <2>1. j \in Jobs /\ e \in Recs /\ j[1] = e /\ j[2] = "audio"
    BY RecordingsAre, JobsAre
  <2> HIDE DEF j
  <2>2. \/ jobs[j] # "none" \/ jobs'[j] = "none"
        \/ \E w \in Stoppers : StopExtracts(w) /\ stopping[w].rec = e
    BY <2>1, JobStep
  <2> QED BY <2>1, <2>2 DEF j
<1>3. ASSUME NEW e \in Mp4, jobs'[<<e, "audio">>] # "none" PROVE egress'[e] # "none"
  <2> DEFINE asked == \E w \in Stoppers : StopExtracts(w) /\ stopping[w].rec = e
  <2>1. asked => egress[e] # "none"
    BY DEF Stopping, StopExtracts, Busy
  <2> HIDE DEF asked
  <2>2. jobs[<<e, "audio">>] # "none" \/ asked
    BY <1>2, <1>3 DEF asked
  <2>3. egress[e] # "none"
    BY <2>1, <2>2 DEF Extracted
  <2> QED BY <1>2, <2>3, EgressStep
<1>4. ASSUME NEW e \in Mp4, e \notin contested'
      PROVE  /\ rows'[e].audio = "ok" => jobs'[<<e, "audio">>] = "none" /\ e \notin reconcile'.egresses
             /\ rows'[e].audio = "ok" \/ jobs'[<<e, "audio">>] # "none" => Free(e)'
  <2> DEFINE j == <<e, "audio">>
  <2>1. e \in Recs /\ j \in Jobs /\ e # None
    BY <1>2, RecordingAssumption
  <2>2. CASE Crash
    BY <2>1, <2>2, RestIs DEF Crash, Free, Registering, Rest, NotYet
  <2>3. CASE ~Crash
    <3>1. e \notin contested
      BY <1>4, <2>3, HistoryTypes DEF HistoryTyped
    <3>2. ASSUME NEW w \in Stoppers, StopExtracts(w), stopping[w].rec = e
          PROVE  rows[e].audio # "ok" /\ jobs[j] = "none" /\ Free(e)'
      <4>1. rows[e].audio # "ok" /\ jobs[j] = "none"
        BY <3>1, <3>2 DEF Extracted, Free
      <4>2. \A v \in Stoppers : stopping'[v] = IF v = w THEN Rest ELSE stopping[v]
        BY <3>2, RestIs DEF StopExtracts, TypeOK
      <4>3. stopping[w].pc = "extract" /\ UNCHANGED <<activeRecs, starting>>
        BY <3>2 DEF StopExtracts, memory
      <4>4. \A v \in Stoppers : stopping'[v].rec # e
        BY <2>1, <3>1, <3>2, <4>2 DEF OneStopper, Rest
      <4>5. \A r \in Rooms : activeRecs'[r] # e
        BY <2>1, <3>1, <3>2, <4>3 DEF OneStopper
      <4>6. ~Registering(e)'
        BY <2>1, <3>2, <4>3 DEF New, Registering
      <4> QED BY <4>1, <4>4, <4>5, <4>6 DEF Free
    <3>3. ASSUME rows'[e].audio = "ok", rows[e].audio # "ok"
          PROVE  ExtractAudio(j) /\ jobs[j] = "running" /\ jobs'[j] = "none"
      <4>1. PICK i \in Jobs : ExtractAudio(i) /\ i[1] = e
        BY <2>1, <3>3, RowStep DEF NoRow
      <4>2. i = j
        BY <4>1, JobsAre DEF ExtractAudio
      <4>3. jobs[i] = "running" /\ jobs'[i] = "none"
        BY <4>1, JobStep
      <4> QED BY <4>1, <4>2, <4>3
    <3>4. ASSUME rows'[e].audio = "ok" PROVE jobs'[j] = "none" /\ e \notin reconcile'.egresses
      <4>1. CASE rows[e].audio = "ok"
        <5>1. jobs[j] = "none" /\ e \notin reconcile.egresses /\ e \notin Running
          BY <3>1, <4>1 DEF Extracted, Running
        <5>2. jobs'[j] = "none"
          BY <1>2, <3>2, <4>1, <5>1
        <5> QED BY <5>1, <5>2, ReconcileStep
      <4>2. CASE rows[e].audio # "ok"
        <5>1. ExtractAudio(j) /\ jobs[j] = "running" /\ jobs'[j] = "none"
          BY <3>3, <3>4, <4>2
        <5>2. reconcile.pc = "done" /\ reconcile' = reconcile
          BY <2>1, <3>1, <5>1 DEF Early, Untouched, ExtractAudio, reconciling
        <5> QED BY <5>1, <5>2 DEF Snapshots
      <4> QED BY <4>1, <4>2
    <3>5. ASSUME rows[e].audio = "ok" \/ jobs[j] # "none" PROVE Free(e)'
      <4>1. Free(e) /\ egress[e] # "none"
        BY <2>1, <3>1, <3>5 DEF Extracted
      <4>2. Reconcile => e \notin reconcile.egresses
        BY <2>1, <3>1, <3>5 DEF Reconcile, Early, Untouched, Extracted
      <4> QED BY <2>1, <4>1, <4>2, FreeKept
    <3>6. ASSUME rows'[e].audio = "ok" \/ jobs'[j] # "none" PROVE Free(e)'
      <4>1. ASSUME NEW w \in Stoppers, StopExtracts(w), stopping[w].rec = e PROVE Free(e)'
        BY <3>2, <4>1
      <4>2. CASE rows[e].audio # "ok" /\ jobs[j] = "none"
        <5>1. rows'[e].audio # "ok"
          BY <3>3, <4>2
        <5>2. \E w \in Stoppers : StopExtracts(w) /\ stopping[w].rec = e
          BY <1>2, <3>6, <4>2, <5>1
        <5> QED BY <4>1, <5>2
      <4> QED BY <3>5, <4>2
    <3> QED BY <3>4, <3>6
  <2> QED BY <2>2, <2>3
<1> QED BY <1>1, <1>3, <1>4 DEF Extracted

LEMMA OutcomesHold == Spec => []Outcomes
<1>1. Init => Outcomes
  <2> SUFFICES ASSUME Init PROVE Outcomes
    OBVIOUS
  <2>1. /\ \A e \in Recs : rows[e] = NoRow /\ e # None /\ (e \in Mp4 => jobs[<<e, "audio">>] = "none")
        /\ NoRow.audio = "none" /\ NoRow.status = "none"
    BY JobsAre, RecordingAssumption DEF Init, NoRow
  <2>2. New /\ Snapshots /\ Early /\ Marking /\ OneStopper
    BY <2>1, RestIs DEF Init, New, Snapshots, Early, Untouched, Free, Registering, Marking, OneStopper,
      NotYet, Rest
  <2>3. Extracted
    BY <2>1, RecordingsAre DEF Extracted
  <2> QED BY <2>2, <2>3 DEF Outcomes
<1>2. Sane /\ Outcomes /\ [Next]_vars => Outcomes'
  BY NewKept, SnapshotsKept, EarlyKept, MarkingKept, OneStopperKept, ExtractedKept DEF Outcomes
<1> QED BY <1>1, <1>2, SaneHolds, PTL DEF Spec

\* What a recording came to stands: whatever is reconciled, deleted, extracted or
\* fails meanwhile, a completed recording is not marked as failed and sound that
\* was extracted is not pending again, unless two goroutines stopped the
\* recording at once or it was started before the reconciliation.
THEOREM OutcomesAreFinal == Spec => OutcomesStand
<1> DEFINE Stands(e) ==
      rows'[e].status # "none" =>
        /\ rows[e].status = "completed" => rows'[e].status = "completed"
        /\ rows[e].audio = "ok" => rows'[e].audio = "ok"
<1>1. ASSUME Sane, Outcomes, [Next]_vars, NEW e \in Recs \ contested PROVE Stands(e)
  <2> USE <1>1 DEF Sane, Outcomes
  <2>1. ASSUME rows'[e].status # "none", rows[e].status = "completed"
        PROVE  rows'[e].status = "completed"
    <3>1. ~MarkError(e)
      BY <2>1 DEF MarkError, Marking
    <3>2. ~(StartCreatesRow /\ e = starting.rec)
      BY <2>1 DEF StartCreatesRow, Starting
    <3> QED BY <2>1, <3>1, <3>2, RowStep DEF NoRow
  <2>2. ASSUME rows'[e].status # "none", rows[e].audio = "ok"
        PROVE  rows'[e].audio = "ok"
    <3>1. e \in Mp4 /\ jobs[<<e, "audio">>] = "none" /\ Free(e)
      BY <2>2 DEF Extracted
    <3>2. ASSUME NEW w \in Stoppers, StopExtracts(w), stopping[w].rec = e PROVE FALSE
      BY <3>1, <3>2 DEF Free
    <3>3. ASSUME NEW j \in Jobs, ExtractAudio(j), j[1] = e PROVE FALSE
      <4>1. j = <<e, "audio">> /\ jobs[j] = "running"
        BY <3>3, JobsAre DEF ExtractAudio
      <4> QED BY <3>1, <4>1
    <3> QED BY <2>2, <3>2, <3>3, RowStep DEF NoRow
  <2> QED BY <2>1, <2>2
<1>2. Sane /\ Outcomes /\ [Next]_vars => [\A e \in Recs \ contested : Stands(e)]_vars
  BY <1>1
<1> QED BY <1>2, SaneHolds, OutcomesHold, PTL DEF Spec, OutcomesStand
=============================================================================
