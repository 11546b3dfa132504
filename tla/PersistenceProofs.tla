------------------------- MODULE PersistenceProofs -------------------------
(***************************************************************************)
(* Theorems about Persistence, for every set of coordinates and maps.      *)
(*                                                                         *)
(* Goroutines write at any time, several at once too.  As long as there is  *)
(* no clash, one is at work, and what it has still to write is about the   *)
(* session (or its end) that made it write, or about one that is over:     *)
(* Persisting, Moving and Despawning say where it stands, Settled what the  *)
(* record is worth meanwhile.  A save of all of a place that starts alone  *)
(* makes all of that true again, whatever the record was worth before.     *)
(***************************************************************************)
EXTENDS Persistence, TLAPS

\* A task is dropped with its last step.
HasSteps == \A w \in Workers : ~Idle(w) => task[w].todo # <<>>

OneWriter == \A v, w \in Workers : ~Idle(v) /\ ~Idle(w) => v = w

\* The persister, the movers and the despawners at work.
Persisting ==
  ~Idle("persister") =>
    LET todo == task["persister"].todo
        place == task["persister"].place
    IN  /\ session # None
        /\ \/ todo = <<"position", "map", "remember">>
           \/ todo = <<"map", "remember">> /\ record.coords = place.coords
           \/ todo = <<"remember">> /\ record = place
Moving ==
  \A w \in Movers : ~Idle(w) =>
    /\ task[w].todo = <<"map">> /\ session # None
    /\ lastSaved # None => session.map = task[w].place.map
Despawning ==
  \A w \in Despawners : ~Idle(w) =>
    /\ lastSaved = None
    /\ left # None => left = task[w].place
    /\ \/ task[w].todo = <<"position", "map">>
       \/ task[w].todo = <<"map">> /\ (left # None => record.coords = task[w].place.coords)

\* What lastSavedPos (while nothing has failed) and `left` say of the record: a
\* transition may have written its map since.
Settled ==
  /\ session = None => lastSaved = None
  /\ session # None /\ lastSaved # None /\ ~failed /\ Idle("persister") =>
       /\ record.coords = lastSaved.coords
       /\ (\A w \in Movers : Idle(w)) => record.map \in {session.map, lastSaved.map}
  /\ Quiet /\ left # None => record = left

Sole == OneWriter /\ Persisting /\ Moving /\ Despawning /\ Settled

\* Where a session ended is of interest until the next one.
Leaving == left # None => session = None /\ ~clash

Books == TypeOK /\ HasSteps /\ Leaving /\ (~clash => Sole)

-----------------------------------------------------------------------------
LEMMA NoneIsNoPlace == None \notin Place
BY PersistenceAssumption DEF Place

LEMMA AtIsAPlace == \A q \in Coords : At(q) \in Place
BY PersistenceAssumption DEF At, Place

\* The steps of a task that is not done yet.
LEMMA StartType ==
  ASSUME TypeOK, HasSteps, NEW w \in Workers, NEW todo \in Seq(Steps), todo # <<>>,
         NEW place \in Place, Start(w, todo, place)
  PROVE  task' \in [Workers -> Tasks \cup {None}] /\ clash' \in BOOLEAN /\ HasSteps'
<1>1. [todo |-> todo, place |-> place] \in Tasks
  BY DEF Tasks
<1>2. task' \in [Workers -> Tasks \cup {None}]
  BY <1>1 DEF Start, TypeOK
<1>3. \A v \in Workers : task'[v] = IF v = w THEN [todo |-> todo, place |-> place] ELSE task[v]
  BY DEF Start, TypeOK
<1>4. HasSteps'
  BY <1>3 DEF HasSteps, Idle
<1>5. clash' \in BOOLEAN
  BY DEF Start
<1> QED BY <1>2, <1>4, <1>5

LEMMA AdvanceType ==
  ASSUME TypeOK, HasSteps, NEW w \in Workers, ~Idle(w), Advance(w)
  PROVE  task' \in [Workers -> Tasks \cup {None}] /\ HasSteps'
<1> DEFINE t == task[w]
<1>1. t \in Tasks /\ t.todo \in Seq(Steps) /\ t.todo # <<>>
  BY DEF TypeOK, Idle, HasSteps, Tasks
<1>2. CASE Len(t.todo) = 1
  <2>1. \A v \in Workers : task'[v] = IF v = w THEN None ELSE task[v]
    BY <1>2 DEF Advance, TypeOK
  <2>2. task' \in [Workers -> Tasks \cup {None}]
    BY <1>2 DEF Advance, TypeOK
  <2> QED BY <2>1, <2>2 DEF HasSteps, Idle
<1>3. CASE Len(t.todo) # 1
  <2> DEFINE rest == [t EXCEPT !.todo = Tail(t.todo)]
  <2>1. Tail(t.todo) \in Seq(Steps) /\ Tail(t.todo) # <<>>
    <3> HIDE DEF t
    <3>1. Len(t.todo) \in Nat /\ Len(t.todo) # 0
      BY <1>1
    <3>2. Tail(t.todo) \in Seq(Steps) /\ Len(Tail(t.todo)) = Len(t.todo) - 1
      BY <1>1
    <3>3. Len(<<>>) = 0
      OBVIOUS
    <3>4. Len(Tail(t.todo)) # 0
      BY <1>3, <3>1, <3>2
    <3>5. Tail(t.todo) # <<>>
      BY <3>3, <3>4
    <3> QED BY <3>2, <3>5
  <2>2. rest \in Tasks /\ rest.todo # <<>>
    BY <1>1, <2>1 DEF Tasks
  <2>3. task' = [task EXCEPT ![w] = rest]
    <3>1. task' = [task EXCEPT ![w] = IF Len(t.todo) = 1 THEN None ELSE rest]
      BY DEF Advance
    <3> QED BY <1>3, <3>1
  <2> HIDE DEF rest
  <2>4. task' \in [Workers -> Tasks \cup {None}]
    BY <2>2, <2>3 DEF TypeOK
  <2>5. \A v \in Workers : task'[v] = IF v = w THEN rest ELSE task[v]
    BY <2>3 DEF TypeOK
  <2> QED BY <2>2, <2>4, <2>5 DEF HasSteps, Idle
<1> QED BY <1>2, <1>3

\* Every variable keeps its type, however many goroutines write at once.
LEMMA TypesKept == TypeOK /\ HasSteps /\ [Next]_vars => TypeOK' /\ HasSteps'
<1> SUFFICES ASSUME TypeOK, HasSteps, [Next]_vars PROVE TypeOK' /\ HasSteps'
  OBVIOUS
<1>1. CASE Connect
  BY <1>1 DEF Connect, TypeOK, HasSteps, Idle
<1>2. ASSUME NEW q \in Coords, Move(q) PROVE TypeOK' /\ HasSteps'
  BY <1>2 DEF Move, TypeOK, HasSteps, Idle, Place
<1>3. ASSUME NEW q \in Coords, NEW w \in Movers, Transition(w, q) PROVE TypeOK' /\ HasSteps'
  <2>1. <<"map">> \in Seq(Steps) /\ <<"map">> # <<>> /\ w \in Workers
    BY DEF Steps, Workers
  <2>2. task' \in [Workers -> Tasks \cup {None}] /\ clash' \in BOOLEAN /\ HasSteps'
    BY <1>3, <2>1, AtIsAPlace, StartType DEF Transition
  <2> QED BY <1>3, <2>2, AtIsAPlace DEF Transition, TypeOK
<1>4. ASSUME NEW w \in Despawners, EndSession(w) PROVE TypeOK' /\ HasSteps'
  <2>1. <<"position", "map">> \in Seq(Steps) /\ <<"position", "map">> # <<>> /\ w \in Workers
    BY DEF Steps, Workers
  <2>2. session \in Place
    BY <1>4 DEF EndSession, TypeOK
  <2>3. task' \in [Workers -> Tasks \cup {None}] /\ clash' \in BOOLEAN /\ HasSteps'
    BY <1>4, <2>1, <2>2, StartType DEF EndSession
  <2> QED BY <1>4, <2>2, <2>3 DEF EndSession, TypeOK
<1>5. CASE Displace
  BY <1>5 DEF Displace, TypeOK, HasSteps, Idle
<1>6. CASE Crash
  BY <1>6 DEF Crash, TypeOK, HasSteps, Idle
<1>7. CASE Checkpoint
  <2>1. /\ <<"position", "map", "remember">> \in Seq(Steps)
        /\ <<"position", "map", "remember">> # <<>> /\ "persister" \in Workers
    BY DEF Steps, Workers
  <2>2. session \in Place
    BY <1>7 DEF Checkpoint, TypeOK
  <2>3. task' \in [Workers -> Tasks \cup {None}] /\ clash' \in BOOLEAN /\ HasSteps'
    BY <1>7, <2>1, <2>2, StartType DEF Checkpoint
  <2> QED BY <1>7, <2>3 DEF Checkpoint, TypeOK
<1>8. ASSUME NEW w \in Workers, Write(w) PROVE TypeOK' /\ HasSteps'
  <2>1. task' \in [Workers -> Tasks \cup {None}] /\ HasSteps'
    BY <1>8, AdvanceType DEF Write
  <2>2. task[w] \in Tasks /\ task[w].todo # <<>>
    BY <1>8 DEF Write, Idle, TypeOK, HasSteps
  <2>3. Head(task[w].todo) \in Steps /\ task[w].place \in Place
    BY <2>2 DEF Tasks
  <2>4. record' \in Place /\ lastSaved' \in Place \cup {None}
    BY <1>8, <2>3 DEF Write, Steps, Place, TypeOK
  <2> QED BY <1>8, <2>1, <2>4 DEF Write, TypeOK
<1>9. ASSUME NEW w \in Workers, WriteFails(w) PROVE TypeOK' /\ HasSteps'
  <2>1. task' \in [Workers -> Tasks \cup {None}] /\ HasSteps'
    <3>1. CASE w = "persister"
      BY <1>9, <3>1 DEF WriteFails, TypeOK, HasSteps, Idle
    <3>2. CASE w # "persister"
      BY <1>9, <3>2, AdvanceType DEF WriteFails
    <3> QED BY <3>1, <3>2
  <2> QED BY <1>9, <2>1 DEF WriteFails, TypeOK
<1>10. CASE UNCHANGED vars
  BY <1>10 DEF vars, TypeOK, HasSteps, Idle
<1> QED
  BY <1>1, <1>2, <1>3, <1>4, <1>5, <1>6, <1>7, <1>8, <1>9, <1>10 DEF Next

LEMMA TypesHold == Spec => [](TypeOK /\ HasSteps)
<1>1. Init => TypeOK /\ HasSteps
  BY AtIsAPlace DEF Init, TypeOK, HasSteps, Idle
<1> QED BY <1>1, TypesKept, PTL DEF Spec

\* Every variable keeps its type, however many goroutines write at once: no writer is
\* ever left with a task that has no next step.
THEOREM TypeCorrect == Spec => []TypeOK
BY TypesHold, PTL

-----------------------------------------------------------------------------
(* The writer and the record, as long as there is no clash.                *)

\* The tasks there are, and what is left of them after a step.
LEMMA ShortTasks ==
  /\ Len(<<"map">>) = 1 /\ Head(<<"map">>) = "map"
  /\ Len(<<"remember">>) = 1 /\ Head(<<"remember">>) = "remember"
  /\ Len(<<"position", "map">>) = 2 /\ Head(<<"position", "map">>) = "position"
  /\ Tail(<<"position", "map">>) = <<"map">>
  /\ Len(<<"map", "remember">>) = 2 /\ Head(<<"map", "remember">>) = "map"
  /\ Tail(<<"map", "remember">>) = <<"remember">>
  /\ Len(<<"position", "map", "remember">>) = 3
  /\ Head(<<"position", "map", "remember">>) = "position"
  /\ Tail(<<"position", "map", "remember">>) = <<"map", "remember">>
OBVIOUS

LEMMA TasksDiffer ==
  /\ <<"map">> # <<"remember">>
  /\ <<"map">> # <<"position", "map">>
  /\ <<"map", "remember">> # <<"position", "map", "remember">>
  /\ <<"remember">> # <<"position", "map", "remember">>
  /\ <<"map">> # <<"map", "remember">>
  /\ <<"remember">> # <<"map", "remember">>
<1>1. /\ Len(<<"position", "map">>) = 2 /\ Len(<<"map", "remember">>) = 2
      /\ Len(<<"position", "map", "remember">>) = 3
      /\ Len(<<"map">>) = 1 /\ Len(<<"remember">>) = 1
      /\ Head(<<"map">>) = "map" /\ Head(<<"remember">>) = "remember"
  BY ShortTasks
<1> QED BY <1>1

LEMMA AdvanceIs ==
  ASSUME TypeOK, HasSteps, NEW w \in Workers, ~Idle(w), Advance(w)
  PROVE  /\ \A v \in Workers : v # w => task'[v] = task[v]
         /\ Len(task[w].todo) = 1 => task'[w] = None
         /\ Len(task[w].todo) # 1 =>
              /\ task'[w] # None
              /\ task'[w].todo = Tail(task[w].todo)
              /\ task'[w].place = task[w].place
<1> DEFINE t == task[w]
           rest == [t EXCEPT !.todo = Tail(t.todo)]
<1>1. task' = [task EXCEPT ![w] = IF Len(t.todo) = 1 THEN None ELSE rest]
  BY DEF Advance
<1>2. t \in Tasks /\ t.todo \in Seq(Steps) /\ t.todo # <<>>
  BY DEF TypeOK, Idle, HasSteps, Tasks
<1>3. rest.todo = Tail(t.todo) /\ rest.place = t.place
  BY <1>2 DEF Tasks
<1>4. Tail(t.todo) \in Seq(Steps)
  <2> HIDE DEF t
  <2> QED BY <1>2
<1>5. rest \in Tasks
  BY <1>2, <1>4 DEF Tasks
<1>6. rest # None
  BY <1>5, IdleAssumption
<1> HIDE DEF rest
<1>7. \A v \in Workers : task'[v] = IF v = w THEN (IF Len(t.todo) = 1 THEN None ELSE rest) ELSE task[v]
  BY <1>1 DEF TypeOK
<1> QED BY <1>3, <1>6, <1>7

LEMMA StartIs ==
  ASSUME TypeOK, NEW w \in Workers, NEW todo \in Seq(Steps), NEW place \in Place,
         Start(w, todo, place)
  PROVE  /\ \A v \in Workers : v # w => task'[v] = task[v]
         /\ task'[w] # None /\ task'[w].todo = todo /\ task'[w].place = place
<1> DEFINE new == [todo |-> todo, place |-> place]
<1>1. new \in Tasks /\ new.todo = todo /\ new.place = place
  BY DEF Tasks
<1>2. task' = [task EXCEPT ![w] = new]
  BY DEF Start
<1> HIDE DEF new
<1>3. \A v \in Workers : task'[v] = IF v = w THEN new ELSE task[v]
  BY <1>2 DEF TypeOK
<1> QED BY <1>1, <1>3, IdleAssumption

\* No writer at work: nothing to say about the writers.
LEMMA QuietWriters ==
  Quiet => OneWriter /\ Persisting /\ Moving /\ Despawning
BY DEF Quiet, OneWriter, Persisting, Moving, Despawning, Workers, Despawners, Movers

\* An event that is no writer's: a new session, a displacement, a move.
LEMMA SessionStep ==
  ASSUME Books, TypeOK',
         Connect \/ Displace \/ \E q \in Coords : Move(q)
  PROVE  Leaving' /\ (~clash' => Sole')
<1>1. UNCHANGED <<record, task, clash>> /\ session' \in Place /\ session' # None
  BY NoneIsNoPlace DEF Books, TypeOK, Connect, Displace, Move, Place
<1>2. left' = None
  BY DEF Books, Leaving, Connect, Displace, Move
<1>3. ASSUME ~clash PROVE Sole'
  <2>1. \/ lastSaved' = None
        \/ session # None /\ session'.map = session.map /\ UNCHANGED <<lastSaved, failed>>
    <3>1. CASE Connect
      BY <1>3, <3>1 DEF Connect, Books, Sole, Settled
    <3>2. CASE Displace
      BY <3>2 DEF Displace
    <3>3. ASSUME NEW q \in Coords, Move(q)
          PROVE  session # None /\ session'.map = session.map /\ UNCHANGED <<lastSaved, failed>>
      BY <3>3 DEF Move, Books, TypeOK, Place
    <3> QED BY <3>1, <3>2, <3>3
  <2>2. OneWriter' /\ Persisting'
    BY <1>1, <1>3 DEF Books, Sole, OneWriter, Persisting, Idle
  <2>3. Moving'
    BY <1>1, <1>3, <2>1 DEF Books, Sole, Moving, Idle
  <2>4. Despawning'
    BY <1>1, <1>2, <1>3, <2>1 DEF Books, Sole, Despawning, Idle
  <2>5. Settled'
    BY <1>1, <1>2, <1>3, <2>1 DEF Books, Sole, Settled, Idle
  <2> QED BY <2>2, <2>3, <2>4, <2>5 DEF Sole
<1> QED BY <1>1, <1>2, <1>3 DEF Leaving

\* Whoever starts to write without a clash does so alone; a transition, which
\* writes only a map, has found none either.
LEMMA StartsAlone ==
  ASSUME NEW w \in Workers, NEW todo, NEW place, Start(w, todo, place), ~clash'
  PROVE  Quiet /\ (w \in Movers => ~clash)
BY DEF Start

\* An event that starts a writer: a transition, an end of session, a checkpoint.
LEMMA TransitionStep ==
  ASSUME Books, TypeOK', NEW w \in Movers, NEW q \in Coords, Transition(w, q)
  PROVE  Leaving' /\ (~clash' => Sole')
<1>1. w \in Workers /\ <<"map">> \in Seq(Steps) /\ At(q) \in Place
  BY AtIsAPlace DEF Workers, Steps
<1>2. /\ Start(w, <<"map">>, At(q)) /\ session # None /\ session' = At(q)
      /\ UNCHANGED <<record, lastSaved, left, failed>>
  BY DEF Transition
<1>3. left = None /\ session' # None
  BY <1>1, <1>2, NoneIsNoPlace DEF Books, Leaving
<1>4. ASSUME ~clash' PROVE Sole'
  <2>1. Quiet /\ Sole
    BY <1>1, <1>2, <1>4, StartsAlone DEF Books
  <2>2. /\ \A v \in Workers : v # w => Idle(v)'
        /\ ~Idle(w)' /\ task'[w].todo = <<"map">> /\ task'[w].place = At(q)
    BY <1>1, <1>2, <2>1, StartIs DEF Books, Quiet, Idle
  <2>3. OneWriter' /\ Persisting' /\ Despawning'
    BY <1>1, <2>2 DEF OneWriter, Persisting, Despawning, Workers, Despawners, Movers
  <2>4. Moving'
    BY <1>2, <1>3, <2>2 DEF Moving, Workers
  <2>5. Idle("persister")
    BY <2>1 DEF Quiet, Workers
  <2>6. Settled'
    BY <1>2, <1>3, <2>1, <2>2, <2>5 DEF Sole, Settled, Idle
  <2> QED BY <2>3, <2>4, <2>6 DEF Sole
<1> QED BY <1>2, <1>3, <1>4 DEF Leaving

LEMMA EndStep ==
  ASSUME Books, TypeOK', NEW w \in Despawners, EndSession(w)
  PROVE  Leaving' /\ (~clash' => Sole')
<1>1. w \in Workers /\ <<"position", "map">> \in Seq(Steps) /\ w \notin Movers
  BY DEF Workers, Steps, Despawners, Movers
<1>2. /\ Start(w, <<"position", "map">>, session)
      /\ session \in Place /\ session' = None /\ lastSaved' = None
      /\ left' = IF Quiet THEN session ELSE None
  BY DEF EndSession, Books, TypeOK
<1>3. Leaving'
  BY <1>1, <1>2 DEF Leaving, Start
<1>4. ASSUME ~clash' PROVE Sole'
  <2>1. Quiet
    BY <1>1, <1>2, <1>4, StartsAlone
  <2>2. /\ \A v \in Workers : v # w => Idle(v)'
        /\ ~Idle(w)' /\ task'[w].todo = <<"position", "map">> /\ task'[w].place = session
    BY <1>1, <1>2, <2>1, StartIs DEF Books, Quiet, Idle
  <2>3. OneWriter' /\ Persisting' /\ Moving'
    BY <1>1, <2>2 DEF OneWriter, Persisting, Moving, Workers, Despawners, Movers
  <2>4. Despawning'
    BY <1>2, <2>1, <2>2 DEF Despawning, Workers
  <2>5. Settled'
    BY <1>1, <1>2, <2>2 DEF Settled, Quiet
  <2> QED BY <2>3, <2>4, <2>5 DEF Sole
<1> QED BY <1>3, <1>4

LEMMA CheckpointStep ==
  ASSUME Books, TypeOK', Checkpoint
  PROVE  Leaving' /\ (~clash' => Sole')
<1> DEFINE w == "persister"
           todo == <<"position", "map", "remember">>
<1>1. w \in Workers /\ todo \in Seq(Steps)
  BY DEF Workers, Steps
<1>2. /\ Start(w, todo, session) /\ session \in Place /\ session # None
      /\ UNCHANGED <<record, session, lastSaved, left, failed>>
  BY DEF Checkpoint, Books, TypeOK
<1>3. left = None
  BY <1>2 DEF Books, Leaving
<1> HIDE DEF todo
<1>4. ASSUME ~clash' PROVE Sole'
  <2>1. Quiet
    BY <1>1, <1>2, <1>4, StartsAlone
  <2>2. /\ \A v \in Workers : v # w => Idle(v)'
        /\ ~Idle(w)' /\ task'[w].todo = todo /\ task'[w].place = session
    BY <1>1, <1>2, <2>1, StartIs DEF Books, Quiet, Idle
  <2>3. OneWriter' /\ Moving' /\ Despawning'
    BY <1>1, <2>2 DEF OneWriter, Moving, Despawning, Workers, Despawners, Movers
  <2>4. Persisting'
    BY <1>2, <2>2 DEF Persisting, todo
  <2>5. Settled'
    BY <1>2, <1>3, <2>2 DEF Settled
  <2> QED BY <2>3, <2>4, <2>5 DEF Sole
<1> QED BY <1>2, <1>3, <1>4 DEF Leaving

\* worldsim dies: there is no session left to say anything about, and what was
\* left stands only if nothing was being written.
LEMMA CrashStep ==
  ASSUME Books, TypeOK', Crash
  PROVE  Leaving' /\ (~clash' => Sole')
<1>1. \A w \in Workers : task'[w] = None
  BY DEF Crash
<1>2. Quiet'
  BY <1>1 DEF Quiet, Idle
<1>3. OneWriter' /\ Persisting' /\ Moving' /\ Despawning'
  <2>1. Quiet' => OneWriter' /\ Persisting' /\ Moving' /\ Despawning'
    BY QuietWriters, PTL
  <2> QED BY <1>2, <2>1
<1>4. ~clash' => Settled'
  BY DEF Books, Sole, Settled, Crash
<1>5. Leaving'
  BY DEF Books, Leaving, Crash
<1> QED BY <1>3, <1>4, <1>5 DEF Sole

\* A writer at work is alone, before its step and after it.
LEMMA StepAlone ==
  ASSUME OneWriter, NEW w \in Workers, ~Idle(w), \A v \in Workers : v # w => task'[v] = task[v]
  PROVE  (\A v \in Workers : v # w => Idle(v)) /\ (\A v \in Workers : v # w => Idle(v)')
BY DEF OneWriter, Idle

LEMMA WriterDone ==
  ASSUME OneWriter, NEW w \in Workers, ~Idle(w), task'[w] = None,
         \A v \in Workers : v # w => task'[v] = task[v]
  PROVE  Quiet' /\ OneWriter' /\ Persisting' /\ Moving' /\ Despawning'
<1>1. Quiet'
  BY StepAlone DEF Quiet, Idle
<1>2. Quiet' => OneWriter' /\ Persisting' /\ Moving' /\ Despawning'
  BY QuietWriters, PTL
<1> QED BY <1>1, <1>2

LEMMA PersisterWrites ==
  ASSUME TypeOK, HasSteps, Leaving, Sole, TypeOK', Write("persister")
  PROVE  Sole'
<1> DEFINE w == "persister"
           t == task[w]
<1> USE DEF Sole
<1>1. w \in Workers /\ ~Idle(w) /\ Advance(w) /\ UNCHANGED <<session, left, failed>>
  BY DEF Write, Workers
<1>2. /\ \A v \in Workers : v # w => task'[v] = task[v]
      /\ Len(t.todo) = 1 => task'[w] = None
      /\ Len(t.todo) # 1 => task'[w] # None /\ task'[w].todo = Tail(t.todo) /\ task'[w].place = t.place
  BY <1>1, AdvanceIs
<1>3. t.place \in Place /\ session # None /\ record \in Place /\ left = None
  BY <1>1 DEF TypeOK, Idle, Tasks, Persisting, Leaving
<1>4. \A v \in Workers : v # w => Idle(v) /\ Idle(v)'
  BY <1>1, <1>2, StepAlone
<1>5. OneWriter' /\ Moving' /\ Despawning'
  BY <1>1, <1>4 DEF OneWriter, Moving, Despawning, Workers, Despawners, Movers
<1>6. CASE t.todo = <<"position", "map", "remember">>
  <2>1. /\ record' = [record EXCEPT !.coords = t.place.coords]
        /\ task'[w] # None /\ task'[w].todo = <<"map", "remember">> /\ task'[w].place = t.place
    BY <1>2, <1>6, ShortTasks DEF Write
  <2>2. record'.coords = t.place.coords
    BY <1>3, <2>1 DEF Place
  <2>3. Persisting'
    BY <1>1, <1>3, <2>1, <2>2 DEF Persisting
  <2>4. Settled'
    BY <1>1, <1>3, <2>1 DEF Settled, Idle
  <2> QED BY <1>5, <2>3, <2>4
<1>7. CASE t.todo = <<"map", "remember">>
  <2>1. /\ record' = [record EXCEPT !.map = t.place.map]
        /\ task'[w] # None /\ task'[w].todo = <<"remember">> /\ task'[w].place = t.place
    BY <1>2, <1>7, ShortTasks DEF Write
  <2>2. record.coords = t.place.coords
    BY <1>1, <1>7, TasksDiffer DEF Persisting
  <2>3. record'.coords = t.place.coords /\ record'.map = t.place.map /\ record' \in Place
    BY <1>3, <2>1, <2>2 DEF Place, TypeOK
  <2>4. record' = t.place
    BY <1>3, <2>3 DEF Place
  <2>5. Persisting'
    BY <1>1, <1>3, <2>1, <2>4 DEF Persisting
  <2>6. Settled'
    BY <1>1, <1>3, <2>1 DEF Settled, Idle
  <2> QED BY <1>5, <2>5, <2>6
<1>8. CASE t.todo = <<"remember">>
  <2>1. record' = record /\ lastSaved' = t.place /\ task'[w] = None
    BY <1>2, <1>8, ShortTasks DEF Write
  <2>2. record = t.place
    BY <1>1, <1>8, TasksDiffer DEF Persisting
  <2>3. Quiet' /\ OneWriter' /\ Persisting' /\ Moving' /\ Despawning'
    BY <1>1, <1>2, <2>1, WriterDone
  <2>4. Settled'
    BY <1>1, <1>3, <2>1, <2>2 DEF Settled
  <2> QED BY <2>3, <2>4
<1> QED BY <1>1, <1>6, <1>7, <1>8 DEF Persisting

LEMMA MoverWrites ==
  ASSUME TypeOK, HasSteps, Leaving, Sole, TypeOK', NEW w \in Movers, Write(w)
  PROVE  Sole'
<1> DEFINE t == task[w]
<1> USE DEF Sole
<1>1. w \in Workers /\ ~Idle(w) /\ Advance(w) /\ UNCHANGED <<session, left, failed>>
  BY DEF Write, Workers
<1>2. /\ t.place \in Place /\ session # None /\ t.todo = <<"map">> /\ record \in Place
      /\ left = None /\ (lastSaved # None => session.map = t.place.map)
  BY <1>1 DEF TypeOK, Idle, Tasks, Moving, Leaving
<1>3. /\ \A v \in Workers : v # w => task'[v] = task[v]
      /\ task'[w] = None
  BY <1>1, <1>2, AdvanceIs, ShortTasks
<1>4. record' = [record EXCEPT !.map = t.place.map] /\ lastSaved' = lastSaved
  BY <1>2, ShortTasks DEF Write
<1>5. record'.map = t.place.map /\ record'.coords = record.coords
  BY <1>2, <1>4 DEF Place
<1>6. Quiet' /\ OneWriter' /\ Persisting' /\ Moving' /\ Despawning'
  BY <1>1, <1>3, WriterDone
<1>7. Idle("persister")
  BY <1>1, <1>3, StepAlone DEF Workers, Movers
<1>8. Settled'
  BY <1>1, <1>2, <1>4, <1>5, <1>7 DEF Settled
<1> QED BY <1>6, <1>8

LEMMA DespawnerWrites ==
  ASSUME TypeOK, HasSteps, Sole, TypeOK', NEW w \in Despawners, Write(w)
  PROVE  Sole'
<1> DEFINE t == task[w]
<1> USE DEF Sole
<1>1. w \in Workers /\ ~Idle(w) /\ Advance(w) /\ UNCHANGED <<session, left, failed>>
  BY DEF Write, Workers
<1>2. t.place \in Place /\ lastSaved = None /\ record \in Place /\ (left # None => left = t.place)
  BY <1>1 DEF TypeOK, Idle, Tasks, Despawning
<1>3. /\ \A v \in Workers : v # w => task'[v] = task[v]
      /\ Len(t.todo) = 1 => task'[w] = None
      /\ Len(t.todo) # 1 => task'[w] # None /\ task'[w].todo = Tail(t.todo) /\ task'[w].place = t.place
  BY <1>1, AdvanceIs
<1>4. \A v \in Workers : v # w => Idle(v) /\ Idle(v)'
  BY <1>1, <1>3, StepAlone
<1>5. CASE t.todo = <<"position", "map">>
  <2>1. /\ record' = [record EXCEPT !.coords = t.place.coords] /\ lastSaved' = lastSaved
        /\ task'[w] # None /\ task'[w].todo = <<"map">> /\ task'[w].place = t.place
    BY <1>3, <1>5, ShortTasks DEF Write
  <2>2. record'.coords = t.place.coords
    BY <1>2, <2>1 DEF Place
  <2>3. OneWriter' /\ Persisting' /\ Moving'
    BY <1>1, <1>4 DEF OneWriter, Persisting, Moving, Workers, Despawners, Movers
  <2>4. Despawning'
    BY <1>1, <1>2, <1>4, <2>1, <2>2 DEF Despawning, Workers
  <2>5. Settled'
    BY <1>1, <1>2, <2>1 DEF Settled, Quiet, Idle
  <2> QED BY <2>3, <2>4, <2>5
<1>6. CASE t.todo = <<"map">>
  <2>1. record' = [record EXCEPT !.map = t.place.map] /\ lastSaved' = lastSaved /\ task'[w] = None
    BY <1>3, <1>6, ShortTasks DEF Write
  <2>2. left # None => record.coords = t.place.coords
    BY <1>1, <1>6, TasksDiffer DEF Despawning
  <2>3. left # None => record'.coords = t.place.coords /\ record'.map = t.place.map
    BY <1>2, <2>1, <2>2 DEF Place
  <2>4. left # None => record' = left
    BY <1>2, <2>3 DEF Place, TypeOK
  <2>5. Quiet' /\ OneWriter' /\ Persisting' /\ Moving' /\ Despawning'
    BY <1>1, <1>3, <2>1, WriterDone
  <2>6. Settled'
    BY <1>1, <1>2, <2>1, <2>4 DEF Settled
  <2> QED BY <2>5, <2>6
<1> QED BY <1>1, <1>5, <1>6 DEF Despawning

\* A refused save: the persister gives the player up, a despawn goes on.
LEMMA FailureStep ==
  ASSUME TypeOK, HasSteps, Leaving, Sole, TypeOK', NEW w \in Workers, WriteFails(w)
  PROVE  Sole'
<1> DEFINE t == task[w]
<1> USE DEF Sole
<1>1. /\ ~Idle(w) /\ failed' = TRUE /\ UNCHANGED <<record, session, lastSaved>>
      /\ left' = IF w \in Despawners THEN None ELSE left
  BY DEF WriteFails
<1>2. \A v \in Workers : v # w => task'[v] = task[v]
  <2>1. CASE w = "persister"
    BY <2>1 DEF WriteFails, TypeOK
  <2>2. CASE w # "persister"
    BY <1>1, <2>2, AdvanceIs DEF WriteFails
  <2> QED BY <2>1, <2>2
<1>3. left' = None
  BY <1>1 DEF Workers, Persisting, Moving, Leaving
<1>4. Settled'
  BY <1>1, <1>3 DEF Settled
<1>5. CASE w \notin Despawners
  <2>1. task'[w] = None
    <3>1. CASE w = "persister"
      BY <3>1 DEF WriteFails, TypeOK
    <3>2. CASE w \in Movers
      <4>1. Advance(w) /\ t.todo = <<"map">>
        BY <1>1, <3>2 DEF WriteFails, Moving, Movers
      <4> QED BY <1>1, <4>1, AdvanceIs, ShortTasks
    <3> QED BY <1>5, <3>1, <3>2 DEF Workers
  <2>2. Quiet' /\ OneWriter' /\ Persisting' /\ Moving' /\ Despawning'
    BY <1>1, <1>2, <2>1, WriterDone
  <2> QED BY <1>4, <2>2
<1>6. CASE w \in Despawners
  <2>1. Advance(w)
    BY <1>6 DEF WriteFails, Despawners
  <2>2. \A v \in Workers : v # w => Idle(v)'
    BY <1>1, <1>2, StepAlone
  <2>3. OneWriter' /\ Persisting' /\ Moving'
    BY <1>6, <2>2 DEF OneWriter, Persisting, Moving, Workers, Despawners, Movers
  <2>4. Despawning'
    <3>1. CASE t.todo = <<"position", "map">>
      <4>1. Len(t.todo) # 1 => task'[w].todo = Tail(t.todo)
        BY <1>1, <2>1, AdvanceIs
      <4>2. Len(t.todo) # 1
        BY <3>1, ShortTasks
      <4>3. task'[w].todo = <<"map">>
        BY <3>1, <4>1, <4>2, ShortTasks
      <4>4. lastSaved' = None
        BY <1>1, <1>6 DEF Despawning
      <4> QED BY <1>3, <1>6, <2>2, <4>3, <4>4 DEF Despawning, Workers
    <3>2. CASE t.todo = <<"map">>
      <4>1. task'[w] = None
        BY <1>1, <2>1, <3>2, AdvanceIs, ShortTasks
      <4> QED BY <2>2, <4>1 DEF Despawning, Workers, Idle
    <3> QED BY <1>1, <1>6, <3>1, <3>2 DEF Despawning
  <2> QED BY <1>4, <2>3, <2>4
<1> QED BY <1>5, <1>6

LEMMA BooksKept == Books /\ [Next]_vars => Books'
<1> SUFFICES ASSUME Books, [Next]_vars PROVE Books'
  OBVIOUS
<1>1. TypeOK' /\ HasSteps'
  BY TypesKept DEF Books
<1>2. CASE Connect
  BY <1>1, <1>2, SessionStep DEF Books
<1>3. ASSUME NEW q \in Coords, Move(q) PROVE Books'
  BY <1>1, <1>3, SessionStep DEF Books
<1>4. ASSUME NEW q \in Coords, NEW w \in Movers, Transition(w, q) PROVE Books'
  BY <1>1, <1>4, TransitionStep DEF Books
<1>5. ASSUME NEW w \in Despawners, EndSession(w) PROVE Books'
  BY <1>1, <1>5, EndStep DEF Books
<1>6. CASE Displace
  BY <1>1, <1>6, SessionStep DEF Books
<1>7. CASE Crash
  BY <1>1, <1>7, CrashStep DEF Books
<1>8. CASE Checkpoint
  BY <1>1, <1>8, CheckpointStep DEF Books
<1>9. ASSUME NEW w \in Workers, Write(w) PROVE Books'
  <2>1. w = "persister" \/ w \in Movers \/ w \in Despawners
    BY DEF Workers
  <2>2. UNCHANGED <<session, left, clash>>
    BY <1>9 DEF Write
  <2>3. ~clash => Sole'
    BY <1>1, <1>9, <2>1, PersisterWrites, MoverWrites, DespawnerWrites DEF Books
  <2> QED BY <1>1, <2>2, <2>3 DEF Books, Leaving
<1>10. ASSUME NEW w \in Workers, WriteFails(w) PROVE Books'
  <2>1. UNCHANGED <<session, clash>> /\ left' \in {left, None}
    BY <1>10 DEF WriteFails
  <2>2. ~clash => Sole'
    BY <1>1, <1>10, FailureStep DEF Books
  <2> QED BY <1>1, <2>1, <2>2 DEF Books, Leaving
<1>11. CASE UNCHANGED vars
  BY <1>11 DEF vars, Books, TypeOK, HasSteps, Leaving, Sole, OneWriter, Persisting, Moving,
    Despawning, Settled, Quiet, Idle
<1> QED
  BY <1>2, <1>3, <1>4, <1>5, <1>6, <1>7, <1>8, <1>9, <1>10, <1>11 DEF Next

LEMMA BooksHold == Spec => []Books
<1>1. Init => Books
  <2> SUFFICES ASSUME Init PROVE Books
    OBVIOUS
  <2>1. TypeOK /\ HasSteps
    BY AtIsAPlace DEF Init, TypeOK, HasSteps, Idle
  <2>2. Quiet
    BY DEF Init, Quiet, Idle
  <2>3. Settled /\ Leaving
    BY DEF Init, Settled, Leaving
  <2> QED BY <2>1, <2>2, <2>3, QuietWriters DEF Books, Sole
<1> QED BY <1>1, BooksKept, PTL DEF Spec

\* When the persister skips a player because lastSavedPos holds the present
\* place (collectChangedPositionsLocked), the record holds it too, whichever
\* moves, displacements, despawns, transitions, crashes and refused saves came
\* while it or another goroutine was writing; unless two of them wrote at once
\* and none has saved all of the place since.
THEOREM SkipsAreSound == Spec => []SkipIsSound
<1>1. Books => SkipIsSound
  <2> SUFFICES ASSUME Books, Quiet, session # None, lastSaved = session, ~failed, ~clash
               PROVE  record = session
    BY DEF SkipIsSound
  <2>1. Idle("persister") /\ \A w \in Movers : Idle(w)
    BY DEF Quiet, Workers
  <2>2. record.coords = session.coords /\ record.map = session.map
    BY <2>1 DEF Books, Sole, Settled
  <2> QED BY <2>2 DEF Books, TypeOK, Place
<1> QED BY <1>1, BooksHold, PTL

\* A player who reconnects is put where the last session ended, coordinates and
\* map, whenever the despawn could save both and no goroutine was writing when it
\* began: provisionClient reads a record that the two writes of despawnClient
\* have made whole again, whatever was written at once before.
THEOREM PlayersReturn == Spec => RestoredWhereLeft
<1>1. Books /\ [Next]_vars =>
        [session = None /\ session' # None /\ left # None /\ Quiet => session' = left]_vars
  <2> SUFFICES ASSUME Books, [Next]_vars, session = None, session' # None, left # None, Quiet
               PROVE  session' = left
    OBVIOUS
  <2>1. Connect
    <3>1. \A w \in Workers : ~Write(w) /\ ~WriteFails(w)
      BY DEF Write, WriteFails
    <3> QED BY <3>1 DEF Next, Move, Transition, EndSession, Displace, Crash, Checkpoint, vars
  <2>2. session' = record
    BY <2>1 DEF Connect
  <2> QED BY <2>2 DEF Books, Leaving, Sole, Settled
<1> QED BY <1>1, BooksHold, PTL DEF Spec, RestoredWhereLeft
=============================================================================
