-------------------------- MODULE ExtensionsProofs --------------------------
(***************************************************************************)
(* Theorems about Extensions and ExtAv, for any doors, any sets of doors   *)
(* within reach, any zones and proximity groups, and any number of faults. *)
(*                                                                         *)
(* The doors and the walls meet through two queues that know nothing of    *)
(* each other.  Walled says that the zones of ext-walls, taken along the   *)
(* requests still in its queue, lead to the zones that will be closed when *)
(* ext-props has acted too: a path of zones, one for each request, since   *)
(* nothing is claimed about how many there are.  It rests on who can have  *)
(* requests (Asked), on nobody acting before all are ready (FirstAll) and  *)
(* on who can have written what is on its way (Known).                     *)
(*                                                                         *)
(* The client's room is right but for the events of one step of the world  *)
(* simulation, which the handlers of ext-av apply in any order (OneStep,   *)
(* RightRoom).                                                             *)
(***************************************************************************)
EXTENDS MCExtensions, TLAPS

-----------------------------------------------------------------------------
(* The doors and their walls. *)

Requests == [targets : SUBSET Doors, seen : [Doors -> {"on", "off"}], late : BOOLEAN]
Messages == [ext : Exts, zones : SUBSET Doors]
Snapshots == [zones : SUBSET Doors]
Askings == [pc : {"asking"}, todo : SUBSET Exts, asked : Exts \cup {None},
            targets : [props : SUBSET Doors, walls : SUBSET Doors],
            seen : [Doors -> {"on", "off"}]]

\* The types of the queues and of applyAction's variables too.
DoorTypes ==
  /\ TypeOK
  /\ action = NoAction \/ action \in Askings
  /\ requests \in [Exts -> Seq(Requests)]
  /\ zonesQueue \in Seq(SUBSET Doors) /\ optionsQueue \in Seq(BOOLEAN)
  /\ publishing["action"] # None => requests["walls"] # <<>>

\* Who wrote something has started, and who died is noticed.
Known ==
  ~missed =>
    /\ inputTriggers \subseteq up
    /\ \A m \in 1..Len(registrations) : registrations[m].ext \in up
    /\ \A p \in Registrars : publishing[p] # None => "walls" \in up
    /\ zonesQueue = <<>>

\* Until all have started, and are ready, nobody has interacted.
Untouched ==
  /\ door = [d \in Doors |-> "off"] /\ action = NoAction
  /\ requests = [x \in Exts |-> <<>>] /\ publishing["action"] = None
Together == up = Exts \cup {"worldsim"} /\ starting = {}
FirstAll == ~missed => Untouched \/ Together

\* applyAction waits for one extension at a time: only ext-walls can have
\* requests it no longer waits for.
Pending(x) == x \in action.todo \/ action.asked = x
Asked ==
  ~missed =>
    /\ \A n \in 1..Len(requests["walls"]) : ~requests["walls"][n].late =>
         n = Len(requests["walls"]) /\ action.asked = "walls"
    /\ requests["props"] = <<>> <=> action.asked # "props"
    /\ action.asked = "props" =>
         /\ Len(requests["props"]) = 1
         /\ requests["props"][1] = [targets |-> action.targets["props"], seen |-> action.seen, late |-> FALSE]
    /\ action.asked \notin action.todo
    /\ action.pc = "asking" =>
         /\ action.targets["walls"] = action.targets["props"]
         /\ Pending("props") => action.seen = door

\* The zones that are closed once ext-props has acted, and when ext-walls will
\* have acted on all it was sent.
Targets == IF action.pc = "asking" THEN action.targets["walls"] ELSE {}
Closed == {d \in Doors : door[d] = "off"}
After == IF Pending("props") THEN Flipped(Closed, Targets) ELSE Closed
Goal == IF "walls" \in action.todo THEN Flipped(After, Targets) ELSE After

\* The request that ext-walls has acted on, but not replied to, is still in
\* its queue.
First == IF publishing["action"] = None THEN 0 ELSE 1

\* path: ext-walls' zones after each of the requests in its queue.
Leads(path, q, k, from, to) ==
  /\ path[k] = from /\ path[Len(q)] = to
  /\ \A n \in 1..Len(q) : n > k => path[n] = Flipped(path[n - 1], q[n].targets)
Walled ==
  ~missed /\ {"walls", "worldsim"} \subseteq up /\ "walls" \notin starting =>
    \E path \in [0..Len(requests["walls"]) -> SUBSET Doors] :
      Leads(path, requests["walls"], First, wallZones, Goal)

DoorInv == DoorTypes /\ Known /\ FirstAll /\ Asked /\ Walled

LEMMA AppendIs ==
  ASSUME NEW T, NEW q \in Seq(T), NEW x \in T
  PROVE  /\ Append(q, x) \in Seq(T) /\ Len(Append(q, x)) = Len(q) + 1 /\ Len(q) \in Nat
         /\ Append(q, x) # <<>> /\ Append(q, x)[Len(q) + 1] = x
         /\ \A n \in 1..Len(q) : Append(q, x)[n] = q[n]
OBVIOUS

LEMMA TailIs ==
  ASSUME NEW T, NEW q \in Seq(T), q # <<>>
  PROVE  /\ Head(q) \in T /\ Tail(q) \in Seq(T) /\ Len(Tail(q)) = Len(q) - 1
         /\ Len(q) \in Nat /\ Len(q) >= 1 /\ Head(q) = q[1]
         /\ \A n \in 1..(Len(q) - 1) : Tail(q)[n] = q[n + 1]
OBVIOUS

\* Requests that nobody waits for any more are the same requests.
LateOf(q) == [i \in DOMAIN q |-> [q[i] EXCEPT !.late = TRUE]]
LEMMA LateIs ==
  ASSUME NEW q \in Seq(Requests)
  PROVE  /\ LateOf(q) \in Seq(Requests) /\ Len(LateOf(q)) = Len(q)
         /\ \A n \in 1..Len(q) : LateOf(q)[n].late /\ LateOf(q)[n].targets = q[n].targets
         /\ LateOf(q) = <<>> <=> q = <<>>
<1>1. Len(q) \in Nat /\ DOMAIN q = 1..Len(q)
  OBVIOUS
<1>2. \A n \in 1..Len(q) : q[n] \in Requests
  OBVIOUS
<1>3. ASSUME NEW n \in 1..Len(q)
      PROVE  /\ [q[n] EXCEPT !.late = TRUE] \in Requests
             /\ [q[n] EXCEPT !.late = TRUE].late
             /\ [q[n] EXCEPT !.late = TRUE].targets = q[n].targets
  <2> DEFINE r == q[n]
  <2>1. r \in Requests
    BY <1>2
  <2> HIDE DEF r
  <2>2. [r EXCEPT !.late = TRUE] \in Requests /\ [r EXCEPT !.late = TRUE].late
        /\ [r EXCEPT !.late = TRUE].targets = r.targets
    BY <2>1 DEF Requests
  <2> QED BY <2>2 DEF r
<1> DEFINE late(n) == [q[n] EXCEPT !.late = TRUE]
           l == [n \in 1..Len(q) |-> late(n)]
<1>4. LateOf(q) = l
  BY <1>1 DEF LateOf
<1>5. \A n \in 1..Len(q) : late(n) \in Requests /\ late(n).late /\ late(n).targets = q[n].targets
  BY <1>3
<1> HIDE DEF late
<1>6. l \in [1..Len(q) -> Requests] /\ \A n \in 1..Len(q) : l[n] = late(n)
  BY <1>5
<1>7. l \in Seq(Requests) /\ Len(l) = Len(q)
  BY <1>1, <1>6
<1> HIDE DEF l
<1>8. \A s \in Seq(Requests) : s = <<>> <=> Len(s) = 0
  OBVIOUS
<1> QED BY <1>4, <1>5, <1>6, <1>7, <1>8

\* Toggling twice is not toggling.
LEMMA FlipTwice ==
  ASSUME NEW z, NEW t
  PROVE  Flipped(Flipped(z, t), t) = z
BY DEF Flipped

LEMMA FlipType ==
  ASSUME NEW z \in SUBSET Doors, NEW t \in SUBSET Doors
  PROVE  Flipped(z, t) \in SUBSET Doors
BY DEF Flipped

\* ext-walls' zones along its queue: a request more, the first one done, and
\* the first one answered.
LEMMA PathGrows ==
  ASSUME NEW q \in Seq(Requests), NEW r \in Requests, NEW k \in {0, 1}, k <= Len(q),
         NEW path \in [0..Len(q) -> SUBSET Doors], NEW from, NEW to, NEW goal \in SUBSET Doors,
         Leads(path, q, k, from, to), goal = Flipped(to, r.targets)
  PROVE  \E new \in [0..Len(Append(q, r)) -> SUBSET Doors] : Leads(new, Append(q, r), k, from, goal)
<1> DEFINE a == Append(q, r)
           m == Len(q) + 1
           new == [n \in 0..m |-> IF n = m THEN goal ELSE path[n]]
<1>1. a \in Seq(Requests) /\ Len(a) = m /\ Len(q) \in Nat /\ a[m] = r
      /\ \A n \in 1..Len(q) : a[n] = q[n]
  BY AppendIs
<1> HIDE DEF a
<1>2. new \in [0..Len(a) -> SUBSET Doors]
  BY <1>1
<1>3. \A n \in 0..Len(q) : new[n] = path[n] /\ n # m
  BY <1>1
<1>4. new[m] = goal /\ m - 1 = Len(q)
  BY <1>1
<1> HIDE DEF new
<1>5. new[k] = from /\ new[Len(a)] = goal
  BY <1>1, <1>3, <1>4 DEF Leads
<1>6. ASSUME NEW n \in 1..Len(a), n > k PROVE new[n] = Flipped(new[n - 1], a[n].targets)
  <2>1. CASE n = m
    BY <2>1, <1>1, <1>3, <1>4 DEF Leads
  <2>2. CASE n # m
    <3>1. n \in 1..Len(q) /\ n - 1 \in 0..Len(q) /\ n \in 0..Len(q)
      BY <2>2, <1>1
    <3> QED BY <3>1, <1>1, <1>3, <1>6 DEF Leads
  <2> QED BY <2>1, <2>2
<1>7. Leads(new, a, k, from, goal)
  BY <1>5, <1>6 DEF Leads
<1> QED BY <1>2, <1>7 DEF a

LEMMA PathStarts ==
  ASSUME NEW q \in Seq(Requests), q # <<>>, NEW path \in [0..Len(q) -> SUBSET Doors],
         NEW from, NEW to, Leads(path, q, 0, from, to)
  PROVE  Leads(path, q, 1, Flipped(from, q[1].targets), to)
<1>1. Len(q) \in Nat /\ Len(q) >= 1 /\ 1 \in 1..Len(q) /\ 1 - 1 = 0 /\ 1 > 0
  OBVIOUS
<1>2. path[1] = Flipped(path[0], q[1].targets)
  BY <1>1 DEF Leads
<1>3. \A n \in 1..Len(q) : n > 1 => n > 0
  BY <1>1
<1> QED BY <1>2, <1>3 DEF Leads

LEMMA PathShrinks ==
  ASSUME NEW q \in Seq(Requests), q # <<>>, NEW path \in [0..Len(q) -> SUBSET Doors],
         NEW from, NEW to, Leads(path, q, 1, from, to)
  PROVE  \E new \in [0..Len(Tail(q)) -> SUBSET Doors] : Leads(new, Tail(q), 0, from, to)
<1> DEFINE t == Tail(q)
           new == [n \in 0..Len(t) |-> path[n + 1]]
<1>1. t \in Seq(Requests) /\ Len(t) = Len(q) - 1 /\ Len(q) \in Nat /\ Len(q) >= 1
      /\ \A n \in 1..(Len(q) - 1) : t[n] = q[n + 1]
  BY TailIs
<1> HIDE DEF t
<1>2. \A n \in 0..Len(t) : n + 1 \in 0..Len(q)
  BY <1>1
<1>3. new \in [0..Len(t) -> SUBSET Doors] /\ \A n \in 0..Len(t) : new[n] = path[n + 1]
  BY <1>2
<1> HIDE DEF new
<1>4. new[0] = from /\ new[Len(t)] = to
  <2>1. 0 \in 0..Len(t) /\ Len(t) \in 0..Len(t) /\ 0 + 1 = 1 /\ Len(t) + 1 = Len(q)
    BY <1>1
  <2> QED BY <2>1, <1>3 DEF Leads
<1>5. ASSUME NEW n \in 1..Len(t), n > 0 PROVE new[n] = Flipped(new[n - 1], t[n].targets)
  <2>1. /\ n \in 0..Len(t) /\ n - 1 \in 0..Len(t) /\ (n - 1) + 1 = n /\ (n + 1) - 1 = n
        /\ n + 1 \in 1..Len(q) /\ n + 1 > 1 /\ n \in 1..(Len(q) - 1)
    BY <1>1
  <2>2. path[n + 1] = Flipped(path[n], q[n + 1].targets)
    BY <2>1 DEF Leads
  <2> QED BY <2>1, <2>2, <1>1, <1>3
<1>6. Leads(new, t, 0, from, to)
  BY <1>4, <1>5 DEF Leads
<1> QED BY <1>3, <1>6 DEF t

LEMMA PathEnds ==
  ASSUME NEW path, NEW from, NEW to, Leads(path, <<>>, 0, from, to)
  PROVE  from = to
BY DEF Leads

LEMMA PathTrivial ==
  ASSUME NEW z \in SUBSET Doors
  PROVE  \E path \in [0..Len(<<>>) -> SUBSET Doors] : Leads(path, <<>>, 0, z, z)
<1> DEFINE path == [n \in 0..0 |-> z]
<1>1. Len(<<>>) = 0 /\ path \in [0..0 -> SUBSET Doors] /\ path[0] = z /\ \A n \in 1..0 : FALSE
  OBVIOUS
<1> HIDE DEF path
<1>2. Leads(path, <<>>, 0, z, z)
  BY <1>1 DEF Leads
<1> QED BY <1>1, <1>2

\* Requests that are late are as good as others.
LEMMA PathSame ==
  ASSUME NEW q \in Seq(Requests), NEW s \in Seq(Requests), Len(s) = Len(q),
         \A n \in 1..Len(q) : s[n].targets = q[n].targets,
         NEW path, NEW k, NEW from, NEW to, Leads(path, q, k, from, to)
  PROVE  Leads(path, s, k, from, to)
BY DEF Leads

LEMMA RegistersIs ==
  ASSUME registrations \in Seq(Messages), NEW x \in Exts, NEW zones \in SUBSET Doors,
         Registers(x, zones)
  PROVE  /\ registrations' \in Seq(Messages)
         /\ \A m \in 1..Len(registrations') :
              registrations'[m].ext = x \/ (m \in 1..Len(registrations) /\ registrations'[m] = registrations[m])
<1>1. CASE "worldsim" \in up
  <2> DEFINE r == [ext |-> x, zones |-> zones]
             new == Append(registrations, r)
  <2>1. registrations' = new
    BY <1>1 DEF Registers
  <2>2. r \in Messages /\ r.ext = x
    BY DEF Messages
  <2> HIDE DEF r
  <2>3. /\ new \in Seq(Messages) /\ Len(new) = Len(registrations) + 1 /\ Len(registrations) \in Nat
        /\ new[Len(registrations) + 1] = r /\ \A n \in 1..Len(registrations) : new[n] = registrations[n]
    BY <2>2, AppendIs
  <2> HIDE DEF new
  <2>4. \A m \in 1..Len(new) : m = Len(registrations) + 1 \/ m \in 1..Len(registrations)
    BY <2>3
  <2> QED BY <2>1, <2>2, <2>3, <2>4
<1>2. CASE "worldsim" \notin up
  BY <1>2 DEF Registers
<1> QED BY <1>1, <1>2

LEMMA GatesType ==
  ASSUME NEW z \in SUBSET Doors
  PROVE  [zones |-> Gates(z)] \in Snapshots
BY DEF Gates, Snapshots

LEMMA RegistrationsType ==
  ASSUME TypeOK
  PROVE  registrations \in Seq(Messages) /\ publishing \in [Registrars -> Snapshots \cup {None}]
BY DEF TypeOK, Messages, Snapshots

\* The actions of ext-walls, ext-props and the registration.
LEMMA ReadyTypes ==
  ASSUME DoorTypes, WallsReady \/ PropsReady \/ Tick \/ WallsAct \/ ZonesArrive
  PROVE  DoorTypes'
<1>1. TypeOK /\ registrations \in Seq(Messages) /\ publishing \in [Registrars -> Snapshots \cup {None}]
  BY RegistrationsType DEF DoorTypes
<1>2. {"ready", "loop", "zones", "action"} = Registrars
  BY DEF Registrars
<1>3. ASSUME NEW p \in Registrars, NEW z \in SUBSET Doors,
             publishing' = [publishing EXCEPT ![p] = [zones |-> Gates(z)]]
      PROVE  /\ publishing' \in [Registrars -> Snapshots \cup {None}]
             /\ \A q \in Registrars : q # p => publishing'[q] = publishing[q]
  <2> DEFINE s == [zones |-> Gates(z)]
  <2>1. s \in Snapshots
    BY GatesType
  <2> HIDE DEF s
  <2>2. publishing' = [publishing EXCEPT ![p] = s]
    BY <1>3 DEF s
  <2> QED BY <1>1, <2>1, <2>2
<1>4. CASE WallsReady
  <2>1. wallZones' \in SUBSET Doors /\ starting' \subseteq Exts \cap up
    BY <1>1, <1>4 DEF WallsReady, TypeOK
  <2>2. publishing' = [publishing EXCEPT !["ready"] = [zones |-> Gates(wallZones')]]
        /\ UNCHANGED <<up, worldsimVars, busVars, enabled, missed, faults>>
    BY <1>4 DEF WallsReady
  <2>3. /\ publishing' \in [Registrars -> Snapshots \cup {None}]
        /\ publishing'["action"] = publishing["action"]
    BY <2>1, <2>2, <1>2, <1>3
  <2> QED BY <2>1, <2>2, <2>3, <1>1 DEF DoorTypes, TypeOK, worldsimVars, busVars, Snapshots
<1>5. CASE PropsReady
  <2>1. /\ starting' \subseteq Exts \cap up /\ Registers("props", {})
        /\ UNCHANGED <<up, worldsimVars, requests, zonesQueue, optionsQueue, wallsVars, missed, faults>>
    BY <1>1, <1>5 DEF PropsReady, TypeOK
  <2>2. registrations' \in Seq(Messages)
    BY <2>1, <1>1, RegistersIs DEF Exts
  <2> QED BY <2>1, <2>2, <1>1 DEF DoorTypes, TypeOK, worldsimVars, wallsVars, Messages
<1>6. CASE Tick
  <2>1. extensions' \in [Exts -> 0..(staleAfter + 1) \cup {None}]
    BY <1>1, <1>6 DEF Tick, TypeOK, staleAfter
  <2>2. registrations' \in Seq(Messages)
    BY <1>1, <1>6, RegistersIs DEF Tick, Exts
  <2>3. /\ publishing' \in [Registrars -> Snapshots \cup {None}]
        /\ publishing'["action"] = publishing["action"]
    <3>1. wallZones \in SUBSET Doors
      BY <1>1 DEF TypeOK
    <3>2. publishing' = publishing \/ publishing' = [publishing EXCEPT !["loop"] = [zones |-> Gates(wallZones)]]
      BY <1>6 DEF Tick
    <3> QED BY <3>1, <3>2, <1>1, <1>2, <1>3
  <2>4. UNCHANGED <<up, gateTriggers, inputTriggers, door, action, row, requests, zonesQueue,
                 optionsQueue, starting, wallZones, enabled, missed, faults>>
    BY <1>6 DEF Tick
  <2> QED BY <2>1, <2>2, <2>3, <2>4, <1>1 DEF DoorTypes, TypeOK, Messages, Snapshots
<1>7. CASE WallsAct
  <2>1. requests["walls"] \in Seq(Requests) /\ requests["walls"] # <<>>
    BY <1>7 DEF WallsAct, DoorTypes, Exts
  <2>2. Head(requests["walls"]).targets \in SUBSET Doors
    <3>1. Head(requests["walls"]) \in Requests
      BY <2>1
    <3> QED BY <3>1 DEF Requests
  <2>3. wallZones' \in SUBSET Doors
    BY <2>2, <1>1, <1>7, FlipType DEF WallsAct, TypeOK
  <2>4. publishing' = [publishing EXCEPT !["action"] = [zones |-> Gates(wallZones')]]
        /\ UNCHANGED <<up, worldsimVars, busVars, starting, enabled, missed, faults>>
    BY <1>7 DEF WallsAct
  <2>5. publishing' \in [Registrars -> Snapshots \cup {None}]
    BY <2>3, <2>4, <1>2, <1>3
  <2> QED BY <2>1, <2>3, <2>4, <2>5, <1>1 DEF DoorTypes, TypeOK, worldsimVars, busVars, Snapshots
<1>8. CASE ZonesArrive
  <2> DEFINE t == Tail(zonesQueue)
  <2>1. t \in Seq(SUBSET Doors) /\ Head(zonesQueue) \in SUBSET Doors
    BY <1>8 DEF ZonesArrive, DoorTypes
  <2>2. /\ zonesQueue' = t /\ wallZones' = Head(zonesQueue)
        /\ publishing' = [publishing EXCEPT !["zones"] = [zones |-> Gates(wallZones')]]
        /\ UNCHANGED <<up, worldsimVars, registrations, requests, optionsQueue, starting,
                 enabled, missed, faults>>
    BY <1>8 DEF ZonesArrive
  <2> HIDE DEF t
  <2>3. /\ publishing' \in [Registrars -> Snapshots \cup {None}]
        /\ publishing'["action"] = publishing["action"]
    BY <2>1, <2>2, <1>2, <1>3
  <2> QED BY <2>1, <2>2, <2>3, <1>1 DEF DoorTypes, TypeOK, worldsimVars, Snapshots
<1> QED BY <1>4, <1>5, <1>6, <1>7, <1>8

\* applyAction's variables: what they hold, and once one request is over.
LEMMA ActionIs ==
  ASSUME NEW act, act = NoAction \/ act \in Askings
  PROVE  /\ act.pc \in {"idle", "asking"} /\ act.asked \in Exts \cup {None} /\ act.todo \in SUBSET Exts
         /\ act.pc = "idle" <=> act = NoAction
         /\ act.pc = "idle" => act.todo = {} /\ act.asked = None
         /\ act.targets \in [props : SUBSET Doors, walls : SUBSET Doors]
         /\ act.pc = "asking" => act.seen \in [Doors -> {"on", "off"}]
BY DEF NoAction, Askings

LEMMA Unasked ==
  ASSUME NEW act, act = NoAction \/ act \in Askings, NEW next, next = [act EXCEPT !.asked = None]
  PROVE  /\ next = NoAction \/ next \in Askings
         /\ next.pc = act.pc /\ next.todo = act.todo /\ next.asked = None
         /\ next.targets = act.targets /\ next.seen = act.seen
<1>1. CASE act = NoAction
  <2>1. next = NoAction
    BY <1>1 DEF NoAction
  <2> QED BY <1>1, <2>1 DEF NoAction
<1>2. CASE act \in Askings
  <2>1. next \in Askings
    BY <1>2 DEF Askings
  <2> QED BY <1>2, <2>1 DEF Askings
<1> QED BY <1>1, <1>2

LEMMA QuietIs ==
  ASSUME TypeOK, NEW p \in Registrars, publishing' = Quiet(p)
  PROVE  /\ publishing' \in [Registrars -> Snapshots \cup {None}] /\ publishing'[p] = None
         /\ \A q \in Registrars : q # p => publishing'[q] = publishing[q]
BY RegistrationsType DEF Quiet

LEMMA PublishTypes ==
  ASSUME DoorTypes, NEW p \in Registrars, Publish(p)
  PROVE  DoorTypes'
<1>1. TypeOK /\ registrations \in Seq(Messages) /\ publishing \in [Registrars -> Snapshots \cup {None}]
  BY RegistrationsType DEF DoorTypes
<1>2. /\ publishing[p] # None /\ Registers("walls", publishing[p].zones) /\ publishing' = Quiet(p)
      /\ UNCHANGED <<up, extensions, gateTriggers, inputTriggers, door, row, zonesQueue, optionsQueue,
                 starting, wallZones, enabled, missed, faults>>
  BY DEF Publish
<1>3. registrations' \in Seq(Messages)
  <2>1. publishing[p].zones \in SUBSET Doors
    BY <1>1, <1>2 DEF Snapshots
  <2> QED BY <2>1, <1>1, <1>2, RegistersIs DEF Exts
<1>4. /\ publishing' \in [Registrars -> Snapshots \cup {None}] /\ publishing'[p] = None
      /\ \A q \in Registrars : q # p => publishing'[q] = publishing[q]
  BY <1>1, <1>2, QuietIs
<1>5. CASE p = "action"
  <2> DEFINE t == Tail(requests["walls"])
  <2>1. t \in Seq(Requests)
    BY <1>2, <1>5 DEF DoorTypes, Exts
  <2>2. requests' = [requests EXCEPT !["walls"] = t]
        /\ (action' = action \/ action' = [action EXCEPT !.asked = None])
    BY <1>5 DEF Publish
  <2> HIDE DEF t
  <2>3. requests' \in [Exts -> Seq(Requests)]
    BY <2>1, <2>2 DEF DoorTypes
  <2>4. action' = NoAction \/ action' \in Askings
    BY <2>2, Unasked DEF DoorTypes
  <2>5. action'.pc \in {"idle", "asking"} /\ action'.asked \in Exts \cup {None}
    BY <2>4, ActionIs
  <2> QED BY <2>3, <2>4, <2>5, <1>1, <1>2, <1>3, <1>4, <1>5
       DEF DoorTypes, TypeOK, Messages, Snapshots, Requests
<1>6. CASE p # "action"
  <2>1. UNCHANGED <<requests, action>> /\ publishing'["action"] = publishing["action"]
    BY <1>4, <1>6 DEF Publish, Registrars
  <2> QED BY <2>1, <1>1, <1>2, <1>3, <1>4 DEF DoorTypes, TypeOK, Messages, Snapshots
<1> QED BY <1>5, <1>6

LEMMA OptionsPublishedIs ==
  ASSUME optionsQueue \in Seq(BOOLEAN), NEW on \in BOOLEAN, OptionsPublished(on)
  PROVE  optionsQueue' \in Seq(BOOLEAN)
BY DEF OptionsPublished

\* Messages arrive, and options are edited.
LEMMA MessageTypes ==
  ASSUME DoorTypes, RegistrationArrives \/ EditOptions \/ OptionsArrive \/ Reload
  PROVE  DoorTypes'
<1>1. TypeOK /\ registrations \in Seq(Messages)
  BY RegistrationsType DEF DoorTypes
<1>2. CASE RegistrationArrives
  <2> DEFINE m == Head(registrations)
             t == Tail(registrations)
  <2>1. m \in Messages /\ t \in Seq(Messages) /\ registrations' = t
    BY <1>1, <1>2 DEF RegistrationArrives
  <2>2. /\ Registered(m.ext) /\ TriggersReplaced(m) /\ OptionsEnsured(m.ext)
        /\ UNCHANGED <<up, door, action, requests, zonesQueue, starting, wallsVars, missed, faults>>
    BY <1>2 DEF RegistrationArrives
  <2> HIDE DEF m, t
  <2>3. m.ext \in Exts /\ m.zones \in SUBSET Doors
    BY <2>1 DEF Messages
  <2>4. extensions' \in [Exts -> 0..(staleAfter + 1) \cup {None}]
    BY <2>2, <2>3, <1>1 DEF Registered, TypeOK, staleAfter
  <2>5. gateTriggers' \subseteq Doors /\ inputTriggers' \subseteq Exts
    BY <2>2, <2>3, <1>1 DEF TriggersReplaced, TypeOK
  <2>6. row' \in BOOLEAN \cup {None} /\ optionsQueue' \in Seq(BOOLEAN)
    <3>1. optionsQueue \in Seq(BOOLEAN) /\ row \in BOOLEAN \cup {None}
      BY DEF DoorTypes, TypeOK
    <3>2. CASE m.ext = "walls" /\ row = None
      BY <2>2, <3>1, <3>2, OptionsPublishedIs DEF OptionsEnsured
    <3>3. CASE ~(m.ext = "walls" /\ row = None)
      BY <2>2, <3>1, <3>3 DEF OptionsEnsured
    <3> QED BY <3>2, <3>3
  <2> QED BY <2>1, <2>2, <2>4, <2>5, <2>6, <1>1 DEF DoorTypes, TypeOK, wallsVars, Messages
<1>3. CASE EditOptions
  <2>1. row' \in BOOLEAN /\ faults' \in 0..MaxFaults
    BY <1>1, <1>3, ExtensionsAssumption DEF EditOptions, Fault, TypeOK
  <2>2. optionsQueue' \in Seq(BOOLEAN)
    <3>1. optionsQueue \in Seq(BOOLEAN) /\ row \in BOOLEAN
      BY <1>3 DEF DoorTypes, TypeOK, EditOptions
    <3>2. (~row) \in BOOLEAN /\ OptionsPublished(~row)
      BY <1>3 DEF EditOptions
    <3> QED BY <3>1, <3>2, OptionsPublishedIs
  <2>3. UNCHANGED <<up, extensions, gateTriggers, inputTriggers, door, action, registrations,
                 requests, zonesQueue, starting, wallsVars, missed>>
    BY <1>3 DEF EditOptions
  <2> QED BY <2>1, <2>2, <2>3, <1>1 DEF DoorTypes, TypeOK, wallsVars
<1>4. CASE OptionsArrive
  <2> DEFINE t == Tail(optionsQueue)
             h == Head(optionsQueue)
  <2>1. h \in BOOLEAN /\ t \in Seq(BOOLEAN)
    BY <1>4 DEF DoorTypes, OptionsArrive
  <2>2. optionsQueue' = t /\ enabled' = h
        /\ UNCHANGED <<up, worldsimVars, registrations, requests, zonesQueue, starting,
                 wallZones, publishing, missed, faults>>
    BY <1>4 DEF OptionsArrive
  <2> HIDE DEF t, h
  <2>3. enabled' \in BOOLEAN
    BY <2>1, <2>2
  <2> QED BY <2>1, <2>2, <2>3, <1>1 DEF DoorTypes, TypeOK, worldsimVars
<1>5. CASE Reload
  <2>1. faults' \in 0..MaxFaults /\ missed' \in BOOLEAN
    BY <1>1, <1>5, ExtensionsAssumption DEF Reload, Fault, TypeOK
  <2>2. <<Doors>> \in Seq(SUBSET Doors)
    OBVIOUS
  <2>3. zonesQueue' \in Seq(SUBSET Doors)
        /\ UNCHANGED <<up, worldsimVars, registrations, requests, optionsQueue, starting, wallsVars>>
    BY <2>2, <1>5 DEF Reload
  <2> QED BY <2>1, <2>3, <1>1 DEF DoorTypes, TypeOK, worldsimVars, wallsVars
<1> QED BY <1>2, <1>3, <1>4, <1>5

\* An interaction begins.
LEMMA InteractIs ==
  ASSUME DoorTypes, Interact
  PROVE  \E adjacent \in Adjacents, targets \in SUBSET Doors :
           /\ targets = adjacent \/ \E d \in adjacent : targets = {d}
           /\ action = NoAction
           /\ action' \in Askings /\ action'.todo = ExtensionsForInput /\ action'.asked = None
           /\ action'.targets["walls"] = adjacent /\ action'.targets["props"] = targets
           /\ action'.seen = door
<1>0. PICK adjacent \in Adjacents : \E targets \in {adjacent} \cup {{d} : d \in adjacent} :
        action' = [pc |-> "asking", todo |-> ExtensionsForInput, asked |-> None,
                   targets |-> [props |-> targets, walls |-> adjacent], seen |-> door]
  BY DEF Interact
<1>1. PICK targets \in {adjacent} \cup {{d} : d \in adjacent} :
        action' = [pc |-> "asking", todo |-> ExtensionsForInput, asked |-> None,
                   targets |-> [props |-> targets, walls |-> adjacent], seen |-> door]
  BY <1>0
<1>2. adjacent \in SUBSET Doors /\ targets \in SUBSET Doors
      /\ (targets = adjacent \/ \E d \in adjacent : targets = {d})
  BY ExtensionsAssumption
<1>3. action = NoAction
  BY ActionIs DEF DoorTypes, Interact
<1>4. ExtensionsForInput \in SUBSET Exts /\ door \in [Doors -> {"on", "off"}]
  BY DEF DoorTypes, TypeOK, ExtensionsForInput
<1>5. action' \in Askings
  BY <1>1, <1>2, <1>4 DEF Askings
<1> QED BY <1>1, <1>2, <1>3, <1>5

\* One extension is asked; nobody answers for one that is down.
LEMMA AskIs ==
  ASSUME DoorTypes, NEW x \in Exts, Ask(x)
  PROVE  /\ action \in Askings /\ action.asked = None /\ x \in action.todo
         /\ action' \in Askings /\ action'.todo = action.todo \ {x}
         /\ action'.targets = action.targets /\ action'.seen = action.seen
         /\ UNCHANGED <<up, extensions, gateTriggers, inputTriggers, door, row, registrations,
                 zonesQueue, optionsQueue, starting, wallsVars, missed, faults>>
         /\ \/ x \notin up /\ requests' = requests /\ action'.asked = None
            \/ \E r \in Requests :
                 /\ r = [targets |-> action.targets[x], seen |-> action.seen, late |-> FALSE]
                 /\ action'.asked = x
                 /\ requests' = [requests EXCEPT ![x] = Append(requests[x], r)]
<1>1. action.pc = "asking" /\ action.asked = None /\ x \in action.todo
  BY DEF Ask
<1>2. action \in Askings
  BY <1>1, ActionIs DEF DoorTypes, NoAction
<1>3. UNCHANGED <<up, extensions, gateTriggers, inputTriggers, door, row, registrations,
                 zonesQueue, optionsQueue, starting, wallsVars, missed, faults>>
  BY DEF Ask
<1>4. CASE x \in up
  <2> DEFINE r == [targets |-> action.targets[x], seen |-> action.seen, late |-> FALSE]
             rest == action.todo \ {x}
  <2>1. r \in Requests
    <3>1. action.targets[x] \in SUBSET Doors
      BY <1>2 DEF Askings, Exts
    <3> QED BY <3>1, <1>2 DEF Requests, Askings
  <2>2. action' = [action EXCEPT !.todo = rest, !.asked = x]
        /\ requests' = [requests EXCEPT ![x] = Append(requests[x], r)]
    BY <1>4 DEF Ask
  <2>3. rest \in SUBSET Exts
    BY <1>2 DEF Askings
  <2> HIDE DEF r, rest
  <2>4. action' \in Askings /\ action'.todo = rest /\ action'.asked = x
        /\ action'.targets = action.targets /\ action'.seen = action.seen
    BY <1>2, <2>2, <2>3 DEF Askings
  <2> QED BY <1>1, <1>2, <1>3, <2>1, <2>2, <2>4 DEF r, rest
<1>5. CASE x \notin up
  <2> DEFINE rest == action.todo \ {x}
  <2>1. action' = [action EXCEPT !.todo = rest] /\ requests' = requests
    BY <1>5 DEF Ask
  <2>2. rest \in SUBSET Exts
    BY <1>2 DEF Askings
  <2> HIDE DEF rest
  <2>3. action' \in Askings /\ action'.todo = rest /\ action'.asked = None
        /\ action'.targets = action.targets /\ action'.seen = action.seen
    BY <1>1, <1>2, <2>1, <2>2 DEF Askings
  <2> QED BY <1>1, <1>2, <1>3, <1>5, <2>1, <2>3 DEF rest
<1> QED BY <1>4, <1>5

LEMMA AppliedType ==
  ASSUME TypeOK, NEW r \in Requests
  PROVE  Applied(r) \in [Doors -> {"on", "off"}]
BY DEF Applied, Toggled, TypeOK, Requests

LEMMA ActionTypes ==
  ASSUME DoorTypes, \/ Interact \/ Answer \/ TimeOut \/ PropsAct
                    \/ \E x \in Exts : Ask(x)
  PROVE  DoorTypes'
<1>1. TypeOK
  BY DEF DoorTypes
<1>2. ASSUME action' = NoAction \/ action' \in Askings, requests' \in [Exts -> Seq(Requests)],
             door' \in [Doors -> {"on", "off"}], missed' \in BOOLEAN,
             publishing["action"] # None => requests'["walls"] # <<>>,
             UNCHANGED <<up, extensions, gateTriggers, inputTriggers, row, registrations, zonesQueue,
                         optionsQueue, starting, wallsVars, faults>>
      PROVE  DoorTypes'
  <2>1. action'.pc \in {"idle", "asking"} /\ action'.asked \in Exts \cup {None}
    BY <1>2, ActionIs
  <2> QED BY <2>1, <1>1, <1>2 DEF DoorTypes, TypeOK, wallsVars, Requests
<1>3. CASE Interact
  <2>1. action' \in Askings
    BY <1>3, InteractIs
  <2>2. missed' \in BOOLEAN
        /\ UNCHANGED <<up, extensions, gateTriggers, inputTriggers, door, row, busVars, starting, wallsVars, faults>>
    BY <1>1, <1>3 DEF Interact, TypeOK
  <2> QED BY <2>1, <2>2, <1>1, <1>2 DEF DoorTypes, TypeOK, busVars
<1>4. CASE Answer
  BY <1>1, <1>2, <1>4 DEF Answer, DoorTypes, TypeOK, busVars
<1>5. CASE TimeOut
  <2> DEFINE x == action.asked
             q == requests[x]
  <2>1. x \in SlowExts /\ action' = [action EXCEPT !.asked = None]
        /\ requests' = [requests EXCEPT ![x] = LateOf(q)]
        /\ UNCHANGED <<up, extensions, gateTriggers, inputTriggers, door, row, registrations,
                 zonesQueue, optionsQueue, starting, wallsVars, missed, faults>>
    BY <1>5 DEF TimeOut, LateOf
  <2>2. x \in Exts
    BY <2>1, <1>5, ExtensionsAssumption DEF TimeOut
  <2>3. q \in Seq(Requests)
    BY <2>2 DEF DoorTypes
  <2>4. LateOf(q) \in Seq(Requests) /\ (LateOf(q) = <<>> <=> q = <<>>)
    BY <2>3, LateIs
  <2>5. action' = NoAction \/ action' \in Askings
    BY <2>1, Unasked DEF DoorTypes
  <2> DEFINE l == LateOf(q)
  <2>6. l \in Seq(Requests) /\ (l = <<>> <=> q = <<>>) /\ requests' = [requests EXCEPT ![x] = l]
    BY <2>1, <2>4
  <2> HIDE DEF x, l
  <2>7. requests' \in [Exts -> Seq(Requests)]
        /\ (requests["walls"] # <<>> => requests'["walls"] # <<>>)
    BY <2>2, <2>6 DEF DoorTypes, Exts
  <2> QED BY <2>1, <2>5, <2>7, <1>1, <1>2 DEF DoorTypes, TypeOK
<1>6. CASE PropsAct
  <2> DEFINE t == Tail(requests["props"])
             r == Head(requests["props"])
  <2>1. requests["props"] \in Seq(Requests) /\ requests["props"] # <<>>
    BY <1>6 DEF PropsAct, DoorTypes, Exts
  <2>2. t \in Seq(Requests) /\ r \in Requests
    BY <2>1
  <2>3. /\ requests' = [requests EXCEPT !["props"] = t]
        /\ \/ door' = door /\ action' = action
           \/ door' = Applied(r) /\ action' = [action EXCEPT !.asked = None]
        /\ UNCHANGED <<up, extensions, gateTriggers, inputTriggers, row, registrations,
                 zonesQueue, optionsQueue, starting, wallsVars, missed, faults>>
    BY <1>6 DEF PropsAct
  <2> HIDE DEF t, r
  <2>4. door' \in [Doors -> {"on", "off"}]
    BY <2>2, <2>3, <1>1, AppliedType DEF TypeOK
  <2>5. action' = NoAction \/ action' \in Askings
    BY <2>3, Unasked DEF DoorTypes
  <2>6. requests' \in [Exts -> Seq(Requests)] /\ requests'["walls"] = requests["walls"]
    BY <2>2, <2>3 DEF DoorTypes, Exts
  <2> QED BY <2>3, <2>4, <2>5, <2>6, <1>1, <1>2 DEF DoorTypes, TypeOK
<1>7. ASSUME NEW x \in Exts, Ask(x) PROVE DoorTypes'
  <2>1. action' \in Askings /\ UNCHANGED <<up, extensions, gateTriggers, inputTriggers, door, row, registrations,
                 zonesQueue, optionsQueue, starting, wallsVars, missed, faults>>
    BY <1>7, AskIs
  <2>2. requests' \in [Exts -> Seq(Requests)] /\ (requests["walls"] # <<>> => requests'["walls"] # <<>>)
    <3>1. CASE requests' = requests
      BY <3>1 DEF DoorTypes
    <3>2. CASE requests' # requests
      <4>1. PICK r \in Requests : requests' = [requests EXCEPT ![x] = Append(requests[x], r)]
        BY <3>2, <1>7, AskIs
      <4> DEFINE new == Append(requests[x], r)
      <4>2. requests[x] \in Seq(Requests)
        BY DEF DoorTypes
      <4>3. new \in Seq(Requests) /\ new # <<>>
        BY <4>2, AppendIs
      <4> HIDE DEF new
      <4>4. requests' = [requests EXCEPT ![x] = new]
        BY <4>1 DEF new
      <4> QED BY <4>3, <4>4 DEF DoorTypes, Exts
    <3> QED BY <3>1, <3>2
  <2> QED BY <2>1, <2>2, <1>1, <1>2 DEF DoorTypes, TypeOK
<1> QED BY <1>3, <1>4, <1>5, <1>6, <1>7

\* A process starts or dies.
LEMMA ProcessTypes ==
  ASSUME DoorTypes, NEW p \in Exts \cup {"worldsim"}, Start(p) \/ Crash(p)
  PROVE  DoorTypes'
<1>1. TypeOK
  BY DEF DoorTypes
<1>2. CASE Start(p)
  <2>1. up' \subseteq Exts \cup {"worldsim"} /\ starting' \subseteq Exts \cap up'
    BY <1>1, <1>2 DEF Start, TypeOK, Exts
  <2> QED BY <1>1, <1>2, <2>1 DEF Start, DoorTypes, TypeOK, worldsimVars, busVars, wallsVars
<1>3. CASE Crash(p)
  <2>1. /\ up' = up \ {p} /\ missed' = TRUE /\ starting' = starting \ {p} /\ faults' \in 0..MaxFaults
        /\ UNCHANGED row
    BY <1>1, <1>3, ExtensionsAssumption DEF Crash, Fault, TypeOK
  <2>2. up' \subseteq Exts \cup {"worldsim"} /\ starting' \subseteq Exts \cap up'
    BY <1>1, <2>1 DEF TypeOK
  <2>3. CASE p = "worldsim"
    <3>1. /\ extensions' = [x \in Exts |-> None] /\ gateTriggers' = {} /\ inputTriggers' = {}
          /\ door' = [d \in Doors |-> "off"] /\ action' = NoAction
          /\ registrations' = <<>>
          /\ UNCHANGED <<zonesQueue, optionsQueue, wallsVars>>
      BY <1>3, <2>3 DEF Crash
    <3>2. requests' = [x \in Exts |-> LateOf(requests[x])]
      BY <1>3, <2>3 DEF Crash, LateOf
    <3>3. \A x \in Exts : LateOf(requests[x]) \in Seq(Requests) /\ (LateOf(requests[x]) = <<>> <=> requests[x] = <<>>)
      BY LateIs DEF DoorTypes
    <3>4. requests' \in [Exts -> Seq(Requests)] /\ (requests["walls"] # <<>> => requests'["walls"] # <<>>)
      BY <3>2, <3>3 DEF Exts
    <3>5. registrations' \in Seq(Messages)
      <4>1. <<>> \in Seq(Messages)
        OBVIOUS
      <4> QED BY <3>1, <4>1
    <3>6. action'.pc \in {"idle", "asking"} /\ action'.asked \in Exts \cup {None}
      BY <3>1 DEF NoAction
    <3> QED BY <1>1, <2>1, <2>2, <3>1, <3>4, <3>5, <3>6 DEF DoorTypes, TypeOK, wallsVars, Messages, Requests
  <2>4. CASE p # "worldsim"
    <3>1. p \in Exts
      BY <2>4
    <3>2. /\ requests' = [requests EXCEPT ![p] = <<>>]
          /\ action' = action \/ action' = [action EXCEPT !.asked = None]
          /\ UNCHANGED <<extensions, gateTriggers, inputTriggers, door, registrations>>
      BY <1>3, <2>4 DEF Crash
    <3>3. requests' \in [Exts -> Seq(Requests)] /\ (p # "walls" => requests'["walls"] = requests["walls"])
      <4>1. <<>> \in Seq(Requests)
        OBVIOUS
      <4> QED BY <3>2, <4>1 DEF DoorTypes, Exts
    <3>4. action' = NoAction \/ action' \in Askings
      BY <3>2, Unasked DEF DoorTypes
    <3>5. action'.pc \in {"idle", "asking"} /\ action'.asked \in Exts \cup {None}
      BY <3>4, ActionIs
    <3>6. CASE p = "walls"
      <4>1. /\ wallZones' = {} /\ enabled' = TRUE /\ publishing' = [q \in Registrars |-> None]
            /\ zonesQueue' = <<>> /\ optionsQueue' = <<>>
        BY <1>3, <2>4, <3>6 DEF Crash
      <4>2. <<>> \in Seq(SUBSET Doors) /\ <<>> \in Seq(BOOLEAN)
        OBVIOUS
      <4>3. publishing'["action"] = None /\ publishing' \in [Registrars -> Snapshots \cup {None}]
        BY <4>1 DEF Registrars
      <4> QED BY <1>1, <2>1, <2>2, <3>2, <3>3, <3>4, <3>5, <4>1, <4>2, <4>3
           DEF DoorTypes, TypeOK, Snapshots, Requests
    <3>7. CASE p # "walls"
      <4>1. UNCHANGED <<wallsVars, zonesQueue, optionsQueue>>
        BY <1>3, <2>4, <3>7 DEF Crash
      <4> QED BY <1>1, <2>1, <2>2, <3>2, <3>3, <3>4, <3>5, <3>7, <4>1 DEF DoorTypes, TypeOK, wallsVars, Requests
    <3> QED BY <3>6, <3>7
  <2> QED BY <2>3, <2>4
<1> QED BY <1>2, <1>3

LEMMA DoorTypesInit == Init => DoorTypes
<1> SUFFICES ASSUME Init PROVE DoorTypes
  OBVIOUS
<1>1. <<>> \in Seq(Messages) /\ <<>> \in Seq(Requests) /\ <<>> \in Seq(SUBSET Doors) /\ <<>> \in Seq(BOOLEAN)
  OBVIOUS
<1>2. NoAction.pc = "idle" /\ NoAction.asked = None
  BY DEF NoAction
<1>3. publishing["action"] = None
  BY DEF Init, Registrars
<1>4. registrations \in Seq(Messages) /\ zonesQueue \in Seq(SUBSET Doors) /\ optionsQueue \in Seq(BOOLEAN)
  BY <1>1 DEF Init
<1>5. requests \in [Exts -> Seq(Requests)]
  BY <1>1 DEF Init
<1>6. /\ up = {} /\ starting = {} /\ extensions \in [Exts -> 0..(staleAfter + 1) \cup {None}]
      /\ gateTriggers = {} /\ inputTriggers = {} /\ door \in [Doors -> {"on", "off"}] /\ row = None
      /\ wallZones = {} /\ publishing \in [Registrars -> Snapshots \cup {None}] /\ missed = FALSE /\ enabled = TRUE
  BY DEF Init
<1>7. faults \in 0..MaxFaults
  BY ExtensionsAssumption DEF Init
<1>8. action = NoAction
  BY DEF Init
<1>9. TypeOK
  BY <1>2, <1>4, <1>5, <1>6, <1>7, <1>8 DEF TypeOK, Messages, Requests, Snapshots
<1> QED BY <1>3, <1>4, <1>5, <1>8, <1>9 DEF DoorTypes

LEMMA DoorTypesKept == DoorTypes /\ [Next]_vars => DoorTypes'
<1> SUFFICES ASSUME DoorTypes, [Next]_vars PROVE DoorTypes'
  OBVIOUS
<1>1. CASE WallsReady \/ PropsReady \/ Tick \/ WallsAct \/ ZonesArrive
  BY <1>1, ReadyTypes
<1>2. CASE RegistrationArrives \/ EditOptions \/ OptionsArrive \/ Reload
  BY <1>2, MessageTypes
<1>3. CASE Interact \/ Answer \/ TimeOut \/ PropsAct \/ \E x \in Exts : Ask(x)
  BY <1>3, ActionTypes
<1>4. CASE \E p \in Registrars : Publish(p)
  BY <1>4, PublishTypes
<1>5. CASE \E p \in Exts \cup {"worldsim"} : Start(p) \/ Crash(p)
  BY <1>5, ProcessTypes
<1>6. CASE UNCHANGED vars
  BY <1>6 DEF vars, DoorTypes, TypeOK
<1> QED BY <1>1, <1>2, <1>3, <1>4, <1>5, <1>6 DEF Next

LEMMA DoorTypesHold == Spec => []DoorTypes
BY DoorTypesInit, DoorTypesKept, PTL DEF Spec

\* A miss is not forgotten, and without one nothing died and both extensions
\* were there to be asked.
LEMMA NotMissed ==
  ASSUME [Next]_vars, ~missed'
  PROVE  /\ ~missed
         /\ ~Reload /\ \A p \in Exts \cup {"worldsim"} : ~Crash(p)
         /\ Interact => ExtensionsForInput = Exts /\ starting = {}
<1>1. ~missed
  BY DEF Next, WallsReady, PropsReady, RegistrationArrives, Tick, Interact, Answer, TimeOut, PropsAct,
         WallsAct, EditOptions, OptionsArrive, Reload, ZonesArrive, Ask, Publish, Start, Crash, vars
<1>2. ~Reload /\ \A p \in Exts \cup {"worldsim"} : ~Crash(p)
  BY DEF Reload, Crash
<1>3. Interact => ExtensionsForInput = Exts /\ starting = {}
  BY DEF Interact
<1> QED BY <1>1, <1>2, <1>3

Beginning == Known /\ FirstAll

\* What is written on registrations, and by whom.
LEMMA BeginningReady ==
  ASSUME DoorTypes, Beginning, ~missed, WallsReady \/ PropsReady \/ Tick \/ WallsAct \/ ZonesArrive
  PROVE  Beginning'
<1> USE DEF Beginning, FirstAll
<1>1. TypeOK /\ registrations \in Seq(Messages) /\ publishing \in [Registrars -> Snapshots \cup {None}]
      /\ starting \subseteq up
  BY RegistrationsType DEF DoorTypes, TypeOK
<1>2. Known /\ (Untouched \/ Together)
  OBVIOUS
<1>3. CASE WallsReady
  <2>1. /\ starting' = starting \ {"walls"} /\ "walls" \in up
        /\ publishing' = [publishing EXCEPT !["ready"] = [zones |-> Gates(wallZones')]]
        /\ UNCHANGED <<up, worldsimVars, busVars, enabled, missed, faults>>
    BY <1>1, <1>3 DEF WallsReady
  <2>2. publishing'["action"] = publishing["action"]
    BY <1>1, <2>1 DEF Registrars
  <2>3. Known'
    BY <1>2, <2>1 DEF Known, worldsimVars, busVars
  <2> QED BY <1>2, <2>1, <2>2, <2>3 DEF Untouched, Together, worldsimVars, busVars
<1>4. CASE PropsReady
  <2>1. /\ starting' = starting \ {"props"} /\ "props" \in up /\ Registers("props", {})
        /\ UNCHANGED <<up, worldsimVars, requests, zonesQueue, optionsQueue, wallsVars, missed, faults>>
    BY <1>1, <1>4 DEF PropsReady
  <2>2. \A m \in 1..Len(registrations') : registrations'[m].ext \in up
    <3>1. "props" \in Exts /\ {} \in SUBSET Doors
      BY DEF Exts
    <3>2. \A m \in 1..Len(registrations') : registrations'[m].ext = "props"
            \/ (m \in 1..Len(registrations) /\ registrations'[m] = registrations[m])
      BY <2>1, <3>1, <1>1, RegistersIs
    <3> QED BY <1>2, <2>1, <3>2 DEF Known
  <2> QED BY <1>2, <2>1, <2>2 DEF Known, Untouched, Together, worldsimVars, wallsVars
<1>5. CASE Tick
  <2>1. UNCHANGED <<up, gateTriggers, inputTriggers, door, action, row, requests, zonesQueue,
                 optionsQueue, starting, wallZones, enabled, missed, faults>>
    BY <1>5 DEF Tick
  <2>2. \A m \in 1..Len(registrations') : registrations'[m].ext \in up
    <3>1. CASE "props" \in up
      <4>1. "props" \in Exts /\ {} \in SUBSET Doors
        BY DEF Exts
      <4>2. \A m \in 1..Len(registrations') : registrations'[m].ext = "props"
              \/ (m \in 1..Len(registrations) /\ registrations'[m] = registrations[m])
        BY <1>5, <3>1, <4>1, <1>1, RegistersIs DEF Tick
      <4> QED BY <1>2, <3>1, <4>2 DEF Known
    <3>2. CASE "props" \notin up
      BY <1>2, <1>5, <3>2 DEF Tick, Known
    <3> QED BY <3>1, <3>2
  <2>3. \A p \in Registrars : publishing'[p] # None => "walls" \in up
    BY <1>2, <1>5 DEF Tick, Known
  <2>4. publishing'["action"] = publishing["action"]
    BY <1>1, <1>5 DEF Tick, Registrars
  <2> QED BY <1>2, <2>1, <2>2, <2>3, <2>4 DEF Known, Untouched, Together
<1>6. CASE WallsAct
  <2>1. requests["walls"] # <<>>
        /\ UNCHANGED <<up, worldsimVars, busVars, starting, enabled, missed, faults>>
    BY <1>6 DEF WallsAct
  <2>2. Together
    BY <1>2, <2>1 DEF Untouched, Exts
  <2> QED BY <1>2, <2>1, <2>2 DEF Known, Together, worldsimVars, busVars, Exts
<1>7. CASE ZonesArrive
  BY <1>2, <1>7 DEF ZonesArrive, Known
<1> QED BY <1>3, <1>4, <1>5, <1>6, <1>7

LEMMA BeginningPublish ==
  ASSUME DoorTypes, Beginning, ~missed, NEW p \in Registrars, Publish(p)
  PROVE  Beginning'
<1> USE DEF Beginning, FirstAll
<1>1. TypeOK /\ registrations \in Seq(Messages) /\ publishing \in [Registrars -> Snapshots \cup {None}]
  BY RegistrationsType DEF DoorTypes
<1>2. Known /\ (Untouched \/ Together)
  OBVIOUS
<1>3. /\ publishing[p] # None /\ Registers("walls", publishing[p].zones) /\ publishing' = Quiet(p)
      /\ UNCHANGED <<up, extensions, gateTriggers, inputTriggers, door, row, zonesQueue, optionsQueue,
                 starting, wallZones, enabled, missed, faults>>
  BY DEF Publish
<1>4. "walls" \in up
  BY <1>2, <1>3 DEF Known
<1>5. \A m \in 1..Len(registrations') : registrations'[m].ext \in up
  <2>1. publishing[p].zones \in SUBSET Doors /\ "walls" \in Exts
    BY <1>1, <1>3 DEF Snapshots, Exts
  <2>2. \A m \in 1..Len(registrations') : registrations'[m].ext = "walls"
            \/ (m \in 1..Len(registrations) /\ registrations'[m] = registrations[m])
    BY <1>1, <1>3, <2>1, RegistersIs
  <2> QED BY <1>2, <1>4, <2>2 DEF Known
<1>6. Known'
  BY <1>2, <1>3, <1>4, <1>5 DEF Known
<1>7. Untouched => p # "action"
  BY <1>3 DEF Untouched
<1>8. p # "action" => UNCHANGED <<requests, action>> /\ publishing'["action"] = publishing["action"]
  BY <1>1, <1>3, QuietIs DEF Publish, Registrars
<1> QED BY <1>2, <1>3, <1>6, <1>7, <1>8 DEF Untouched, Together

LEMMA BeginningMessages ==
  ASSUME DoorTypes, Beginning, ~missed, RegistrationArrives \/ EditOptions \/ OptionsArrive
  PROVE  Beginning'
<1> USE DEF Beginning, FirstAll
<1>1. TypeOK /\ registrations \in Seq(Messages)
  BY RegistrationsType DEF DoorTypes
<1>2. Known /\ (Untouched \/ Together)
  OBVIOUS
<1>3. CASE RegistrationArrives
  <2> DEFINE m == Head(registrations)
             t == Tail(registrations)
  <2>1. /\ Len(t) = Len(registrations) - 1 /\ Len(registrations) \in Nat /\ Len(registrations) >= 1
        /\ m = registrations[1] /\ \A n \in 1..(Len(registrations) - 1) : t[n] = registrations[n + 1]
    BY <1>1, <1>3, TailIs DEF RegistrationArrives
  <2>2. /\ registrations' = t /\ inputTriggers' = inputTriggers \cup {m.ext}
        /\ UNCHANGED <<up, door, action, requests, zonesQueue, starting, wallsVars, missed, faults>>
    BY <1>3 DEF RegistrationArrives, TriggersReplaced
  <2> HIDE DEF m, t
  <2>3. m.ext \in up
    BY <1>2, <2>1 DEF Known
  <2>4. \A n \in 1..Len(t) : t[n].ext \in up
    <3>1. \A n \in 1..Len(t) : n \in 1..(Len(registrations) - 1) /\ n + 1 \in 1..Len(registrations)
      BY <2>1
    <3> QED BY <1>2, <2>1, <3>1 DEF Known
  <2> QED BY <1>2, <2>2, <2>3, <2>4 DEF Known, Untouched, Together, wallsVars
<1>4. CASE EditOptions
  BY <1>2, <1>4 DEF EditOptions, Known, Untouched, Together, wallsVars
<1>5. CASE OptionsArrive
  BY <1>2, <1>5 DEF OptionsArrive, Known, Untouched, Together, worldsimVars
<1> QED BY <1>3, <1>4, <1>5

\* Only once all are up, and ready, does anything happen to the doors.
LEMMA ActingTogether ==
  ASSUME DoorTypes, Beginning, ~missed,
         \/ Answer \/ TimeOut \/ PropsAct \/ WallsAct \/ Publish("action")
         \/ \E x \in Exts : Ask(x)
         \/ Interact /\ ExtensionsForInput = Exts /\ starting = {}
  PROVE  Together
<1>1. Known /\ (Untouched \/ Together)
  BY DEF Beginning, FirstAll
<1>2. CASE Interact /\ ExtensionsForInput = Exts /\ starting = {}
  <2>1. "worldsim" \in up /\ Exts \subseteq up /\ up \subseteq Exts \cup {"worldsim"}
    BY <1>1, <1>2 DEF Interact, ExtensionsForInput, Known, DoorTypes, TypeOK
  <2> QED BY <1>2, <2>1 DEF Together
<1>3. CASE TimeOut
  <2>1. action.asked \in Exts
    BY <1>3, ExtensionsAssumption DEF TimeOut
  <2> QED BY <1>1, <2>1, ExtensionsAssumption DEF Untouched, NoAction
<1>4. CASE Answer \/ PropsAct \/ WallsAct \/ Publish("action") \/ \E x \in Exts : Ask(x)
  BY <1>1, <1>4 DEF Answer, PropsAct, WallsAct, Publish, Ask, Untouched, NoAction, Exts
<1> QED BY <1>2, <1>3, <1>4

LEMMA BeginningActions ==
  ASSUME DoorTypes, Beginning, ~missed,
         \/ Answer \/ TimeOut \/ PropsAct \/ \E x \in Exts : Ask(x)
         \/ Interact /\ ExtensionsForInput = Exts /\ starting = {}
  PROVE  Beginning'
<1>1. Together
  BY ActingTogether
<1>2. UNCHANGED <<up, starting, inputTriggers, registrations, publishing, zonesQueue>>
  BY DEF Answer, TimeOut, PropsAct, Ask, Interact, busVars, wallsVars
<1> QED BY <1>1, <1>2 DEF Beginning, FirstAll, Known, Together

LEMMA BeginningStarts ==
  ASSUME DoorTypes, Beginning, ~missed, NEW p \in Exts \cup {"worldsim"}, Start(p)
  PROVE  Beginning'
<1> USE DEF Beginning, FirstAll
<1>1. /\ p \notin up /\ up' = up \cup {p}
      /\ UNCHANGED <<worldsimVars, busVars, wallsVars, missed, faults>>
  BY DEF Start
<1>2. Untouched
  BY <1>1 DEF Together
<1> QED BY <1>1, <1>2 DEF Known, Untouched, worldsimVars, busVars, wallsVars

LEMMA BeginningKept == DoorTypes /\ Beginning /\ [Next]_vars => Beginning'
<1> SUFFICES ASSUME DoorTypes, Beginning, [Next]_vars, ~missed' PROVE Beginning'
  BY DEF Beginning, FirstAll, Known
<1>1. /\ ~missed /\ ~Reload /\ \A p \in Exts \cup {"worldsim"} : ~Crash(p)
      /\ Interact => ExtensionsForInput = Exts /\ starting = {}
  BY NotMissed
<1>2. CASE WallsReady \/ PropsReady \/ Tick \/ WallsAct \/ ZonesArrive
  BY <1>1, <1>2, BeginningReady
<1>3. CASE RegistrationArrives \/ EditOptions \/ OptionsArrive
  BY <1>1, <1>3, BeginningMessages
<1>4. CASE Interact \/ Answer \/ TimeOut \/ PropsAct \/ \E x \in Exts : Ask(x)
  BY <1>1, <1>4, BeginningActions
<1>5. CASE \E p \in Registrars : Publish(p)
  BY <1>1, <1>5, BeginningPublish
<1>6. CASE \E p \in Exts \cup {"worldsim"} : Start(p)
  BY <1>1, <1>6, BeginningStarts
<1>7. CASE UNCHANGED vars
  BY <1>7 DEF vars, Beginning, FirstAll, Known, Untouched, Together
<1> QED BY <1>1, <1>2, <1>3, <1>4, <1>5, <1>6, <1>7 DEF Next

\* No two doors are within reach of one key press, and ext-props answers in time.
Lone == (\A A \in Adjacents : \A d \in A : A = {d}) /\ "props" \notin SlowExts

\* What the actions that leave the interaction alone leave alone.
LEMMA AskedStays ==
  ASSUME Asked, UNCHANGED <<requests, action, door, missed>>
  PROVE  Asked'
BY DEF Asked, Pending

LEMMA AskedInteract ==
  ASSUME DoorTypes, Asked, Lone, Interact, ~missed, ExtensionsForInput = Exts
  PROVE  Asked'
<1>1. /\ action = NoAction /\ action' \in Askings /\ action'.asked = None
      /\ action'.targets["walls"] = action'.targets["props"] /\ action'.seen = door
  <2>1. PICK adjacent \in Adjacents, targets \in SUBSET Doors :
           /\ targets = adjacent \/ \E d \in adjacent : targets = {d}
           /\ action = NoAction
           /\ action' \in Askings /\ action'.asked = None
           /\ action'.targets["walls"] = adjacent /\ action'.targets["props"] = targets
           /\ action'.seen = door
    BY InteractIs
  <2>2. targets = adjacent
    <3>1. CASE targets = adjacent
      BY <3>1
    <3>2. CASE \E d \in adjacent : targets = {d}
      <4>1. PICK d \in adjacent : targets = {d}
        BY <3>2
      <4>2. adjacent = {d}
        BY <4>1 DEF Lone
      <4> QED BY <4>1, <4>2
    <3> QED BY <2>1, <3>1, <3>2
  <2> QED BY <2>1, <2>2
<1>2. UNCHANGED <<requests, door>> /\ action.asked = None
  BY <1>1 DEF Interact, busVars, NoAction
<1>3. None # "props" /\ None # "walls" /\ None \notin action'.todo
  BY <1>1, ExtensionsAssumption DEF Askings, Exts
<1> QED BY <1>1, <1>2, <1>3 DEF Asked

LEMMA AskedAsk ==
  ASSUME DoorTypes, Asked, Together, ~missed, NEW x \in Exts, Ask(x)
  PROVE  Asked'
<1>1. /\ action \in Askings /\ action.asked = None /\ x \in action.todo
      /\ action' \in Askings /\ action'.todo = action.todo \ {x}
      /\ action'.targets = action.targets /\ action'.seen = action.seen
      /\ UNCHANGED <<door, missed>>
  BY AskIs
<1>2. PICK r \in Requests :
                 /\ r = [targets |-> action.targets[x], seen |-> action.seen, late |-> FALSE]
                 /\ action'.asked = x
                 /\ requests' = [requests EXCEPT ![x] = Append(requests[x], r)]
  BY AskIs DEF Together
<1> DEFINE q == requests[x]
           new == Append(q, r)
<1>3. /\ new \in Seq(Requests) /\ Len(new) = Len(q) + 1 /\ Len(q) \in Nat /\ new # <<>>
      /\ new[Len(q) + 1] = r /\ \A n \in 1..Len(q) : new[n] = q[n]
  BY AppendIs DEF DoorTypes
<1> HIDE DEF new
<1>4. requests'[x] = new /\ \A y \in Exts : y # x => requests'[y] = requests[y]
  BY <1>2 DEF new, DoorTypes
<1>5. None # "props" /\ None # "walls" /\ "walls" # "props"
  BY ExtensionsAssumption DEF Exts
<1>6. /\ \A n \in 1..Len(requests["walls"]) : requests["walls"][n].late
      /\ requests["props"] = <<>>
      /\ action.targets["walls"] = action.targets["props"]
      /\ Pending("props") => action.seen = door
  BY <1>1, <1>5 DEF Asked, Askings
<1>7. action'.asked \notin action'.todo /\ action'.pc = "asking"
  BY <1>1, <1>2 DEF Askings
<1>8. CASE x = "walls"
  <2>1. requests'["props"] = <<>> /\ requests'["walls"] = new
    BY <1>4, <1>6, <1>8 DEF Exts
  <2>2. \A n \in 1..Len(new) : ~new[n].late => n = Len(new) /\ action'.asked = "walls"
    <3>1. \A n \in 1..Len(new) : n = Len(new) \/ (n \in 1..Len(q) /\ new[n] = q[n])
      BY <1>3
    <3> QED BY <3>1, <1>2, <1>6, <1>8
  <2>3. (Pending("props"))' => action.seen = door
    BY <1>1, <1>2, <1>5, <1>6, <1>8 DEF Pending
  <2> QED BY <2>1, <2>2, <2>3, <1>1, <1>2, <1>5, <1>6, <1>7, <1>8 DEF Asked
<1>9. CASE x = "props"
  <2>1. requests'["walls"] = requests["walls"] /\ requests'["props"] = new
    BY <1>4, <1>9 DEF Exts
  <2>2. Len(new) = 1 /\ new[1] = r /\ new # <<>>
    <3>1. q = <<>>
      BY <1>6, <1>9
    <3>2. Len(q) = 0
      BY <3>1
    <3> QED BY <3>2, <1>3
  <2>3. action.seen = door
    BY <1>1, <1>6, <1>9 DEF Pending
  <2>4. r = [targets |-> action'.targets["props"], seen |-> action'.seen, late |-> FALSE]
    BY <1>1, <1>2, <1>9
  <2> QED BY <2>1, <2>2, <2>3, <2>4, <1>1, <1>2, <1>5, <1>6, <1>7, <1>9 DEF Asked
<1> QED BY <1>8, <1>9 DEF Exts

LEMMA AskedAnswer ==
  ASSUME DoorTypes, Asked, Answer, ~missed
  PROVE  Asked'
<1>1. action.asked = None /\ action' = NoAction /\ UNCHANGED <<requests, door, missed>>
  BY DEF Answer, busVars
<1>2. None # "props" /\ None # "walls"
  BY ExtensionsAssumption DEF Exts
<1> QED BY <1>1, <1>2 DEF Asked, NoAction

LEMMA AskedTimeOut ==
  ASSUME DoorTypes, Asked, TimeOut, Lone, ~missed
  PROVE  Asked'
<1>1. action.asked = "walls"
  BY ExtensionsAssumption DEF TimeOut, Lone, Exts
<1> DEFINE l == LateOf(requests["walls"])
<1>2. /\ action' = [action EXCEPT !.asked = None] /\ requests' = [requests EXCEPT !["walls"] = l]
      /\ UNCHANGED <<door, missed>>
  BY <1>1 DEF TimeOut, LateOf
<1>3. l \in Seq(Requests) /\ Len(l) = Len(requests["walls"]) /\ \A n \in 1..Len(l) : l[n].late
  BY LateIs DEF DoorTypes, Exts
<1> HIDE DEF l
<1>4. requests'["walls"] = l /\ requests'["props"] = requests["props"]
  BY <1>2 DEF DoorTypes, Exts
<1>5. action'.pc = action.pc /\ action'.todo = action.todo /\ action'.asked = None
      /\ action'.targets = action.targets /\ action'.seen = action.seen
  BY <1>2, Unasked DEF DoorTypes
<1>6. None # "props" /\ None # "walls" /\ None \notin action.todo
  <2>1. action.todo \subseteq Exts
    BY ActionIs DEF DoorTypes
  <2> QED BY <2>1, ExtensionsAssumption DEF Exts
<1>7. Pending("props")' => Pending("props")
  BY <1>5, <1>6 DEF Pending
<1> QED BY <1>1, <1>2, <1>3, <1>4, <1>5, <1>6, <1>7 DEF Asked

\* The reply that ext-props is asked for.
LEMMA PropsActIs ==
  ASSUME DoorTypes, Asked, PropsAct, ~missed
  PROVE  /\ action.asked = "props" /\ action.pc = "asking" /\ action.seen = door
         /\ \E r \in Requests : r.targets = action.targets["props"] /\ r.seen = door /\ door' = Applied(r)
         /\ action' = [action EXCEPT !.asked = None]
         /\ requests'["props"] = <<>> /\ requests'["walls"] = requests["walls"]
         /\ UNCHANGED <<up, starting, wallZones, publishing, missed>>
<1>1. requests["props"] # <<>> /\ requests["props"] \in Seq(Requests)
  BY DEF PropsAct, DoorTypes, Exts
<1>2. /\ action.asked = "props"
      /\ Len(requests["props"]) = 1
      /\ requests["props"][1] = [targets |-> action.targets["props"], seen |-> action.seen, late |-> FALSE]
  BY <1>1 DEF Asked
<1>3. action.pc = "asking"
  BY <1>2, ActionIs, ExtensionsAssumption DEF DoorTypes, Exts
<1>4. action.seen = door
  BY <1>2, <1>3 DEF Asked, Pending
<1> DEFINE r == Head(requests["props"])
           t == Tail(requests["props"])
<1>5. r \in Requests /\ r = requests["props"][1] /\ t \in Seq(Requests) /\ Len(t) = 0
  BY <1>1, <1>2, TailIs
<1>6. /\ requests' = [requests EXCEPT !["props"] = t]
      /\ IF r.late THEN UNCHANGED <<door, action>>
          ELSE door' = Applied(r) /\ action' = [action EXCEPT !.asked = None]
      /\ UNCHANGED <<up, starting, wallsVars, missed>>
  BY DEF PropsAct
<1> HIDE DEF r, t
<1>7. t = <<>> /\ ~r.late /\ r.targets = action.targets["props"] /\ r.seen = door
  BY <1>2, <1>4, <1>5
<1>8. requests'["props"] = <<>> /\ requests'["walls"] = requests["walls"]
  BY <1>6, <1>7 DEF DoorTypes, Exts
<1> QED BY <1>2, <1>3, <1>4, <1>5, <1>6, <1>7, <1>8 DEF wallsVars

LEMMA AskedPropsAct ==
  ASSUME DoorTypes, Asked, PropsAct, ~missed
  PROVE  Asked'
<1>1. /\ action.asked = "props" /\ action.pc = "asking"
      /\ action' = [action EXCEPT !.asked = None]
      /\ requests'["props"] = <<>> /\ requests'["walls"] = requests["walls"] /\ UNCHANGED missed
  BY PropsActIs
<1>2. action'.pc = action.pc /\ action'.todo = action.todo /\ action'.asked = None
      /\ action'.targets = action.targets
  BY <1>1, Unasked DEF DoorTypes
<1>3. None # "props" /\ None # "walls" /\ None \notin action.todo /\ "walls" # "props"
  <2>1. action.todo \subseteq Exts
    BY ActionIs DEF DoorTypes
  <2> QED BY <2>1, ExtensionsAssumption DEF Exts
<1>4. ~Pending("props")'
  BY <1>1, <1>2, <1>3 DEF Pending, Asked
<1> QED BY <1>1, <1>2, <1>3, <1>4 DEF Asked

\* ext-walls replies to the first request in its queue.
LEMMA RepliesIs ==
  ASSUME DoorTypes, Asked, Publish("action"), ~missed
  PROVE  /\ requests["walls"] # <<>> /\ requests["walls"] \in Seq(Requests)
         /\ requests'["walls"] = Tail(requests["walls"]) /\ requests'["props"] = requests["props"]
         /\ \/ requests["walls"][1].late /\ action' = action
            \/ /\ ~requests["walls"][1].late /\ action.asked = "walls" /\ Len(requests["walls"]) = 1
               /\ action' = [action EXCEPT !.asked = None]
         /\ publishing["action"] # None /\ publishing'["action"] = None
         /\ UNCHANGED <<up, starting, wallZones, door, missed>>
<1> DEFINE q == requests["walls"]
           t == Tail(requests["walls"])
<1>1. q # <<>> /\ q \in Seq(Requests) /\ publishing["action"] # None
  BY DEF DoorTypes, Publish, Exts
<1>2. Head(q) = q[1] /\ t \in Seq(Requests) /\ 1 \in 1..Len(q)
  BY <1>1, TailIs
<1>3. /\ requests' = [requests EXCEPT !["walls"] = t]
      /\ action' = IF q[1].late THEN action ELSE [action EXCEPT !.asked = None]
      /\ publishing' = Quiet("action")
      /\ UNCHANGED <<up, starting, wallZones, door, missed>>
  BY <1>2 DEF Publish
<1> HIDE DEF t
<1>4. requests'["walls"] = t /\ requests'["props"] = requests["props"]
  BY <1>2, <1>3 DEF DoorTypes, Exts
<1>5. ~q[1].late => Len(q) = 1 /\ action.asked = "walls"
  BY <1>2 DEF Asked
<1>6. publishing'["action"] = None
  BY <1>3, QuietIs DEF DoorTypes, Registrars
<1> QED BY <1>1, <1>3, <1>4, <1>5, <1>6 DEF t

LEMMA AskedReply ==
  ASSUME DoorTypes, Asked, Publish("action"), ~missed
  PROVE  Asked'
<1> DEFINE q == requests["walls"]
           t == Tail(requests["walls"])
<1>1. /\ q # <<>> /\ q \in Seq(Requests)
      /\ requests'["walls"] = t /\ requests'["props"] = requests["props"]
      /\ \/ q[1].late /\ action' = action
         \/ ~q[1].late /\ action.asked = "walls" /\ Len(q) = 1 /\ action' = [action EXCEPT !.asked = None]
      /\ UNCHANGED <<door, missed>>
  BY RepliesIs
<1>2. t \in Seq(Requests) /\ Len(t) = Len(q) - 1 /\ Len(q) \in Nat /\ Len(q) >= 1
      /\ \A n \in 1..(Len(q) - 1) : t[n] = q[n + 1]
  BY <1>1, TailIs
<1> HIDE DEF t
<1>3. CASE q[1].late /\ action' = action
  <2>1. ASSUME NEW n \in 1..Len(t), ~t[n].late PROVE n = Len(t) /\ action.asked = "walls"
    <3>1. n \in 1..(Len(q) - 1) /\ n + 1 \in 1..Len(q) /\ ~q[n + 1].late
      BY <2>1, <1>2
    <3>2. n + 1 = Len(q) /\ action.asked = "walls"
      BY <3>1 DEF Asked
    <3> QED BY <3>2, <1>2
  <2>2. Pending("props")' <=> Pending("props")
    BY <1>3 DEF Pending
  <2> QED BY <2>1, <2>2, <1>1, <1>3 DEF Asked
<1>4. CASE ~q[1].late /\ action.asked = "walls" /\ Len(q) = 1 /\ action' = [action EXCEPT !.asked = None]
  <2>1. action'.pc = action.pc /\ action'.todo = action.todo /\ action'.asked = None
        /\ action'.targets = action.targets /\ action'.seen = action.seen
    BY <1>4, Unasked DEF DoorTypes
  <2>2. None # "props" /\ None # "walls" /\ None \notin action.todo /\ "walls" # "props"
    <3>1. action.todo \subseteq Exts
      BY ActionIs DEF DoorTypes
    <3> QED BY <3>1, ExtensionsAssumption DEF Exts
  <2>3. \A n \in 1..Len(t) : FALSE
    BY <1>2, <1>4
  <2>4. Pending("props")' <=> Pending("props")
    BY <2>1, <2>2, <1>4 DEF Pending
  <2> QED BY <2>1, <2>2, <2>3, <2>4, <1>1, <1>4 DEF Asked
<1> QED BY <1>1, <1>3, <1>4

LEMMA AskedKept == DoorTypes /\ Beginning /\ Lone /\ Asked /\ [Next]_vars => Asked'
<1> SUFFICES ASSUME DoorTypes, Beginning, Lone, Asked, [Next]_vars, ~missed' PROVE Asked'
  BY DEF Asked
<1>1. /\ ~missed /\ ~Reload /\ \A p \in Exts \cup {"worldsim"} : ~Crash(p)
      /\ Interact => ExtensionsForInput = Exts /\ starting = {}
  BY NotMissed
<1>2. CASE WallsReady \/ PropsReady \/ Tick \/ WallsAct \/ ZonesArrive
           \/ RegistrationArrives \/ EditOptions \/ OptionsArrive
  <2>1. UNCHANGED <<requests, action, door, missed>>
    BY <1>2 DEF WallsReady, PropsReady, Tick, WallsAct, ZonesArrive, RegistrationArrives, EditOptions,
                OptionsArrive, worldsimVars, busVars
  <2> QED BY <2>1, AskedStays
<1>3. CASE Interact
  BY <1>1, <1>3, AskedInteract
<1>4. CASE \E x \in Exts : Ask(x)
  <2>1. Together
    BY <1>1, <1>4, ActingTogether
  <2> QED BY <1>1, <1>4, <2>1, AskedAsk
<1>5. CASE Answer
  BY <1>1, <1>5, AskedAnswer
<1>6. CASE TimeOut
  BY <1>1, <1>6, AskedTimeOut
<1>7. CASE PropsAct
  BY <1>1, <1>7, AskedPropsAct
<1>8. ASSUME NEW p \in Registrars, Publish(p) PROVE Asked'
  <2>1. CASE p = "action"
    BY <1>1, <1>8, <2>1, AskedReply
  <2>2. CASE p # "action"
    <3>1. UNCHANGED <<requests, action, door, missed>>
      BY <1>8, <2>2 DEF Publish
    <3> QED BY <3>1, AskedStays
  <2> QED BY <2>1, <2>2
<1>9. CASE \E p \in Exts \cup {"worldsim"} : Start(p)
  <2>1. UNCHANGED <<requests, action, door, missed>>
    BY <1>9 DEF Start, worldsimVars, busVars
  <2> QED BY <2>1, AskedStays
<1>10. CASE UNCHANGED vars
  BY <1>10, AskedStays DEF vars
<1> QED BY <1>1, <1>2, <1>3, <1>4, <1>5, <1>6, <1>7, <1>8, <1>9, <1>10 DEF Next

-----------------------------------------------------------------------------
Running == {"walls", "worldsim"} \subseteq up /\ "walls" \notin starting

LEMMA GoalType ==
  ASSUME DoorTypes
  PROVE  Closed \in SUBSET Doors /\ After \in SUBSET Doors /\ Goal \in SUBSET Doors /\ Targets \in SUBSET Doors
<1>1. action.targets["walls"] \in SUBSET Doors
  BY ActionIs DEF DoorTypes
<1>2. Closed \in SUBSET Doors /\ Targets \in SUBSET Doors
  BY <1>1 DEF Closed, Targets
<1>3. After \in SUBSET Doors
  BY <1>2, FlipType DEF After
<1> QED BY <1>2, <1>3, FlipType DEF Goal

\* Where ext-walls' zones are to go depends on the doors and on what is still
\* to be asked.
LEMMA GoalSame ==
  ASSUME UNCHANGED door, action'.pc = action.pc, action'.targets = action.targets,
         "walls" \in action'.todo <=> "walls" \in action.todo,
         Pending("props")' <=> Pending("props")
  PROVE  Goal' = Goal
BY DEF Goal, After, Targets, Closed

LEMMA WalledStays ==
  ASSUME Walled, ~missed, Running,
         UNCHANGED <<requests, wallZones>>, publishing'["action"] = publishing["action"], Goal' = Goal
  PROVE  Walled'
<1>1. PICK path \in [0..Len(requests["walls"]) -> SUBSET Doors] :
        Leads(path, requests["walls"], First, wallZones, Goal)
  BY DEF Walled, Running
<1>2. First' = First
  BY DEF First
<1>3. Leads(path, requests["walls"]', First', wallZones', Goal')
  BY <1>1, <1>2 DEF Leads
<1> QED BY <1>1, <1>3 DEF Walled

\* The zones on entering: ext-walls has just read them, no door is open.
LEMMA WalledReady ==
  ASSUME DoorTypes, Beginning, WallsReady, ~missed, {"walls", "worldsim"} \subseteq up
  PROVE  Walled'
<1>1. Untouched
  <2>1. "walls" \in starting
    BY DEF WallsReady
  <2> QED BY <2>1 DEF Beginning, FirstAll, Together
<1>2. /\ wallZones' = Doors
      /\ publishing' = [publishing EXCEPT !["ready"] = [zones |-> Gates(wallZones')]]
      /\ UNCHANGED <<door, action, requests>>
  BY DEF WallsReady, worldsimVars, busVars
<1>3. publishing'["action"] = None
  BY <1>1, <1>2, RegistrationsType DEF Untouched, DoorTypes, Registrars
<1>4. First' = 0 /\ requests'["walls"] = <<>>
  BY <1>1, <1>2, <1>3 DEF First, Untouched, Exts
<1>5. Goal' = Doors
  <2>1. action'.todo = {} /\ action'.asked = None
    BY <1>1, <1>2 DEF Untouched, NoAction
  <2>2. None # "props"
    BY ExtensionsAssumption DEF Exts
  <2>3. Closed' = Doors
    BY <1>1, <1>2 DEF Closed, Untouched
  <2> QED BY <2>1, <2>2, <2>3 DEF Goal, After, Pending
<1>6. \E path \in [0..Len(<<>>) -> SUBSET Doors] : Leads(path, <<>>, 0, Doors, Doors)
  BY PathTrivial
<1> QED BY <1>2, <1>4, <1>5, <1>6 DEF Walled

LEMMA WalledInteract ==
  ASSUME DoorTypes, Asked, Walled, Lone, Interact, ~missed, Running, ExtensionsForInput = Exts
  PROVE  Walled'
<1>1. PICK adjacent \in Adjacents, targets \in SUBSET Doors :
        /\ action = NoAction
        /\ action' \in Askings /\ action'.todo = ExtensionsForInput
        /\ action'.targets["walls"] = adjacent
  BY InteractIs
<1>2. UNCHANGED <<door, requests, wallZones, publishing>>
  BY DEF Interact, busVars, wallsVars
<1>3. Goal = Closed
  <2>1. None # "props"
    BY ExtensionsAssumption DEF Exts
  <2> QED BY <1>1, <2>1 DEF Goal, After, Pending, NoAction
<1>4. "walls" \in action'.todo /\ Pending("props")' /\ Targets' = adjacent /\ Closed' = Closed
  BY <1>1, <1>2 DEF Pending, Targets, Closed, Askings, Exts
<1>5. Goal' = Flipped(Flipped(Closed, adjacent), adjacent)
  BY <1>4 DEF Goal, After
<1>6. Goal' = Goal
  BY <1>3, <1>5, FlipTwice
<1> QED BY <1>2, <1>6, WalledStays

LEMMA WalledAsk ==
  ASSUME DoorTypes, Asked, Walled, ~missed, Together, NEW x \in Exts, Ask(x)
  PROVE  Walled'
<1>1. /\ action \in Askings /\ action.asked = None /\ x \in action.todo
      /\ action' \in Askings /\ action'.todo = action.todo \ {x}
      /\ action'.targets = action.targets
      /\ UNCHANGED <<up, starting, door, wallZones, publishing, missed>>
  BY AskIs DEF wallsVars
<1>2. PICK r \in Requests :
        /\ r.targets = action.targets[x]
        /\ action'.asked = x
        /\ requests' = [requests EXCEPT ![x] = Append(requests[x], r)]
  <2>1. x \in up
    BY DEF Together
  <2>2. PICK r \in Requests :
                 /\ r = [targets |-> action.targets[x], seen |-> action.seen, late |-> FALSE]
                 /\ action'.asked = x
                 /\ requests' = [requests EXCEPT ![x] = Append(requests[x], r)]
    BY <2>1, AskIs
  <2>3. r.targets = action.targets[x]
    BY <2>2
  <2> QED BY <2>2, <2>3
<1>3. action.pc = "asking" /\ action'.pc = "asking" /\ Running
  <2>1. action.pc = "asking" /\ action'.pc = "asking"
    BY <1>1 DEF Askings
  <2>2. Running
    BY DEF Together, Running, Exts
  <2> QED BY <2>1, <2>2
<1>4. CASE x = "props"
  <2>1. (Pending("props")' <=> Pending("props")) /\ ("walls" \in action'.todo <=> "walls" \in action.todo)
    BY <1>1, <1>2, <1>4 DEF Pending
  <2>2. Goal' = Goal
    BY <1>1, <1>3, <2>1, GoalSame
  <2> DEFINE a == Append(requests[x], r)
  <2>3. requests' = [requests EXCEPT ![x] = a]
    BY <1>2
  <2> HIDE DEF a
  <2>4. requests'["walls"] = requests["walls"]
    BY <1>4, <2>3 DEF DoorTypes, Exts
  <2>5. PICK path \in [0..Len(requests["walls"]) -> SUBSET Doors] :
          Leads(path, requests["walls"], First, wallZones, Goal)
    BY <1>3 DEF Walled, Running
  <2>6. First' = First
    BY <1>1 DEF First
  <2>7. Leads(path, requests'["walls"], First', wallZones', Goal')
    BY <1>1, <2>2, <2>4, <2>5, <2>6
  <2> QED BY <2>4, <2>5, <2>7 DEF Walled
<1>5. CASE x = "walls"
  <2> DEFINE q == requests["walls"]
             a == Append(q, r)
             goal == Flipped(Goal, r.targets)
  <2>1. q \in Seq(Requests) /\ First \in {0, 1} /\ First <= Len(q)
    <3>1. q \in Seq(Requests)
      BY DEF DoorTypes, Exts
    <3>2. Len(q) \in Nat /\ (q # <<>> => Len(q) >= 1)
      BY <3>1
    <3> QED BY <3>1, <3>2 DEF First, DoorTypes
  <2>2. goal \in SUBSET Doors
    <3>1. r.targets \in SUBSET Doors
      BY DEF Requests
    <3> QED BY <3>1, GoalType, FlipType
  <2>3. PICK path \in [0..Len(q) -> SUBSET Doors] : Leads(path, q, First, wallZones, Goal)
    BY <1>3 DEF Walled, Running
  <2>4. Goal' = goal
    <3>1. "walls" \in action.todo /\ "walls" \notin action'.todo
      BY <1>1, <1>5
    <3>2. None # "props" /\ "walls" # "props"
      BY ExtensionsAssumption DEF Exts
    <3>3. Pending("props")' <=> Pending("props")
      BY <1>1, <1>2, <1>5, <3>2 DEF Pending
    <3>4. After' = After
      BY <1>1, <1>3, <3>3 DEF After, Targets, Closed
    <3>5. Goal = Flipped(After, r.targets) /\ Goal' = After
      BY <1>2, <1>3, <1>5, <3>1, <3>4 DEF Goal, Targets
    <3> QED BY <3>5, FlipTwice
  <2> HIDE DEF goal
  <2>5. goal = Flipped(Goal, r.targets)
    BY DEF goal
  <2>6. \E new \in [0..Len(a) -> SUBSET Doors] : Leads(new, a, First, wallZones, goal)
    BY <2>1, <2>2, <2>3, <2>5, PathGrows
  <2> HIDE DEF a
  <2>7. requests' = [requests EXCEPT !["walls"] = a]
    BY <1>2, <1>5 DEF a
  <2>8. requests'["walls"] = a
    BY <2>7 DEF DoorTypes, Exts
  <2>9. First' = First /\ wallZones' = wallZones
    BY <1>1 DEF First
  <2> QED BY <2>4, <2>6, <2>8, <2>9 DEF Walled
<1> QED BY <1>4, <1>5 DEF Exts

LEMMA WalledTimeOut ==
  ASSUME DoorTypes, Asked, Walled, Lone, TimeOut, ~missed, Running
  PROVE  Walled'
<1> DEFINE q == requests["walls"]
           l == LateOf(q)
<1>1. action.asked = "walls"
  BY ExtensionsAssumption DEF TimeOut, Lone, Exts
<1>2. /\ action' = [action EXCEPT !.asked = None] /\ requests' = [requests EXCEPT !["walls"] = l]
      /\ UNCHANGED <<door, wallZones, publishing>>
  BY <1>1 DEF TimeOut, LateOf, wallsVars
<1>3. /\ q \in Seq(Requests) /\ l \in Seq(Requests) /\ Len(l) = Len(q)
      /\ \A n \in 1..Len(q) : l[n].targets = q[n].targets
  BY LateIs DEF DoorTypes, Exts
<1> HIDE DEF l
<1>4. requests'["walls"] = l /\ First' = First
  BY <1>2 DEF DoorTypes, Exts, First
<1>5. action'.pc = action.pc /\ action'.todo = action.todo /\ action'.asked = None
      /\ action'.targets = action.targets
  BY <1>2, Unasked DEF DoorTypes
<1>6. Goal' = Goal
  <2>1. None # "props" /\ "walls" # "props"
    BY ExtensionsAssumption DEF Exts
  <2>2. Pending("props")' <=> Pending("props")
    BY <1>1, <1>5, <2>1 DEF Pending
  <2> QED BY <1>2, <1>5, <2>2, GoalSame
<1>7. PICK path \in [0..Len(q) -> SUBSET Doors] : Leads(path, q, First, wallZones, Goal)
  BY DEF Walled, Running
<1>8. Leads(path, l, First, wallZones, Goal)
  BY <1>3, <1>7, PathSame
<1>9. Leads(path, requests'["walls"], First', wallZones', Goal') /\ Len(requests'["walls"]) = Len(q)
  BY <1>2, <1>3, <1>4, <1>6, <1>8
<1> QED BY <1>7, <1>9 DEF Walled

\* ext-props flips the doors that the request to ext-walls is about.
LEMMA WalledPropsAct ==
  ASSUME DoorTypes, Asked, Walled, PropsAct, ~missed, Running
  PROVE  Walled'
<1>1. PICK r \in Requests : r.targets = action.targets["props"] /\ r.seen = door /\ door' = Applied(r)
  BY PropsActIs
<1>2. /\ action.asked = "props" /\ action.pc = "asking"
      /\ action' = [action EXCEPT !.asked = None] /\ requests'["walls"] = requests["walls"]
      /\ UNCHANGED <<wallZones, publishing>>
  BY PropsActIs
<1>3. action'.pc = action.pc /\ action'.todo = action.todo /\ action'.asked = None
      /\ action'.targets = action.targets
  BY <1>2, Unasked DEF DoorTypes
<1>4. Targets = r.targets /\ Targets' = Targets /\ Targets \in SUBSET Doors
  BY <1>1, <1>2, <1>3, GoalType DEF Asked, Targets
<1>5. Closed' = Flipped(Closed, Targets)
  <2>1. door \in [Doors -> {"on", "off"}]
    BY DEF DoorTypes, TypeOK
  <2>2. \A d \in Doors : door'[d] = IF d \in Targets THEN Toggled(door[d]) ELSE door[d]
    BY <1>1, <1>4 DEF Applied
  <2>3. \A d \in Doors : door'[d] = "off" <=> (IF d \in Targets THEN door[d] # "off" ELSE door[d] = "off")
    BY <2>1, <2>2 DEF Toggled
  <2>4. Closed' = {d \in Doors : door'[d] = "off"}
    BY DEF Closed
  <2> QED BY <2>3, <2>4, <1>4 DEF Closed, Flipped
<1>6. Pending("props") /\ ~Pending("props")'
  <2>1. None # "props" /\ "props" \notin action.todo
    BY <1>2, ExtensionsAssumption DEF Exts, Asked
  <2> QED BY <1>2, <1>3, <2>1 DEF Pending
<1>7. Goal' = Goal
  <2>1. After' = After
    BY <1>5, <1>6 DEF After
  <2> QED BY <1>3, <1>4, <2>1 DEF Goal
<1>8. PICK path \in [0..Len(requests["walls"]) -> SUBSET Doors] :
        Leads(path, requests["walls"], First, wallZones, Goal)
  BY DEF Walled, Running
<1>9. Leads(path, requests'["walls"], First', wallZones', Goal')
  <2>1. First' = First
    BY <1>2 DEF First
  <2> QED BY <1>2, <1>7, <1>8, <2>1
<1> QED BY <1>2, <1>8, <1>9 DEF Walled

LEMMA WalledWallsAct ==
  ASSUME DoorTypes, Walled, WallsAct, ~missed, Running
  PROVE  Walled'
<1> DEFINE q == requests["walls"]
<1>1. /\ q # <<>> /\ publishing["action"] = None
      /\ wallZones' = Flipped(wallZones, Head(q).targets)
      /\ publishing' = [publishing EXCEPT !["action"] = [zones |-> Gates(wallZones')]]
      /\ UNCHANGED <<requests, action, door>>
  BY DEF WallsAct, worldsimVars, busVars
<1>2. q \in Seq(Requests) /\ Head(q) = q[1]
  BY <1>1 DEF DoorTypes, Exts
<1>3. First = 0 /\ First' = 1
  <2>1. Head(q).targets \in SUBSET Doors /\ wallZones \in SUBSET Doors
    <3>1. Head(q) \in Requests
      BY <1>1, <1>2
    <3> QED BY <3>1 DEF Requests, DoorTypes, TypeOK
  <2>2. wallZones' \in SUBSET Doors
    BY <1>1, <2>1, FlipType
  <2> DEFINE s == [zones |-> Gates(wallZones')]
  <2>3. s \in Snapshots
    BY <2>2, GatesType
  <2>4. s # None
    BY <2>3, ExtensionsAssumption DEF Snapshots
  <2> HIDE DEF s
  <2>5. publishing' = [publishing EXCEPT !["action"] = s]
    BY <1>1 DEF s
  <2>6. publishing'["action"] = s
    BY <2>5, RegistrationsType DEF DoorTypes, Registrars
  <2> QED BY <1>1, <2>4, <2>6 DEF First
<1>4. PICK path \in [0..Len(q) -> SUBSET Doors] : Leads(path, q, 0, wallZones, Goal)
  BY <1>3 DEF Walled, Running
<1>5. Leads(path, q, 1, Flipped(wallZones, q[1].targets), Goal)
  BY <1>1, <1>2, <1>4, PathStarts
<1>6. Goal' = Goal
  BY <1>1 DEF Goal, After, Pending, Targets, Closed
<1>7. Leads(path, requests'["walls"], First', wallZones', Goal')
  BY <1>1, <1>2, <1>3, <1>5, <1>6
<1> QED BY <1>1, <1>4, <1>7 DEF Walled

LEMMA WalledReply ==
  ASSUME DoorTypes, Asked, Walled, Publish("action"), ~missed, Running
  PROVE  Walled'
<1> DEFINE q == requests["walls"]
           t == Tail(q)
<1>1. /\ q # <<>> /\ q \in Seq(Requests) /\ requests'["walls"] = t
      /\ \/ action' = action
         \/ action.asked = "walls" /\ action' = [action EXCEPT !.asked = None]
      /\ publishing["action"] # None /\ publishing'["action"] = None
      /\ UNCHANGED <<wallZones, door>>
  BY RepliesIs
<1>2. First = 1 /\ First' = 0
  BY <1>1 DEF First
<1>3. Goal' = Goal
  <2>1. CASE action' = action
    BY <1>1, <2>1 DEF Goal, After, Pending, Targets, Closed
  <2>2. CASE action.asked = "walls" /\ action' = [action EXCEPT !.asked = None]
    <3>1. action'.pc = action.pc /\ action'.todo = action.todo /\ action'.asked = None
          /\ action'.targets = action.targets
      BY <2>2, Unasked DEF DoorTypes
    <3>2. None # "props" /\ "walls" # "props"
      BY ExtensionsAssumption DEF Exts
    <3>3. Pending("props")' <=> Pending("props")
      BY <2>2, <3>1, <3>2 DEF Pending
    <3> QED BY <1>1, <3>1, <3>3, GoalSame
  <2> QED BY <1>1, <2>1, <2>2
<1>4. PICK path \in [0..Len(q) -> SUBSET Doors] : Leads(path, q, 1, wallZones, Goal)
  BY <1>2 DEF Walled, Running
<1>5. PICK new \in [0..Len(t) -> SUBSET Doors] : Leads(new, t, 0, wallZones, Goal)
  BY <1>1, <1>4, PathShrinks
<1> HIDE DEF t
<1>6. Leads(new, requests'["walls"], First', wallZones', Goal')
  BY <1>1, <1>2, <1>3, <1>5
<1> QED BY <1>1, <1>5, <1>6 DEF Walled

LEMMA WalledKept ==
  DoorTypes /\ Beginning /\ Lone /\ Asked /\ Walled /\ [Next]_vars => Walled'
<1> SUFFICES ASSUME DoorTypes, Beginning, Lone, Asked, Walled, [Next]_vars, ~missed', Running' PROVE Walled'
  BY DEF Walled, Running
<1>1. /\ ~missed /\ ~Reload /\ \A p \in Exts \cup {"worldsim"} : ~Crash(p)
      /\ Interact => ExtensionsForInput = Exts /\ starting = {}
  BY NotMissed
<1>2. CASE WallsReady
  <2>1. {"walls", "worldsim"} \subseteq up
    BY <1>2 DEF WallsReady, Running
  <2> QED BY <1>1, <1>2, <2>1, WalledReady
<1>3. CASE PropsReady \/ Tick \/ RegistrationArrives \/ EditOptions \/ OptionsArrive
  <2>1. UNCHANGED <<up, requests, wallZones, action, door>> /\ starting \subseteq starting' \cup {"props"}
    BY <1>3 DEF PropsReady, Tick, RegistrationArrives, EditOptions, OptionsArrive, worldsimVars, wallsVars
  <2>2. Running
    BY <2>1 DEF Running
  <2>3. publishing'["action"] = publishing["action"]
    <3>1. publishing' = publishing \/ publishing' = [publishing EXCEPT !["loop"] = [zones |-> Gates(wallZones)]]
      BY <1>3 DEF PropsReady, Tick, RegistrationArrives, EditOptions, OptionsArrive, wallsVars
    <3> QED BY <3>1, RegistrationsType DEF DoorTypes, Registrars
  <2>4. Goal' = Goal
    BY <2>1 DEF Goal, After, Pending, Targets, Closed
  <2> QED BY <1>1, <2>1, <2>2, <2>3, <2>4, WalledStays
<1>4. CASE WallsAct
  <2>1. Running
    BY <1>4 DEF Running, WallsAct
  <2> QED BY <1>1, <1>4, <2>1, WalledWallsAct
<1>5. CASE ZonesArrive
  BY <1>1, <1>5 DEF ZonesArrive, Beginning, Known
<1>6. CASE Interact
  <2>1. Running
    BY <1>6 DEF Running, Interact
  <2> QED BY <1>1, <1>6, <2>1, WalledInteract
<1>7. CASE \E x \in Exts : Ask(x)
  <2>1. Together
    BY <1>1, <1>7, ActingTogether
  <2> QED BY <1>1, <1>7, <2>1, WalledAsk
<1>8. CASE Answer
  <2>1. action.todo = {} /\ action.asked = None /\ action' = NoAction
        /\ UNCHANGED <<up, starting, requests, wallZones, publishing, door>>
    BY <1>8 DEF Answer, busVars, wallsVars
  <2>2. Running
    BY <2>1 DEF Running
  <2>3. Goal' = Goal
    <3>1. None # "props"
      BY ExtensionsAssumption DEF Exts
    <3> QED BY <2>1, <3>1 DEF Goal, After, Pending, Closed, NoAction
  <2> QED BY <1>1, <2>1, <2>2, <2>3, WalledStays
<1>9. CASE TimeOut
  <2>1. Running
    BY <1>9 DEF Running, TimeOut
  <2> QED BY <1>1, <1>9, <2>1, WalledTimeOut
<1>10. CASE PropsAct
  <2>1. Running
    BY <1>10 DEF Running, PropsAct
  <2> QED BY <1>1, <1>10, <2>1, WalledPropsAct
<1>11. ASSUME NEW p \in Registrars, Publish(p) PROVE Walled'
  <2>1. Running
    BY <1>11 DEF Running, Publish
  <2>2. CASE p = "action"
    BY <1>1, <1>11, <2>1, <2>2, WalledReply
  <2>3. CASE p # "action"
    <3>1. UNCHANGED <<requests, action, door, wallZones>>
      BY <1>11, <2>3 DEF Publish
    <3>2. publishing'["action"] = publishing["action"]
      BY <1>11, <2>3, QuietIs DEF Publish, DoorTypes, Registrars
    <3>3. Goal' = Goal
      BY <3>1 DEF Goal, After, Pending, Targets, Closed
    <3> QED BY <1>1, <2>1, <3>1, <3>2, <3>3, WalledStays
  <2> QED BY <2>2, <2>3
<1>12. ASSUME NEW p \in Exts \cup {"worldsim"}, Start(p) PROVE Walled'
  <2>1. /\ up' = up \cup {p}
        /\ starting' = IF p = "worldsim" THEN up \cap Exts ELSE starting \cup {p}
        /\ UNCHANGED <<requests, action, door, wallZones, publishing>>
    BY <1>12 DEF Start, worldsimVars, busVars, wallsVars
  <2>2. Running
    BY <2>1 DEF Running, Exts
  <2>3. Goal' = Goal
    BY <2>1 DEF Goal, After, Pending, Targets, Closed
  <2>4. UNCHANGED <<requests, wallZones>> /\ publishing'["action"] = publishing["action"]
    BY <2>1
  <2> QED BY <1>1, <2>2, <2>3, <2>4, WalledStays
<1>13. CASE UNCHANGED vars
  <2>1. UNCHANGED <<up, starting, requests, action, door, wallZones, publishing>>
    BY <1>13 DEF vars
  <2>2. Running
    BY <2>1 DEF Running
  <2>3. Goal' = Goal
    BY <2>1 DEF Goal, After, Pending, Targets, Closed
  <2>4. UNCHANGED <<requests, wallZones>> /\ publishing'["action"] = publishing["action"]
    BY <2>1
  <2> QED BY <1>1, <2>2, <2>3, <2>4, WalledStays
<1> QED BY <1>1, <1>2, <1>3, <1>4, <1>5, <1>6, <1>7, <1>8, <1>9, <1>10, <1>11, <1>12, <1>13 DEF Next

LEMMA DoorInvInit == Init => Known /\ FirstAll /\ Asked /\ Walled
<1> SUFFICES ASSUME Init PROVE Known /\ FirstAll /\ Asked /\ Walled
  OBVIOUS
<1>1. /\ up = {} /\ inputTriggers = {} /\ registrations = <<>> /\ zonesQueue = <<>>
      /\ publishing = [p \in Registrars |-> None] /\ requests = [x \in Exts |-> <<>>]
      /\ door = [d \in Doors |-> "off"] /\ action = NoAction
  BY DEF Init
<1>2. Len(<<>>) = 0 /\ \A n \in 1..Len(<<>>) : FALSE
  OBVIOUS
<1>3. Known
  BY <1>1, <1>2 DEF Known
<1>4. FirstAll
  BY <1>1 DEF FirstAll, Untouched, Registrars
<1>5. Asked
  <2>1. requests["walls"] = <<>> /\ requests["props"] = <<>>
    BY <1>1 DEF Exts
  <2>2. action.asked = None /\ action.pc = "idle" /\ action.todo = {} /\ None # "props"
    BY <1>1, ExtensionsAssumption DEF NoAction, Exts
  <2> QED BY <1>2, <2>1, <2>2 DEF Asked
<1>6. Walled
  BY <1>1 DEF Walled
<1> QED BY <1>3, <1>4, <1>5, <1>6

\* At rest there is nothing on its way, and the goal is the closed doors.
LEMMA AtRestMatches == DoorInv => DoorMatchesWall
<1> SUFFICES ASSUME DoorInv, AtRest, up = Exts \cup {"worldsim"}, ~missed
             PROVE  \A d \in Doors : door[d] = "on" <=> d \notin wallZones
  BY DEF DoorMatchesWall
<1>1. action = NoAction /\ requests["walls"] = <<>> /\ starting = {}
  BY DEF AtRest, Exts
<1>2. First = 0
  BY <1>1 DEF DoorInv, DoorTypes, First
<1>3. PICK path \in [0..Len(requests["walls"]) -> SUBSET Doors] :
        Leads(path, requests["walls"], First, wallZones, Goal)
  BY <1>1 DEF DoorInv, Walled, Exts
<1>4. wallZones = Goal
  <2>1. Leads(path, <<>>, 0, wallZones, Goal)
    BY <1>1, <1>2, <1>3
  <2> QED BY <2>1, PathEnds
<1>5. Goal = Closed
  <2>1. None # "props"
    BY ExtensionsAssumption DEF Exts
  <2> QED BY <1>1, <2>1 DEF Goal, After, Pending, NoAction
<1>6. door \in [Doors -> {"on", "off"}]
  BY DEF DoorInv, DoorTypes, TypeOK
<1> QED BY <1>4, <1>5, <1>6 DEF Closed

\* Two extensions that do not know of each other agree about the doors at
\* rest, however late ext-walls replies, unless one key press reaches several
\* doors or ext-props is late.
THEOREM DoorsMatchWalls == ASSUME Lone PROVE Spec => []DoorMatchesWall
<1>1. Init => DoorInv
  BY DoorTypesInit, DoorInvInit DEF DoorInv
<1>2. DoorInv /\ [Next]_vars => DoorInv'
  BY DoorTypesKept, BeginningKept, AskedKept, WalledKept DEF DoorInv, Beginning
<1>3. DoorInv => DoorMatchesWall
  BY AtRestMatches
<1> QED BY <1>1, <1>2, <1>3, PTL DEF Spec

-----------------------------------------------------------------------------
(* ext-av. *)

Rooms == [room : Zones, pc : {"mint", "record", "eject"}]
StatusNow == IF status THEN "dnd" ELSE "available"

\* What each subscription carries.
Carried(s) ==
  CASE s \in {"zone.enter", "zone.exit"} -> Zones
    [] s \in {"proximity.join", "proximity.leave"} -> Groups
    [] OTHER -> {"dnd", "available"}

AvTypes ==
  /\ place \in Av!Places /\ group \in Groups \cup {None} /\ status \in BOOLEAN
  /\ DOMAIN events = Av!Subjects /\ events = [s \in Av!Subjects |-> events[s]]
  /\ \A s \in Av!Subjects : events[s] \in Seq(Carried(s))
  /\ handling \in [Av!Subjects -> Rooms \cup {None}]
  /\ playerStatus \in BOOLEAN /\ activeZoneRoom \in Zones \cup {None} /\ zoneAudio \in BOOLEAN
  /\ clientRoom \in Av!Places /\ excused \in BOOLEAN /\ lost \in BOOLEAN

\* The handlers are at work on one step of the world simulation, which sent
\* each at most one event.
ZoneNews ==
  \/ events["zone.enter"] # <<>> \/ handling["zone.enter"] # None
  \/ events["zone.exit"] # <<>> \/ handling["zone.exit"] # None
GroupNews == events["proximity.join"] # <<>> \/ events["proximity.leave"] # <<>>
StatusNews == events["player_status"] # <<>> \/ handling["player_status"] # None
OneStep ==
  /\ ZoneNews => ~GroupNews /\ ~StatusNews
  /\ GroupNews => ~StatusNews /\ ~status
  /\ events["zone.enter"] # <<>> => events["zone.enter"] = <<place>>
  /\ handling["zone.enter"] # None => handling["zone.enter"].room = place
  /\ events["zone.exit"] # <<>> => \E z \in Zones \ {place} : events["zone.exit"] = <<z>>
  /\ events["proximity.join"] # <<>> => place = group /\ events["proximity.join"] = <<group>>
  /\ events["proximity.leave"] # <<>> => \E g \in Groups \ {group} : events["proximity.leave"] = <<g>>
  /\ events["player_status"] # <<>> => events["player_status"] = <<StatusNow>>
  /\ handling["player_status"] # None => status

\* A zone that ext-av has heard of and may still announce.
Entering ==
  \/ events["zone.enter"] # <<>>
  \/ handling["zone.enter"] # None /\ handling["zone.enter"].pc = "mint"
Excuses ==
  /\ status => clientRoom = None
  /\ playerStatus /\ ~status => events["player_status"] # <<>>
  /\ Entering /\ ~excused => zoneAudio /\ ~status

\* The client is in the room of the zone or the circle of the player, or a
\* frame is on its way that changes it.
Leaving == events["zone.exit"] = <<clientRoom>> \/ events["proximity.leave"] = <<clientRoom>>
RightRoom ==
  ~lost =>
    /\ clientRoom \in Zones => zoneAudio /\ (clientRoom = place \/ events["zone.exit"] = <<clientRoom>>)
    /\ clientRoom \in Groups => clientRoom = group \/ events["proximity.leave"] = <<clientRoom>>
    /\ ~excused /\ ~status =>
         IF place \in Zones THEN clientRoom = place \/ Entering
         ELSE clientRoom = group \/ events["proximity.join"] # <<>> \/ (group = None /\ Leaving)

AvInv == AvTypes /\ OneStep /\ Excuses /\ RightRoom

LEMMA SubjectsAre ==
  /\ {"zone.enter", "zone.exit", "proximity.join", "proximity.leave", "player_status"} = Av!Subjects
  /\ Carried("zone.enter") = Zones /\ Carried("zone.exit") = Zones
  /\ Carried("proximity.join") = Groups /\ Carried("proximity.leave") = Groups
  /\ Carried("player_status") = {"dnd", "available"}
BY DEF Av!Subjects, Carried

LEMMA WiderSeq ==
  ASSUME NEW S, NEW T, S \subseteq T, NEW q \in Seq(S)
  PROVE  q \in Seq(T)
<1>1. Len(q) \in Nat /\ \A n \in 1..Len(q) : q[n] \in T
  OBVIOUS
<1> QED BY <1>1

LEMMA AvTypesSay == AvTypes => Av!TypeOK
<1> SUFFICES ASSUME AvTypes PROVE Av!TypeOK
  OBVIOUS
<1> DEFINE all_ == Zones \cup Groups \cup {"dnd", "available"}
<1>1. ASSUME NEW s \in Av!Subjects PROVE events[s] \in Seq(all_)
  <2>1. Carried(s) \subseteq all_
    BY DEF Carried
  <2>2. events[s] \in Seq(Carried(s))
    BY DEF AvTypes
  <2> QED BY <2>1, <2>2, WiderSeq
<1>2. events \in [Av!Subjects -> Seq(all_)]
  BY <1>1 DEF AvTypes
<1> QED BY <1>2 DEF AvTypes, Av!TypeOK, Rooms, Av!Work

\* A handler takes the first event of its subscription.
LEMMA TakenIs ==
  ASSUME AvTypes, NEW s \in Av!Subjects, Av!Ready(s), Av!Taken(s)
  PROVE  /\ events[s] # <<>> /\ handling[s] = None
         /\ Head(events[s]) \in Carried(s) /\ events'[s] = Tail(events[s])
         /\ DOMAIN events' = Av!Subjects /\ events' = [x \in Av!Subjects |-> events'[x]]
         /\ \A x \in Av!Subjects : events'[x] \in Seq(Carried(x))
         /\ \A x \in Av!Subjects : x # s => events'[x] = events[x]
<1> DEFINE t == Tail(events[s])
<1>1. events[s] # <<>> /\ handling[s] = None
  BY DEF Av!Ready
<1>2. events[s] \in Seq(Carried(s))
  BY DEF AvTypes
<1>3. Head(events[s]) \in Carried(s) /\ t \in Seq(Carried(s))
  BY <1>1, <1>2, TailIs
<1>4. events' = [events EXCEPT ![s] = t]
  BY DEF Av!Taken
<1> HIDE DEF t
<1>5. DOMAIN events' = Av!Subjects /\ events'[s] = t /\ \A x \in Av!Subjects : x # s => events'[x] = events[x]
  BY <1>4 DEF AvTypes
<1>6. events' = [x \in Av!Subjects |-> events'[x]]
  BY <1>4 DEF AvTypes
<1>7. \A x \in Av!Subjects : events'[x] \in Seq(Carried(x))
  BY <1>3, <1>5 DEF AvTypes
<1> QED BY <1>1, <1>3, <1>5, <1>6, <1>7 DEF t

\* A step of the world simulation sends each subject the news for it.
LEMMA PublishedIs ==
  ASSUME AvTypes, NEW news, DOMAIN news \subseteq Av!Subjects,
         \A s \in DOMAIN news : news[s] \in Carried(s) \cup {None},
         Av!Published(news)
  PROVE  /\ DOMAIN events' = Av!Subjects /\ events' = [x \in Av!Subjects |-> events'[x]]
         /\ \A s \in Av!Subjects : events'[s] \in Seq(Carried(s))
         /\ \A s \in Av!Subjects :
              events'[s] = IF s \in DOMAIN news /\ news[s] # None THEN Append(events[s], news[s]) ELSE events[s]
<1>1. events' = [s \in Av!Subjects |->
         IF s \in DOMAIN news /\ news[s] # None THEN Append(events[s], news[s]) ELSE events[s]]
  BY DEF Av!Published
<1>2. ASSUME NEW s \in Av!Subjects PROVE events'[s] \in Seq(Carried(s))
  <2>1. events[s] \in Seq(Carried(s))
    BY DEF AvTypes
  <2>2. CASE s \in DOMAIN news /\ news[s] # None
    <3>1. news[s] \in Carried(s) /\ events'[s] = Append(events[s], news[s])
      BY <1>1, <2>2
    <3> QED BY <2>1, <3>1, AppendIs
  <2>3. CASE ~(s \in DOMAIN news /\ news[s] # None)
    BY <1>1, <2>1, <2>3
  <2> QED BY <2>2, <2>3
<1> QED BY <1>1, <1>2

\* What the player's steps tell ext-av.
LEMMA WalkSends ==
  ASSUME AvTypes, NEW p \in Av!Places, Av!Walk(p)
  PROVE  /\ DOMAIN events' = Av!Subjects /\ events' = [x \in Av!Subjects |-> events'[x]]
         /\ \A s \in Av!Subjects : events'[s] \in Seq(Carried(s))
         /\ events'["zone.enter"] = IF p \in Zones THEN Append(events["zone.enter"], p) ELSE events["zone.enter"]
         /\ events'["zone.exit"] = IF place \in Zones THEN Append(events["zone.exit"], place) ELSE events["zone.exit"]
         /\ \A s \in {"proximity.join", "proximity.leave", "player_status"} : events'[s] = events[s]
<1> DEFINE news == [s \in {"zone.enter", "zone.exit"} |->
                      IF s = "zone.enter" THEN Av!Zone(p) ELSE Av!Zone(place)]
<1>1. Av!Published(news)
  BY DEF Av!Walk
<1>2. /\ DOMAIN news = {"zone.enter", "zone.exit"}
      /\ news["zone.enter"] = IF p \in Zones THEN p ELSE None
      /\ news["zone.exit"] = IF place \in Zones THEN place ELSE None
  BY DEF Av!Zone
<1> HIDE DEF news
<1>3. DOMAIN news \subseteq Av!Subjects /\ \A s \in DOMAIN news : news[s] \in Carried(s) \cup {None}
  BY <1>2, SubjectsAre
<1>4. /\ DOMAIN events' = Av!Subjects /\ events' = [x \in Av!Subjects |-> events'[x]]
      /\ \A s \in Av!Subjects : events'[s] \in Seq(Carried(s))
      /\ \A s \in Av!Subjects :
           events'[s] = IF s \in DOMAIN news /\ news[s] # None THEN Append(events[s], news[s]) ELSE events[s]
  BY <1>1, <1>3, PublishedIs
<1>5. \A z \in Zones : z # None
  BY AvAssumption
<1> QED BY <1>2, <1>4, <1>5, SubjectsAre

LEMMA ClusterSends ==
  ASSUME AvTypes, Av!Cluster
  PROVE  /\ group' = IF place \in Groups THEN place ELSE None
         /\ group' # group
         /\ DOMAIN events' = Av!Subjects /\ events' = [x \in Av!Subjects |-> events'[x]]
         /\ \A s \in Av!Subjects : events'[s] \in Seq(Carried(s))
         /\ events'["proximity.join"] = IF place \in Groups THEN Append(events["proximity.join"], place) ELSE events["proximity.join"]
         /\ events'["proximity.leave"] = IF group \in Groups THEN Append(events["proximity.leave"], group) ELSE events["proximity.leave"]
         /\ \A s \in {"zone.enter", "zone.exit", "player_status"} : events'[s] = events[s]
<1> DEFINE g == IF place \in Groups THEN place ELSE None
           news == [s \in {"proximity.join", "proximity.leave"} |->
                      IF s = "proximity.join" THEN g ELSE group]
<1>1. group' = g /\ g # group /\ Av!Published(news)
  BY DEF Av!Cluster
<1>2. /\ DOMAIN news = {"proximity.join", "proximity.leave"}
      /\ news["proximity.join"] = g /\ news["proximity.leave"] = group
  OBVIOUS
<1> HIDE DEF news
<1>3. DOMAIN news \subseteq Av!Subjects /\ \A s \in DOMAIN news : news[s] \in Carried(s) \cup {None}
  BY <1>2, SubjectsAre DEF AvTypes
<1>4. /\ DOMAIN events' = Av!Subjects /\ events' = [x \in Av!Subjects |-> events'[x]]
      /\ \A s \in Av!Subjects : events'[s] \in Seq(Carried(s))
      /\ \A s \in Av!Subjects :
           events'[s] = IF s \in DOMAIN news /\ news[s] # None THEN Append(events[s], news[s]) ELSE events[s]
  BY <1>1, <1>3, PublishedIs
<1>5. (\A z \in Groups : z # None) /\ (group # None <=> group \in Groups)
  BY AvAssumption DEF AvTypes
<1> QED BY <1>1, <1>2, <1>4, <1>5, SubjectsAre

LEMMA StatusSends ==
  ASSUME AvTypes, Av!SetStatus
  PROVE  /\ status' = ~status
         /\ DOMAIN events' = Av!Subjects /\ events' = [x \in Av!Subjects |-> events'[x]]
         /\ \A s \in Av!Subjects : events'[s] \in Seq(Carried(s))
         /\ events'["player_status"] = Append(events["player_status"], StatusNow')
         /\ \A s \in Av!Subjects : s # "player_status" => events'[s] = events[s]
<1> DEFINE news == [s \in {"player_status"} |-> IF status' THEN "dnd" ELSE "available"]
<1>1. status' = ~status /\ Av!Published(news)
  BY DEF Av!SetStatus
<1>2. DOMAIN news = {"player_status"} /\ news["player_status"] = StatusNow'
  BY DEF StatusNow
<1> HIDE DEF news
<1>3. StatusNow' \in {"dnd", "available"} /\ StatusNow' # None
  BY AvAssumption DEF StatusNow
<1>4. DOMAIN news \subseteq Av!Subjects /\ \A s \in DOMAIN news : news[s] \in Carried(s) \cup {None}
  BY <1>2, <1>3, SubjectsAre
<1>5. /\ DOMAIN events' = Av!Subjects /\ events' = [x \in Av!Subjects |-> events'[x]]
      /\ \A s \in Av!Subjects : events'[s] \in Seq(Carried(s))
      /\ \A s \in Av!Subjects :
           events'[s] = IF s \in DOMAIN news /\ news[s] # None THEN Append(events[s], news[s]) ELSE events[s]
  BY <1>1, <1>4, PublishedIs
<1>6. "player_status" \in Av!Subjects
  BY SubjectsAre
<1> QED BY <1>1, <1>2, <1>3, <1>5, <1>6

LEMMA RecordingIs ==
  ASSUME AvTypes, Av!EnterPublishes
  PROVE  /\ handling["zone.enter"] \in Rooms /\ handling["zone.enter"].pc = "mint"
         /\ handling'["zone.enter"] \in Rooms /\ handling'["zone.enter"].pc = "record"
         /\ handling'["zone.enter"].room = handling["zone.enter"].room
         /\ handling' \in [Av!Subjects -> Rooms \cup {None}]
         /\ \A s \in Av!Subjects : s # "zone.enter" => handling'[s] = handling[s]
<1> DEFINE h == handling["zone.enter"]
           n == [h EXCEPT !.pc = "record"]
<1>1. "zone.enter" \in Av!Subjects
  BY SubjectsAre
<1>2. h \in Rooms /\ h.pc = "mint"
  BY <1>1 DEF Av!EnterPublishes, AvTypes
<1>3. handling' = [handling EXCEPT !["zone.enter"] = n]
  BY DEF Av!EnterPublishes
<1> HIDE DEF h
<1>4. n \in Rooms /\ n.pc = "record" /\ n.room = h.room
  BY <1>2 DEF Rooms
<1> HIDE DEF n
<1>5. handling \in [Av!Subjects -> Rooms \cup {None}]
  BY DEF AvTypes
<1>6. handling' \in [Av!Subjects -> Rooms \cup {None}] /\ handling'["zone.enter"] = n
      /\ \A s \in Av!Subjects : s # "zone.enter" => handling'[s] = handling[s]
  BY <1>1, <1>3, <1>4, <1>5
<1> QED BY <1>2, <1>4, <1>6 DEF h

\* A handler goes on, or is done.
LEMMA HandlingIs ==
  ASSUME AvTypes, NEW s \in Av!Subjects, NEW h \in Rooms \cup {None},
         handling' = [handling EXCEPT ![s] = h]
  PROVE  /\ handling' \in [Av!Subjects -> Rooms \cup {None}] /\ handling'[s] = h
         /\ \A x \in Av!Subjects : x # s => handling'[x] = handling[x]
BY DEF AvTypes

LEMMA RoomIs ==
  ASSUME NEW z \in Zones, NEW pc \in {"mint", "record", "eject"}
  PROVE  /\ [room |-> z, pc |-> pc] \in Rooms /\ [room |-> z, pc |-> pc] # None
         /\ [room |-> z, pc |-> pc].room = z /\ [room |-> z, pc |-> pc].pc = pc
<1>1. [room |-> z, pc |-> pc] \in Rooms
  BY DEF Rooms
<1> QED BY <1>1, AvAssumption DEF Rooms

\* The rooms that frames make the client choose.
LEMMA ClientRooms ==
  ASSUME AvTypes, NEW r \in Zones \cup Groups
  PROVE  Av!AfterJoin(r) \in Av!Places /\ Av!AfterLeave(r) \in Av!Places
BY DEF AvTypes, Av!AfterJoin, Av!AfterLeave, Av!Places

\* What the handlers of zones and of do-not-disturb leave to be done.
LEMMA EnterIs ==
  ASSUME AvTypes, Av!EnterHandler
  PROVE  /\ handling' \in [Av!Subjects -> Rooms \cup {None}]
         /\ \A x \in Av!Subjects : x # "zone.enter" => handling'[x] = handling[x]
         /\ handling["zone.enter"] = None
         /\ IF ~zoneAudio \/ playerStatus THEN handling' = handling
            ELSE /\ handling'["zone.enter"] # None /\ handling'["zone.enter"].pc = "mint"
                 /\ handling'["zone.enter"].room = Head(events["zone.enter"])
<1> DEFINE z == Head(events["zone.enter"])
           h == [room |-> z, pc |-> "mint"]
<1>1. Av!Ready("zone.enter") /\ Av!Taken("zone.enter") /\ "zone.enter" \in Av!Subjects
  BY SubjectsAre DEF Av!EnterHandler
<1>2. z \in Zones /\ handling["zone.enter"] = None
  BY <1>1, TakenIs, SubjectsAre
<1>3. IF ~zoneAudio \/ playerStatus THEN handling' = handling
      ELSE handling' = [handling EXCEPT !["zone.enter"] = h]
  BY DEF Av!EnterHandler
<1> HIDE DEF z
<1>4. h \in Rooms /\ h # None /\ h.pc = "mint" /\ h.room = z
  BY <1>2, RoomIs
<1> HIDE DEF h
<1>5. handling \in [Av!Subjects -> Rooms \cup {None}]
  BY DEF AvTypes
<1>6. CASE ~zoneAudio \/ playerStatus
  BY <1>2, <1>3, <1>5, <1>6
<1>7. CASE ~(~zoneAudio \/ playerStatus)
  <2>1. handling' = [handling EXCEPT !["zone.enter"] = h]
    BY <1>3, <1>7
  <2>2. handling' \in [Av!Subjects -> Rooms \cup {None}] /\ handling'["zone.enter"] = h
        /\ \A x \in Av!Subjects : x # "zone.enter" => handling'[x] = handling[x]
    BY <1>1, <1>4, <1>5, <2>1
  <2> QED BY <1>2, <1>4, <1>7, <2>2 DEF z
<1> QED BY <1>6, <1>7

LEMMA ExitIs ==
  ASSUME AvTypes, Av!ExitHandler
  PROVE  /\ handling' \in [Av!Subjects -> Rooms \cup {None}]
         /\ \A x \in Av!Subjects : x # "zone.exit" => handling'[x] = handling[x]
         /\ clientRoom' = IF zoneAudio THEN Av!AfterLeave(Head(events["zone.exit"])) ELSE clientRoom
<1> DEFINE z == Head(events["zone.exit"])
           h == [room |-> z, pc |-> "record"]
<1>1. Av!Ready("zone.exit") /\ Av!Taken("zone.exit") /\ "zone.exit" \in Av!Subjects
  BY SubjectsAre DEF Av!ExitHandler
<1>2. z \in Zones
  BY <1>1, TakenIs, SubjectsAre
<1>3. IF zoneAudio THEN handling' = [handling EXCEPT !["zone.exit"] = h] /\ clientRoom' = Av!AfterLeave(z)
      ELSE handling' = handling /\ clientRoom' = clientRoom
  BY DEF Av!ExitHandler
<1> HIDE DEF z
<1>4. h \in Rooms
  BY <1>2, RoomIs
<1> HIDE DEF h
<1>5. handling \in [Av!Subjects -> Rooms \cup {None}]
  BY DEF AvTypes
<1>6. handling' \in [Av!Subjects -> Rooms \cup {None}]
      /\ \A x \in Av!Subjects : x # "zone.exit" => handling'[x] = handling[x]
  BY <1>1, <1>3, <1>4, <1>5
<1> QED BY <1>3, <1>6 DEF z

LEMMA StatusIs ==
  ASSUME AvTypes, Av!StatusHandler
  PROVE  /\ handling' \in [Av!Subjects -> Rooms \cup {None}]
         /\ \A x \in Av!Subjects : x # "player_status" => handling'[x] = handling[x]
         /\ playerStatus' = (Head(events["player_status"]) = "dnd")
         /\ handling["player_status"] = None
         /\ handling'["player_status"] # None => Head(events["player_status"]) = "dnd"
         /\ activeZoneRoom' \in Zones \cup {None}
<1> DEFINE h == [room |-> activeZoneRoom, pc |-> "eject"]
           dnd == Head(events["player_status"]) = "dnd"
<1>1. Av!Ready("player_status") /\ "player_status" \in Av!Subjects /\ handling["player_status"] = None
  BY SubjectsAre DEF Av!StatusHandler, Av!Ready
<1>2. /\ playerStatus' = dnd
      /\ IF playerStatus' /\ activeZoneRoom # None
         THEN handling' = [handling EXCEPT !["player_status"] = h] /\ activeZoneRoom' = None
         ELSE handling' = handling /\ activeZoneRoom' = activeZoneRoom
  BY DEF Av!StatusHandler
<1>3. activeZoneRoom # None => h \in Rooms
  BY RoomIs DEF AvTypes
<1> HIDE DEF h
<1>4. handling \in [Av!Subjects -> Rooms \cup {None}] /\ activeZoneRoom \in Zones \cup {None}
  BY DEF AvTypes
<1>5. CASE playerStatus' /\ activeZoneRoom # None
  <2>1. handling' \in [Av!Subjects -> Rooms \cup {None}]
        /\ \A x \in Av!Subjects : x # "player_status" => handling'[x] = handling[x]
    BY <1>1, <1>2, <1>3, <1>4, <1>5
  <2>2. dnd /\ activeZoneRoom' = None
    BY <1>2, <1>5
  <2> QED BY <1>1, <1>2, <2>1, <2>2
<1>6. CASE ~(playerStatus' /\ activeZoneRoom # None)
  <2>1. handling' = handling /\ activeZoneRoom' = activeZoneRoom
    BY <1>2, <1>6
  <2> QED BY <1>1, <1>2, <1>4, <2>1
<1> QED BY <1>5, <1>6

LEMMA AvTypesKept == AvTypes /\ [Av!Next]_(Av!vars) => AvTypes'
<1> SUFFICES ASSUME AvTypes, [Av!Next]_(Av!vars) PROVE AvTypes'
  OBVIOUS
<1> USE SubjectsAre
<1>1. ASSUME NEW p \in Av!Places, Av!Walk(p) PROVE AvTypes'
  <2>1. /\ place' = p /\ excused' = (status \/ ~zoneAudio \/ (excused /\ p \notin Zones))
        /\ UNCHANGED <<group, status, handling, playerStatus, activeZoneRoom, zoneAudio, clientRoom, lost>>
    BY <1>1 DEF Av!Walk, Av!extVars
  <2>2. excused' \in BOOLEAN
    BY <2>1
  <2> QED BY <1>1, <2>1, <2>2, WalkSends DEF AvTypes
<1>2. CASE Av!Cluster
  <2>1. /\ excused' = (excused /\ place \in Zones)
        /\ UNCHANGED <<place, status, handling, playerStatus, activeZoneRoom, zoneAudio, clientRoom, lost>>
    BY <1>2 DEF Av!Cluster, Av!extVars
  <2>2. excused' \in BOOLEAN
    BY <2>1
  <2> QED BY <1>2, <2>1, <2>2, ClusterSends DEF AvTypes
<1>3. CASE Av!SetStatus
  <2>1. /\ status' = ~status /\ excused' = TRUE /\ clientRoom' \in Av!Places
        /\ UNCHANGED <<place, group, handling, playerStatus, activeZoneRoom, zoneAudio, lost>>
    BY <1>3 DEF Av!SetStatus, Av!extVars, AvTypes, Av!Places
  <2> QED BY <1>3, <2>1, StatusSends DEF AvTypes
<1>4. CASE Av!EnterHandler
  <2>1. /\ Av!Ready("zone.enter") /\ Av!Taken("zone.enter")
        /\ UNCHANGED <<place, group, status, playerStatus, activeZoneRoom, zoneAudio, clientRoom, excused, lost>>
    BY <1>4 DEF Av!EnterHandler, Av!worldsimVars
  <2>3. handling' \in [Av!Subjects -> Rooms \cup {None}]
    BY <1>4, EnterIs
  <2> QED BY <2>1, <2>3, TakenIs DEF AvTypes
<1>5. CASE Av!EnterPublishes
  <2>1. /\ clientRoom' = Av!AfterJoin(handling["zone.enter"].room) /\ lost' = ~zoneAudio
        /\ UNCHANGED <<place, group, status, events, playerStatus, activeZoneRoom, zoneAudio, excused>>
    BY <1>5 DEF Av!EnterPublishes, Av!worldsimVars
  <2>2. handling["zone.enter"].room \in Zones
    BY <1>5, RecordingIs DEF Rooms
  <2>3. clientRoom' \in Av!Places
    BY <2>1, <2>2, ClientRooms
  <2> QED BY <1>5, <2>1, <2>3, RecordingIs DEF AvTypes
<1>6. CASE Av!EnterRecords
  <2>1. /\ activeZoneRoom' = handling["zone.enter"].room /\ handling["zone.enter"] # None
        /\ handling' = [handling EXCEPT !["zone.enter"] = None]
        /\ UNCHANGED <<place, group, status, events, playerStatus, zoneAudio, clientRoom, excused, lost>>
    BY <1>6 DEF Av!EnterRecords, Av!worldsimVars
  <2>2. activeZoneRoom' \in Zones
    BY <2>1 DEF AvTypes, Rooms
  <2> QED BY <2>1, <2>2, HandlingIs DEF AvTypes
<1>7. CASE Av!ExitHandler
  <2>1. /\ Av!Ready("zone.exit") /\ Av!Taken("zone.exit")
        /\ UNCHANGED <<place, group, status, playerStatus, activeZoneRoom, zoneAudio, excused, lost>>
    BY <1>7 DEF Av!ExitHandler, Av!worldsimVars
  <2>2. Head(events["zone.exit"]) \in Zones
    BY <2>1, TakenIs
  <2>3. clientRoom' \in Av!Places /\ handling' \in [Av!Subjects -> Rooms \cup {None}]
    BY <1>7, <2>2, ExitIs, ClientRooms DEF AvTypes
  <2> QED BY <2>1, <2>3, TakenIs DEF AvTypes
<1>8. CASE Av!ExitRecords
  <2>1. /\ activeZoneRoom' = None /\ handling' = [handling EXCEPT !["zone.exit"] = None]
        /\ UNCHANGED <<place, group, status, events, playerStatus, zoneAudio, clientRoom, excused, lost>>
    BY <1>8 DEF Av!ExitRecords, Av!worldsimVars
  <2> QED BY <2>1, HandlingIs DEF AvTypes
<1>9. CASE Av!JoinHandler
  <2>1. /\ Av!Ready("proximity.join") /\ Av!Taken("proximity.join")
        /\ clientRoom' = Av!AfterJoin(Head(events["proximity.join"])) /\ lost' = FALSE
        /\ UNCHANGED <<place, group, status, handling, playerStatus, activeZoneRoom, zoneAudio, excused>>
    BY <1>9 DEF Av!JoinHandler, Av!worldsimVars, Av!extVars
  <2>2. clientRoom' \in Av!Places
    BY <2>1, TakenIs, ClientRooms
  <2> QED BY <2>1, <2>2, TakenIs DEF AvTypes
<1>10. CASE Av!LeaveHandler
  <2>1. /\ Av!Ready("proximity.leave") /\ Av!Taken("proximity.leave")
        /\ clientRoom' = Av!AfterLeave(Head(events["proximity.leave"]))
        /\ UNCHANGED <<place, group, status, handling, playerStatus, activeZoneRoom, zoneAudio, excused, lost>>
    BY <1>10 DEF Av!LeaveHandler, Av!worldsimVars, Av!extVars
  <2>2. clientRoom' \in Av!Places
    BY <2>1, TakenIs, ClientRooms
  <2> QED BY <2>1, <2>2, TakenIs DEF AvTypes
<1>11. CASE Av!StatusHandler
  <2>1. /\ Av!Ready("player_status") /\ Av!Taken("player_status")
        /\ playerStatus' = (Head(events["player_status"]) = "dnd")
        /\ UNCHANGED <<place, group, status, zoneAudio, clientRoom, excused, lost>>
    BY <1>11 DEF Av!StatusHandler, Av!worldsimVars
  <2>2. playerStatus' \in BOOLEAN
    BY <2>1
  <2>3. handling' \in [Av!Subjects -> Rooms \cup {None}] /\ activeZoneRoom' \in Zones \cup {None}
    BY <1>11, StatusIs
  <2> QED BY <2>1, <2>2, <2>3, TakenIs DEF AvTypes
<1>12. CASE Av!StatusEjects
  <2>1. /\ handling["player_status"] # None
        /\ clientRoom' = Av!AfterLeave(handling["player_status"].room)
        /\ handling' = [handling EXCEPT !["player_status"] = None]
        /\ UNCHANGED <<place, group, status, events, playerStatus, activeZoneRoom, zoneAudio, excused, lost>>
    BY <1>12 DEF Av!StatusEjects, Av!worldsimVars
  <2>2. clientRoom' \in Av!Places
    BY <2>1, ClientRooms DEF AvTypes, Rooms
  <2> QED BY <2>1, <2>2, HandlingIs DEF AvTypes
<1>13. CASE Av!OptionsArrive
  BY <1>13 DEF Av!OptionsArrive, Av!worldsimVars, AvTypes
<1>14. CASE Av!Restart
  <2>1. \A s \in Av!Subjects : <<>> \in Seq(Carried(s))
    OBVIOUS
  <2> QED BY <1>14, <2>1 DEF Av!Restart, Av!worldsimVars, AvTypes
<1>15. CASE UNCHANGED Av!vars
  BY <1>15 DEF Av!vars, AvTypes
<1> QED BY <1>1, <1>2, <1>3, <1>4, <1>5, <1>6, <1>7, <1>8, <1>9, <1>10, <1>11, <1>12, <1>13, <1>14, <1>15
        DEF Av!Next

LEMMA AvTypesInit == Av!Init => AvTypes
<1>1. \A s \in Av!Subjects : <<>> \in Seq(Carried(s))
  OBVIOUS
<1> QED BY <1>1 DEF Av!Init, AvTypes, Av!Places

LEMMA AvTypesHold == Av!Spec => []AvTypes
BY AvTypesInit, AvTypesKept, PTL DEF Av!Spec

\* The events of a step are handled before the next, and a visit of a zone is
\* not over before the circles are computed.
Prompt == "delay" \notin AvFaults /\ "brief" \notin AvFaults

LEMMA OneEvent ==
  ASSUME NEW x, NEW y
  PROVE  /\ <<x>> # <<>> /\ Append(<<>>, x) = <<x>> /\ Head(<<x>>) = x /\ Tail(<<x>>) = <<>>
         /\ <<x>> = <<y>> => x = y
OBVIOUS

LEMMA HandledIs ==
  ASSUME Av!Handled
  PROVE  /\ events["zone.enter"] = <<>> /\ events["zone.exit"] = <<>> /\ events["proximity.join"] = <<>>
         /\ events["proximity.leave"] = <<>> /\ events["player_status"] = <<>>
         /\ handling["zone.enter"] = None /\ handling["zone.exit"] = None /\ handling["player_status"] = None
         /\ ~ZoneNews /\ ~GroupNews /\ ~StatusNews /\ ~Entering
BY SubjectsAre DEF Av!Handled, ZoneNews, GroupNews, StatusNews, Entering

\* The rooms have names of their own.
LEMMA RoomsApart ==
  /\ \A z \in Zones : z \notin Groups /\ z # None
  /\ \A g \in Groups : g \notin Zones /\ g # None
BY AvAssumption

LEMMA WalkKeeps ==
  ASSUME AvInv, Prompt, NEW p \in Av!Places, Av!Walk(p)
  PROVE  OneStep' /\ Excuses' /\ RightRoom'
<1>1. Av!Handled
  BY DEF Av!Walk, Av!Due, Prompt
<1>2. /\ place' = p /\ p # place /\ excused' = (status \/ ~zoneAudio \/ (excused /\ p \notin Zones))
      /\ UNCHANGED <<group, status, handling, playerStatus, zoneAudio, clientRoom, lost>>
      /\ ~(place \in Zones /\ group # None /\ ~status)
  BY DEF Av!Walk, Av!extVars, Av!Brief, Prompt
<1>3. /\ events'["zone.enter"] = IF p \in Zones THEN <<p>> ELSE <<>>
      /\ events'["zone.exit"] = IF place \in Zones THEN <<place>> ELSE <<>>
      /\ events'["proximity.join"] = <<>> /\ events'["proximity.leave"] = <<>>
      /\ events'["player_status"] = <<>>
  BY <1>1, HandledIs, OneEvent, WalkSends DEF AvInv
<1>4. OneStep'
  BY <1>1, <1>2, <1>3, HandledIs, OneEvent DEF OneStep, ZoneNews, GroupNews, StatusNews
<1>5. Excuses'
  BY <1>1, <1>2, <1>3, HandledIs, OneEvent DEF AvInv, Excuses, Entering
<1>6. RightRoom'
  <2> SUFFICES ASSUME ~lost PROVE RightRoom'
    BY <1>2 DEF RightRoom
  <2>1. /\ clientRoom \in Zones => zoneAudio /\ clientRoom = place
        /\ clientRoom \in Groups => clientRoom = group
        /\ ~excused /\ ~status => clientRoom = IF place \in Zones THEN place ELSE group
    BY <1>1, HandledIs, OneEvent DEF AvInv, RightRoom, Leaving
  <2>2. clientRoom \in Zones => zoneAudio /\ events'["zone.exit"] = <<clientRoom>>
    BY <2>1, <1>3
  <2>3. ASSUME ~excused', ~status
        PROVE  IF p \in Zones THEN Entering' ELSE clientRoom = group \/ (group = None /\ Leaving')
    <3>1. CASE p \in Zones
      BY <3>1, <1>3, OneEvent DEF Entering
    <3>2. CASE p \notin Zones /\ place \in Zones
      <4>1. ~excused /\ group = None /\ clientRoom = place
        BY <1>2, <2>1, <2>3, <3>2
      <4>2. Leaving'
        BY <1>2, <1>3, <3>2, <4>1 DEF Leaving
      <4> QED BY <3>2, <4>1, <4>2
    <3>3. CASE p \notin Zones /\ place \notin Zones
      BY <1>2, <2>1, <2>3, <3>3
    <3> QED BY <3>1, <3>2, <3>3
  <2> QED BY <1>2, <2>1, <2>2, <2>3 DEF RightRoom
<1> QED BY <1>4, <1>5, <1>6

LEMMA ClusterKeeps ==
  ASSUME AvInv, Prompt, Av!Cluster
  PROVE  OneStep' /\ Excuses' /\ RightRoom'
<1>1. Av!Handled
  BY DEF Av!Cluster, Av!Due, Prompt
<1>2. /\ ~status /\ excused' = (excused /\ place \in Zones)
      /\ UNCHANGED <<place, status, handling, playerStatus, zoneAudio, clientRoom, lost>>
  BY DEF Av!Cluster, Av!extVars
<1>3. /\ group' = IF place \in Groups THEN place ELSE None
      /\ group' # group
      /\ events'["proximity.join"] = IF place \in Groups THEN <<place>> ELSE <<>>
      /\ events'["proximity.leave"] = IF group \in Groups THEN <<group>> ELSE <<>>
      /\ events'["zone.enter"] = <<>> /\ events'["zone.exit"] = <<>>
      /\ events'["player_status"] = <<>>
  BY <1>1, HandledIs, OneEvent, ClusterSends DEF AvInv
<1>4. OneStep'
  BY <1>1, <1>2, <1>3, HandledIs, OneEvent DEF OneStep, ZoneNews, GroupNews, StatusNews
<1>5. Excuses'
  BY <1>1, <1>2, <1>3, HandledIs, OneEvent DEF AvInv, Excuses, Entering
<1>6. RightRoom'
  <2> SUFFICES ASSUME ~lost PROVE RightRoom'
    BY <1>2 DEF RightRoom
  <2>1. /\ clientRoom \in Zones => zoneAudio /\ clientRoom = place
        /\ clientRoom \in Groups => clientRoom = group
        /\ ~excused => clientRoom = IF place \in Zones THEN place ELSE group
    BY <1>1, <1>2, HandledIs, OneEvent DEF AvInv, RightRoom, Leaving
  <2>2. clientRoom \in Groups => events'["proximity.leave"] = <<clientRoom>>
    BY <2>1, <1>3
  <2>3. clientRoom \in Zones \/ clientRoom \in Groups \/ clientRoom = None
    BY DEF AvInv, AvTypes, Av!Places
  <2>4. ASSUME ~excused', place \notin Zones
        PROVE  clientRoom = group' \/ events'["proximity.join"] # <<>> \/ (group' = None /\ Leaving')
    <3>1. CASE place \in Groups
      BY <1>3, <3>1, OneEvent
    <3>2. CASE place \notin Groups /\ clientRoom \in Groups
      BY <1>2, <1>3, <2>2, <3>2 DEF Leaving
    <3>3. CASE place \notin Groups /\ clientRoom \notin Groups
      BY <1>3, <2>1, <2>3, <2>4, <3>3
    <3> QED BY <3>1, <3>2, <3>3
  <2>5. ASSUME ~excused', place \in Zones PROVE clientRoom = place
    BY <1>2, <2>1, <2>5
  <2> QED BY <1>2, <2>1, <2>2, <2>4, <2>5 DEF RightRoom
<1> QED BY <1>4, <1>5, <1>6

LEMMA SetStatusKeeps ==
  ASSUME AvInv, Prompt, Av!SetStatus
  PROVE  OneStep' /\ Excuses' /\ RightRoom'
<1>1. Av!Handled
  BY DEF Av!SetStatus, Av!Due, Prompt
<1>2. /\ excused' = TRUE /\ status' = ~status /\ clientRoom' = IF status' THEN None ELSE clientRoom
      /\ UNCHANGED <<place, group, handling, playerStatus, zoneAudio, lost>>
  BY DEF Av!SetStatus, Av!extVars
<1>3. /\ events'["player_status"] = <<StatusNow'>>
      /\ events'["zone.enter"] = <<>> /\ events'["zone.exit"] = <<>>
      /\ events'["proximity.join"] = <<>> /\ events'["proximity.leave"] = <<>>
  BY <1>1, HandledIs, OneEvent, StatusSends, SubjectsAre DEF AvInv
<1>4. OneStep'
  BY <1>1, <1>2, <1>3, HandledIs, OneEvent DEF OneStep, ZoneNews, GroupNews, StatusNews
<1>5. clientRoom' = None
  BY <1>2 DEF AvInv, AvTypes, Excuses
<1>6. Excuses'
  BY <1>1, <1>2, <1>3, <1>5, HandledIs, OneEvent DEF Excuses, Entering
<1>7. RightRoom'
  BY <1>2, <1>5, RoomsApart DEF RightRoom
<1> QED BY <1>4, <1>6, <1>7

\* Taking the only event of a subscription.
LEMMA EmptiedIs ==
  ASSUME AvTypes, NEW s \in Av!Subjects, Av!Ready(s), Av!Taken(s), NEW x, events[s] = <<x>>
  PROVE  /\ Head(events[s]) = x /\ events'[s] = <<>>
         /\ \A t \in Av!Subjects : t # s => events'[t] = events[t]
BY TakenIs, OneEvent

LEMMA EnterKeeps ==
  ASSUME AvInv, Av!EnterHandler
  PROVE  OneStep' /\ Excuses' /\ RightRoom'
<1>1. /\ Av!Ready("zone.enter") /\ Av!Taken("zone.enter")
      /\ UNCHANGED <<place, group, status, playerStatus, zoneAudio, clientRoom, excused, lost>>
  BY DEF Av!EnterHandler, Av!worldsimVars
<1>2. events["zone.enter"] # <<>> /\ events["zone.enter"] = <<place>>
  BY <1>1 DEF Av!Ready, AvInv, OneStep
<1>3. /\ Head(events["zone.enter"]) = place /\ events'["zone.enter"] = <<>>
      /\ \A t \in Av!Subjects : t # "zone.enter" => events'[t] = events[t]
  BY <1>1, <1>2, EmptiedIs, SubjectsAre DEF AvInv
<1>4. /\ \A t \in Av!Subjects : t # "zone.enter" => handling'[t] = handling[t]
      /\ handling["zone.enter"] = None
      /\ IF ~zoneAudio \/ playerStatus THEN handling' = handling
         ELSE /\ handling'["zone.enter"] # None /\ handling'["zone.enter"].pc = "mint"
              /\ handling'["zone.enter"].room = place
  BY <1>3, EnterIs DEF AvInv
<1>5. ~GroupNews /\ ~StatusNews
  BY <1>2 DEF AvInv, OneStep, ZoneNews
<1>6. OneStep'
  <2>1. /\ ZoneNews' => ~GroupNews' /\ ~StatusNews'
        /\ GroupNews' => ~StatusNews' /\ ~status'
    BY <1>3, <1>4, <1>5, SubjectsAre DEF GroupNews, StatusNews
  <2>2. handling'["zone.enter"] # None => handling'["zone.enter"].room = place'
    BY <1>1, <1>4
  <2> QED BY <1>1, <1>3, <1>4, <2>1, <2>2, SubjectsAre DEF AvInv, OneStep, StatusNow
<1>7. Entering' => ~(~zoneAudio \/ playerStatus)
  BY <1>3, <1>4 DEF Entering
<1>8. ~excused => zoneAudio /\ ~status /\ ~playerStatus
  BY <1>2, <1>5 DEF AvInv, Excuses, Entering, StatusNews
<1>9. Excuses'
  BY <1>1, <1>3, <1>4, <1>5, <1>7, <1>8, SubjectsAre DEF AvInv, Excuses, StatusNews
<1>10. RightRoom'
  <2>1. ~excused => Entering'
    BY <1>4, <1>8 DEF Entering
  <2>2. Leaving' <=> Leaving
    BY <1>1, <1>3, SubjectsAre DEF Leaving
  <2> QED BY <1>1, <1>3, <2>1, <2>2, SubjectsAre DEF AvInv, RightRoom
<1> QED BY <1>6, <1>9, <1>10

LEMMA AnnounceKeeps ==
  ASSUME AvInv, Av!EnterPublishes
  PROVE  OneStep' /\ Excuses' /\ RightRoom'
<1>1. /\ handling["zone.enter"] # None
      /\ clientRoom' = (IF status THEN clientRoom ELSE handling["zone.enter"].room) /\ lost' = ~zoneAudio
      /\ UNCHANGED <<place, group, status, events, playerStatus, zoneAudio, excused>>
  BY DEF Av!EnterPublishes, Av!worldsimVars, Av!AfterJoin
<1>2. /\ handling["zone.enter"] \in Rooms /\ handling["zone.enter"].pc = "mint"
      /\ handling'["zone.enter"] \in Rooms /\ handling'["zone.enter"].pc = "record"
      /\ handling'["zone.enter"].room = handling["zone.enter"].room
      /\ \A s \in Av!Subjects : s # "zone.enter" => handling'[s] = handling[s]
  BY RecordingIs DEF AvInv
<1>3. handling["zone.enter"].room = place /\ ~GroupNews /\ ~StatusNews /\ place \in Zones
  BY <1>1, <1>2 DEF AvInv, OneStep, ZoneNews, Rooms
<1>4. OneStep'
  <2>1. /\ ZoneNews' => ~GroupNews' /\ ~StatusNews'
        /\ GroupNews' => ~StatusNews' /\ ~status'
    BY <1>1, <1>2, <1>3, SubjectsAre DEF GroupNews, StatusNews
  <2> QED BY <1>1, <1>2, <1>3, <2>1, SubjectsAre DEF AvInv, OneStep, StatusNow
<1>5. Excuses'
  <2>1. Entering' => Entering
    BY <1>1, <1>2 DEF Entering
  <2>2. status => clientRoom' = None
    BY <1>1 DEF AvInv, Excuses
  <2> QED BY <1>1, <2>1, <2>2 DEF AvInv, Excuses
<1>6. RightRoom'
  <2>1. CASE status
    BY <1>1, <2>1, RoomsApart DEF AvInv, Excuses, RightRoom
  <2>2. CASE ~status
    BY <1>1, <1>3, <2>2, RoomsApart DEF RightRoom
  <2> QED BY <2>1, <2>2 DEF AvInv, AvTypes
<1> QED BY <1>4, <1>5, <1>6

LEMMA RecordKeeps ==
  ASSUME AvInv, Av!EnterRecords \/ Av!ExitRecords
  PROVE  OneStep' /\ Excuses' /\ RightRoom'
<1>1. /\ UNCHANGED <<place, group, status, events, playerStatus, zoneAudio, clientRoom, excused, lost>>
      /\ \/ handling["zone.enter"] # None /\ handling["zone.enter"].pc = "record" /\ handling' = [handling EXCEPT !["zone.enter"] = None]
         \/ handling["zone.exit"] # None /\ handling' = [handling EXCEPT !["zone.exit"] = None]
  BY DEF Av!EnterRecords, Av!ExitRecords, Av!worldsimVars
<1>2. /\ handling'["zone.enter"] = None \/ handling'["zone.enter"] = handling["zone.enter"]
      /\ handling'["zone.exit"] = None \/ handling'["zone.exit"] = handling["zone.exit"]
      /\ \A s \in Av!Subjects : s \notin {"zone.enter", "zone.exit"} => handling'[s] = handling[s]
  BY <1>1, HandlingIs, SubjectsAre DEF AvInv
<1>3. ZoneNews
  BY <1>1 DEF ZoneNews
<1>4. GroupNews' = GroupNews /\ StatusNews' = StatusNews /\ Leaving' = Leaving
  BY <1>1, <1>2, SubjectsAre DEF GroupNews, StatusNews, Leaving
<1>5. Entering' <=> Entering
  <2>1. CASE handling'["zone.enter"] = handling["zone.enter"]
    BY <1>1, <2>1 DEF Entering
  <2>2. CASE handling'["zone.enter"] # handling["zone.enter"]
    <3>1. handling["zone.enter"] # None /\ handling["zone.enter"].pc = "record" /\ handling'["zone.enter"] = None
      BY <1>1, <1>2, <2>2, HandlingIs, SubjectsAre DEF AvInv
    <3> QED BY <1>1, <3>1 DEF Entering
  <2> QED BY <2>1, <2>2
<1>6. OneStep'
  BY <1>1, <1>2, <1>3, <1>4, SubjectsAre DEF AvInv, OneStep, StatusNow
<1>7. Excuses' /\ RightRoom'
  BY <1>1, <1>4, <1>5 DEF AvInv, Excuses, RightRoom
<1> QED BY <1>6, <1>7

LEMMA ExitKeeps ==
  ASSUME AvInv, Av!ExitHandler
  PROVE  OneStep' /\ Excuses' /\ RightRoom'
<1>1. /\ Av!Ready("zone.exit") /\ Av!Taken("zone.exit")
      /\ UNCHANGED <<place, group, status, playerStatus, zoneAudio, excused, lost>>
  BY DEF Av!ExitHandler, Av!worldsimVars
<1>2. PICK z \in Zones \ {place} : events["zone.exit"] = <<z>>
  BY <1>1 DEF Av!Ready, AvInv, OneStep
<1>3. /\ Head(events["zone.exit"]) = z /\ events'["zone.exit"] = <<>>
      /\ \A t \in Av!Subjects : t # "zone.exit" => events'[t] = events[t]
  BY <1>1, <1>2, EmptiedIs, SubjectsAre DEF AvInv
<1>4. /\ \A x \in Av!Subjects : x # "zone.exit" => handling'[x] = handling[x]
      /\ clientRoom' = IF zoneAudio /\ clientRoom = z THEN None ELSE clientRoom
  BY <1>3, ExitIs DEF AvInv, Av!AfterLeave
<1>5. ~GroupNews /\ ~StatusNews
  BY <1>2, OneEvent DEF AvInv, OneStep, ZoneNews
<1>6. OneStep'
  <2>1. /\ ZoneNews' => ~GroupNews' /\ ~StatusNews'
        /\ GroupNews' => ~StatusNews' /\ ~status'
    BY <1>3, <1>4, <1>5, SubjectsAre DEF GroupNews, StatusNews
  <2> QED BY <1>1, <1>3, <1>4, <2>1, SubjectsAre DEF AvInv, OneStep, StatusNow
<1>7. Entering' <=> Entering
  BY <1>3, <1>4, SubjectsAre DEF Entering
<1>8. Excuses'
  BY <1>1, <1>3, <1>4, <1>7, SubjectsAre DEF AvInv, Excuses
<1>9. RightRoom'
  <2> SUFFICES ASSUME ~lost PROVE RightRoom'
    BY <1>1 DEF RightRoom
  <2>1. events["proximity.leave"] = <<>> /\ events["proximity.join"] = <<>>
        /\ events'["proximity.leave"] = <<>> /\ events'["proximity.join"] = <<>>
    BY <1>3, <1>5, SubjectsAre DEF GroupNews
  <2>2. /\ clientRoom \in Zones => zoneAudio /\ (clientRoom = place \/ clientRoom = z)
        /\ clientRoom \in Groups => clientRoom = group
        /\ ~excused /\ ~status =>
             IF place \in Zones THEN clientRoom = place \/ Entering
             ELSE clientRoom = group \/ (group = None /\ clientRoom = z)
    BY <1>2, <2>1, OneEvent DEF AvInv, RightRoom, Leaving
  <2>3. /\ clientRoom' \in Zones => zoneAudio /\ clientRoom' = place
        /\ clientRoom' \in Groups => clientRoom' = group
    BY <1>4, <2>2, RoomsApart
  <2>4. group \notin Zones
    BY RoomsApart, AvAssumption DEF AvInv, AvTypes
  <2>5. ASSUME ~excused, ~status
        PROVE  IF place \in Zones THEN clientRoom' = place \/ Entering ELSE clientRoom' = group
    <3>1. CASE place \in Zones
      BY <1>2, <1>4, <2>2, <2>5, <3>1
    <3>2. CASE place \notin Zones
      BY <1>2, <1>4, <2>2, <2>4, <2>5, <3>2
    <3> QED BY <3>1, <3>2
  <2> QED BY <1>1, <1>7, <2>3, <2>5 DEF RightRoom
<1> QED BY <1>6, <1>8, <1>9

LEMMA JoinKeeps ==
  ASSUME AvInv, Av!JoinHandler
  PROVE  OneStep' /\ Excuses' /\ RightRoom'
<1>1. /\ Av!Ready("proximity.join") /\ Av!Taken("proximity.join")
      /\ clientRoom' = (IF status THEN clientRoom ELSE Head(events["proximity.join"])) /\ lost' = FALSE
      /\ UNCHANGED <<place, group, status, handling, playerStatus, zoneAudio, excused>>
  BY DEF Av!JoinHandler, Av!worldsimVars, Av!extVars, Av!AfterJoin
<1>2. events["proximity.join"] = <<group>> /\ place = group /\ events["proximity.join"] # <<>>
  BY <1>1 DEF Av!Ready, AvInv, OneStep
<1>3. /\ Head(events["proximity.join"]) = group /\ events'["proximity.join"] = <<>>
      /\ \A t \in Av!Subjects : t # "proximity.join" => events'[t] = events[t]
  BY <1>1, <1>2, EmptiedIs, SubjectsAre DEF AvInv
<1>4. ~ZoneNews /\ ~StatusNews /\ ~status
  BY <1>2 DEF AvInv, OneStep, GroupNews
<1>5. group \in Groups
  BY <1>1, <1>3, TakenIs, SubjectsAre DEF AvInv
<1>6. ZoneNews' = ZoneNews /\ StatusNews' = StatusNews /\ (Entering' <=> Entering)
  BY <1>1, <1>3, SubjectsAre DEF ZoneNews, StatusNews, Entering
<1>7. OneStep'
  BY <1>1, <1>3, <1>4, <1>6, SubjectsAre DEF AvInv, OneStep, StatusNow
<1>8. Excuses'
  BY <1>1, <1>3, <1>4, <1>6, SubjectsAre DEF AvInv, Excuses
<1>9. clientRoom' = group
  BY <1>1, <1>3, <1>4
<1>10. RightRoom'
  BY <1>1, <1>2, <1>5, <1>9, RoomsApart DEF RightRoom
<1> QED BY <1>7, <1>8, <1>10

LEMMA LeaveKeeps ==
  ASSUME AvInv, Av!LeaveHandler
  PROVE  OneStep' /\ Excuses' /\ RightRoom'
<1>1. /\ Av!Ready("proximity.leave") /\ Av!Taken("proximity.leave")
      /\ clientRoom' = Av!AfterLeave(Head(events["proximity.leave"]))
      /\ UNCHANGED <<place, group, status, handling, playerStatus, zoneAudio, excused, lost>>
  BY DEF Av!LeaveHandler, Av!worldsimVars, Av!extVars
<1>2. PICK g \in Groups \ {group} : events["proximity.leave"] = <<g>>
  BY <1>1 DEF Av!Ready, AvInv, OneStep
<1>3. /\ Head(events["proximity.leave"]) = g /\ events'["proximity.leave"] = <<>>
      /\ \A t \in Av!Subjects : t # "proximity.leave" => events'[t] = events[t]
  BY <1>1, <1>2, EmptiedIs, SubjectsAre DEF AvInv
<1>4. ~ZoneNews /\ ~StatusNews /\ ~status
  BY <1>2, OneEvent DEF AvInv, OneStep, GroupNews
<1>5. ZoneNews' = ZoneNews /\ StatusNews' = StatusNews /\ (Entering' <=> Entering)
  BY <1>1, <1>3, SubjectsAre DEF ZoneNews, StatusNews, Entering
<1>6. clientRoom' = IF clientRoom = g THEN None ELSE clientRoom
  BY <1>1, <1>3 DEF Av!AfterLeave
<1>7. OneStep'
  BY <1>1, <1>3, <1>4, <1>5, SubjectsAre DEF AvInv, OneStep, StatusNow
<1>8. Excuses'
  BY <1>1, <1>3, <1>4, <1>5, <1>6, SubjectsAre DEF AvInv, Excuses
<1>9. RightRoom'
  <2> SUFFICES ASSUME ~lost PROVE RightRoom'
    BY <1>1 DEF RightRoom
  <2>1. events["zone.exit"] = <<>> /\ events'["zone.exit"] = <<>> /\ ~Entering
    BY <1>3, <1>4, SubjectsAre DEF ZoneNews, Entering
  <2>2. /\ clientRoom \in Zones => zoneAudio /\ clientRoom = place
        /\ clientRoom \in Groups => clientRoom = group \/ clientRoom = g
        /\ ~excused =>
             IF place \in Zones THEN clientRoom = place
             ELSE clientRoom = group \/ events["proximity.join"] # <<>> \/ (group = None /\ clientRoom = g)
    BY <1>2, <1>4, <2>1, OneEvent DEF AvInv, RightRoom, Leaving
  <2>3. /\ clientRoom' \in Zones => zoneAudio /\ clientRoom' = place
        /\ clientRoom' \in Groups => clientRoom' = group
    BY <1>6, <2>2, RoomsApart
  <2>4. events'["proximity.join"] = events["proximity.join"]
    BY <1>3, SubjectsAre
  <2>5. ASSUME ~excused
        PROVE  IF place \in Zones THEN clientRoom' = place
               ELSE clientRoom' = group \/ events'["proximity.join"] # <<>>
    <3>1. CASE place \in Zones
      BY <1>2, <1>6, <2>2, <2>5, <3>1, RoomsApart
    <3>2. CASE place \notin Zones
      BY <1>2, <1>6, <2>2, <2>4, <2>5, <3>2
    <3> QED BY <3>1, <3>2
  <2> QED BY <1>1, <2>3, <2>5 DEF RightRoom
<1> QED BY <1>7, <1>8, <1>9

LEMMA StatusKeeps ==
  ASSUME AvInv, Av!StatusHandler
  PROVE  OneStep' /\ Excuses' /\ RightRoom'
<1>1. /\ Av!Ready("player_status") /\ Av!Taken("player_status")
      /\ UNCHANGED <<place, group, status, zoneAudio, clientRoom, excused, lost>>
  BY DEF Av!StatusHandler, Av!worldsimVars
<1>2. events["player_status"] = <<StatusNow>> /\ events["player_status"] # <<>>
  BY <1>1 DEF Av!Ready, AvInv, OneStep
<1>3. /\ Head(events["player_status"]) = StatusNow /\ events'["player_status"] = <<>>
      /\ \A t \in Av!Subjects : t # "player_status" => events'[t] = events[t]
  BY <1>1, <1>2, EmptiedIs, SubjectsAre DEF AvInv
<1>4. /\ \A x \in Av!Subjects : x # "player_status" => handling'[x] = handling[x]
      /\ playerStatus' = (StatusNow = "dnd")
      /\ handling'["player_status"] # None => StatusNow = "dnd"
  BY <1>3, StatusIs DEF AvInv
<1>5. StatusNow = "dnd" <=> status
  BY DEF StatusNow
<1>6. ~ZoneNews /\ ~GroupNews
  BY <1>2 DEF AvInv, OneStep, StatusNews
<1>7. ~ZoneNews' /\ ~GroupNews' /\ (Entering' <=> Entering) /\ (Leaving' <=> Leaving)
  BY <1>1, <1>3, <1>4, <1>6, SubjectsAre DEF ZoneNews, GroupNews, Entering, Leaving
<1>8. OneStep'
  BY <1>1, <1>3, <1>4, <1>5, <1>7, SubjectsAre DEF AvInv, OneStep
<1>9. Excuses'
  BY <1>1, <1>4, <1>5, <1>7 DEF AvInv, Excuses
<1>10. RightRoom'
  BY <1>1, <1>3, <1>7, SubjectsAre DEF AvInv, RightRoom
<1> QED BY <1>8, <1>9, <1>10

\* Who is ejected has disconnected already.
LEMMA EjectKeeps ==
  ASSUME AvInv, Av!StatusEjects
  PROVE  OneStep' /\ Excuses' /\ RightRoom'
<1>1. /\ handling["player_status"] # None
      /\ clientRoom' = Av!AfterLeave(handling["player_status"].room)
      /\ handling' = [handling EXCEPT !["player_status"] = None]
      /\ UNCHANGED <<place, group, status, events, playerStatus, zoneAudio, excused, lost>>
  BY DEF Av!StatusEjects, Av!worldsimVars
<1>2. handling'["player_status"] = None
      /\ \A x \in Av!Subjects : x # "player_status" => handling'[x] = handling[x]
  BY <1>1, HandlingIs, SubjectsAre DEF AvInv
<1>3. status /\ clientRoom = None /\ clientRoom' = None
  BY <1>1 DEF AvInv, OneStep, Excuses, Av!AfterLeave
<1>4. ~ZoneNews /\ ~GroupNews
  BY <1>1 DEF AvInv, OneStep, StatusNews
<1>5. ~ZoneNews' /\ ~GroupNews' /\ (Entering' <=> Entering)
  BY <1>1, <1>2, <1>4, SubjectsAre DEF ZoneNews, GroupNews, Entering
<1>6. OneStep'
  BY <1>1, <1>2, <1>5, SubjectsAre DEF AvInv, OneStep, StatusNow
<1>7. Excuses' /\ RightRoom'
  BY <1>1, <1>3, <1>5, RoomsApart DEF AvInv, Excuses, RightRoom
<1> QED BY <1>6, <1>7

LEMMA FaultKeeps ==
  ASSUME AvInv, Av!OptionsArrive \/ Av!Restart
  PROVE  OneStep' /\ Excuses' /\ RightRoom'
<1>1. CASE Av!OptionsArrive
  <2>1. /\ excused' = TRUE /\ lost' = TRUE
        /\ UNCHANGED <<place, group, status, events, handling, playerStatus, clientRoom>>
    BY <1>1 DEF Av!OptionsArrive, Av!worldsimVars
  <2> QED BY <2>1 DEF AvInv, OneStep, Excuses, RightRoom, ZoneNews, GroupNews, StatusNews, StatusNow
<1>2. CASE Av!Restart
  <2>1. /\ playerStatus' = FALSE /\ excused' = TRUE /\ lost' = TRUE /\ Av!Handled'
        /\ UNCHANGED <<place, group, status, clientRoom>>
    BY <1>2 DEF Av!Restart, Av!worldsimVars, Av!Handled
  <2>2. /\ events'["zone.enter"] = <<>> /\ events'["zone.exit"] = <<>> /\ events'["proximity.join"] = <<>>
        /\ events'["proximity.leave"] = <<>> /\ events'["player_status"] = <<>>
        /\ handling'["zone.enter"] = None /\ handling'["zone.exit"] = None /\ handling'["player_status"] = None
        /\ ~ZoneNews' /\ ~GroupNews' /\ ~StatusNews'
    BY <2>1, SubjectsAre DEF Av!Handled, ZoneNews, GroupNews, StatusNews
  <2> QED BY <2>1, <2>2 DEF AvInv, OneStep, Excuses, RightRoom
<1> QED BY <1>1, <1>2

LEMMA AvInvKept == Prompt /\ AvInv /\ [Av!Next]_(Av!vars) => AvInv'
<1> SUFFICES ASSUME Prompt, AvInv, [Av!Next]_(Av!vars) PROVE OneStep' /\ Excuses' /\ RightRoom'
  BY AvTypesKept DEF AvInv
<1>1. CASE UNCHANGED Av!vars
  BY <1>1 DEF Av!vars, AvInv, OneStep, Excuses, RightRoom, ZoneNews, GroupNews, StatusNews, StatusNow,
              Entering, Leaving
<1> QED BY <1>1, WalkKeeps, ClusterKeeps, SetStatusKeeps, EnterKeeps, AnnounceKeeps, RecordKeeps, ExitKeeps,
           JoinKeeps, LeaveKeeps, StatusKeeps, EjectKeeps, FaultKeeps DEF Av!Next

LEMMA AvInvInit == Av!Init => AvInv
<1> SUFFICES ASSUME Av!Init PROVE OneStep /\ Excuses /\ RightRoom
  BY AvTypesInit DEF AvInv
<1>1. Av!Handled /\ place = None /\ group = None /\ status = FALSE /\ playerStatus = FALSE /\ clientRoom = None
  BY DEF Av!Init, Av!Handled
<1> QED BY <1>1, HandledIs, RoomsApart DEF OneStep, Excuses, RightRoom

LEMMA AvInvSays == AvInv => RoomFollowsPlayer
<1> SUFFICES ASSUME AvInv, Av!Settled, ~lost
             PROVE  /\ clientRoom \in {None, place}
                    /\ ~excused /\ ~status => clientRoom = place
  BY DEF RoomFollowsPlayer, Av!RoomFollowsPlayer
<1>1. Av!Handled /\ (status \/ group = IF place \in Groups THEN place ELSE None)
  BY DEF Av!Settled
<1>2. /\ clientRoom \in Zones => clientRoom = place
      /\ clientRoom \in Groups => clientRoom = group
      /\ ~excused /\ ~status => clientRoom = IF place \in Zones THEN place ELSE group
  BY <1>1, HandledIs, OneEvent DEF AvInv, RightRoom, Leaving
<1>3. /\ clientRoom \in Zones \/ clientRoom \in Groups \/ clientRoom = None
      /\ place \in Zones \/ place \in Groups \/ place = None
      /\ status => clientRoom = None
  BY DEF AvInv, AvTypes, Excuses, Av!Places
<1> QED BY <1>1, <1>2, <1>3

\* In whatever order ext-av's subscriptions are served, and however often it
\* restarts or its options change, the client ends up in no room but that of
\* the place the player stands in, if each step of the world simulation is
\* handled before the next and zones are not crossed between two clusterings.
THEOREM RoomsFollowPlayers == ASSUME Prompt PROVE Av!Spec => []RoomFollowsPlayer
<1>1. Prompt /\ AvInv /\ [Av!Next]_(Av!vars) => AvInv'
  BY AvInvKept
<1>2. AvInv /\ [Av!Next]_(Av!vars) => AvInv'
  BY <1>1
<1> QED BY AvInvInit, <1>2, AvInvSays, PTL DEF Av!Spec

LEMMA PartsAreSpecs == PartsSpec => Spec /\ Av!Spec
<1>1. PartsInit => Init /\ Av!Init
  BY DEF PartsInit
<1>2. [PartsNext]_all => [Next]_vars
  BY DEF PartsNext, all
<1>3. [PartsNext]_all => [Av!Next]_(Av!vars)
  BY DEF PartsNext, all, avVars, Av!vars
<1> QED BY <1>1, <1>2, <1>3, PTL DEF PartsSpec, Spec, Av!Spec

\* Every variable of Extensions and of ExtAv keeps its type, whatever fails
\* and however late the extensions are; an action waits for nobody but an
\* extension, and only who runs has yet to get ready.
THEOREM TypesAlwaysOK == PartsSpec => []TypesOK
<1>1. DoorTypes /\ AvTypes => TypesOK
  BY AvTypesSay DEF TypesOK, DoorTypes
<1> QED BY <1>1, PartsAreSpecs, DoorTypesHold, AvTypesHold, PTL

\* Both hold of the behaviours that the run explores.
THEOREM PartsAgree ==
  ASSUME Lone, Prompt
  PROVE  PartsSpec => []DoorMatchesWall /\ []RoomFollowsPlayer
BY PartsAreSpecs, DoorsMatchWalls, RoomsFollowPlayers, PTL
=============================================================================
