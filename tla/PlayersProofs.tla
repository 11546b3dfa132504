--------------------------- MODULE PlayersProofs ---------------------------
(***************************************************************************)
(* Theorems about Proximity, Chat and Movement: for every set of players   *)
(* and windows, every number of lines, every map, radius and threshold.    *)
(***************************************************************************)
EXTENDS MCPlayers, Sequences, WellFoundedInduction, TLAPS

-----------------------------------------------------------------------------
(* Numbers and sequences.                                                  *)

LEMMA LeastExists ==
  ASSUME NEW S, S \subseteq Nat, S # {} PROVE \E e \in S : \A f \in S : e <= f
<1>1. \E e \in S : \A f \in S : ~(<<f, e>> \in OpToRel(<, Nat))
  BY NatLessThanWellFounded, WFMin
<1>2. PICK e \in S : \A f \in S : ~(<<f, e>> \in OpToRel(<, Nat))
  BY <1>1
<1>3. \A f \in S : ~(f < e)
  BY <1>2 DEF OpToRel
<1>4. \A f \in S : e <= f
  BY <1>3
<1> QED BY <1>4

LEMMA AppendIs ==
  ASSUME NEW T, NEW q \in Seq(T), NEW x \in T
  PROVE  /\ Append(q, x) \in Seq(T) /\ Len(Append(q, x)) = Len(q) + 1 /\ Len(q) \in Nat
         /\ Append(q, x)[Len(q) + 1] = x
         /\ \A n \in 1..Len(q) : Append(q, x)[n] = q[n]
OBVIOUS

LEMMA TailIs ==
  ASSUME NEW T, NEW q \in Seq(T), q # <<>>
  PROVE  /\ Head(q) \in T /\ Tail(q) \in Seq(T) /\ Len(Tail(q)) = Len(q) - 1
         /\ Len(q) \in Nat /\ Len(q) >= 1 /\ Head(q) = q[1]
         /\ \A n \in 1..(Len(q) - 1) : Tail(q)[n] = q[n + 1]
OBVIOUS

LEMMA EmptyIs ==
  ASSUME NEW T
  PROVE  <<>> \in Seq(T) /\ Len(<<>>) = 0 /\ \A n \in 1..Len(<<>>) : FALSE
OBVIOUS

\* The elements of a sequence that has grown, or shrunk.
LEMMA AppendedHas ==
  ASSUME NEW T, NEW q \in Seq(T), NEW x \in T, NEW n \in 1..Len(Append(q, x))
  PROVE  \/ n = Len(q) + 1 /\ Append(q, x)[n] = x
         \/ n \in 1..Len(q) /\ Append(q, x)[n] = q[n]
BY AppendIs

LEMMA TailHas ==
  ASSUME NEW T, NEW q \in Seq(T), q # <<>>, NEW n \in 1..Len(Tail(q))
  PROVE  n + 1 \in 1..Len(q) /\ n + 1 > 1 /\ Tail(q)[n] = q[n + 1]
BY TailIs

LEMMA HeadOrTail ==
  ASSUME NEW T, NEW q \in Seq(T), q # <<>>, NEW n \in 1..Len(q)
  PROVE  \/ n = 1 /\ q[n] = Head(q)
         \/ n - 1 \in 1..Len(Tail(q)) /\ Tail(q)[n - 1] = q[n]
<1>1. /\ Len(Tail(q)) = Len(q) - 1 /\ Len(q) \in Nat /\ Head(q) = q[1]
      /\ \A k \in 1..(Len(q) - 1) : Tail(q)[k] = q[k + 1]
  BY TailIs
<1>2. n # 1 => n - 1 \in 1..(Len(q) - 1) /\ (n - 1) + 1 = n
  BY <1>1
<1> QED BY <1>1, <1>2

-----------------------------------------------------------------------------
(* Lemmas about circles and group ids.                                     *)

LEMMA CircleHasItsPlayer ==
  ASSUME NEW near, NEW P, NEW e \in P PROVE e \in Circle(near, P, e)
BY DEF Circle

\* Linked players have the same circle.
LEMMA LinkedShareCircle ==
  ASSUME NEW near, NEW P, NEW e \in P, NEW f \in P, Linked(near, e, f)
  PROVE  Circle(near, P, e) = Circle(near, P, f)
<1>1. ASSUME NEW x \in P, NEW y \in P, Linked(near, y, x)
      PROVE  Circle(near, P, x) \subseteq Circle(near, P, y)
  <2> SUFFICES ASSUME NEW g \in Circle(near, P, x), NEW S \in SUBSET P,
                      y \in S, Closed(near, P, S)
               PROVE  g \in S
    BY DEF Circle
  <2>1. x \in S
    BY <1>1 DEF Closed
  <2> QED
    BY <2>1 DEF Circle
<1>2. Linked(near, f, e)
  BY DEF Linked
<1> QED
  BY <1>1, <1>2

LEMMA LeastIsMember ==
  ASSUME NEW S, S \subseteq Nat, S # {} PROVE Least(S) \in S
BY LeastExists DEF Least

\* A circle's group id is the one of a member, or the circle.
LEMMA GroupOfCases ==
  ASSUME NEW ring, ring \subseteq Players, NEW ticks, NEW e
  PROVE  GroupOf(ring, ticks, e) \in {NoGroup, ring} \cup {group[f] : f \in ring}
<1> DEFINE grouped == {f \in ring : group[f] # NoGroup}
<1>1. grouped # {} => Least(grouped) \in ring
  BY LeastIsMember, ProximityAssumption
<1> QED
  BY <1>1 DEF GroupOf

LEMMA TickedType ==
  ASSUME TypeOK, NEW e \in Players
  PROVE  Ticked(e) \in Dirty..proximityStationaryThreshold
BY ProximityAssumption DEF TypeOK, Ticked, Dirty

LEMMA ClusteredType ==
  ASSUME TypeOK, NEW near, NEW av, NEW ticks
  PROVE  /\ Clustered(near, av, ticks) \in [Players -> SUBSET Players]
         /\ \A e, f \in Players : Clustered(near, av, ticks)[e] # {f}
<1> SUFFICES ASSUME NEW e \in Players, e \in Candidates(av)
             PROVE  /\ Assigned(near, av, ticks, e) \in SUBSET Players
                    /\ \A f \in Players : Assigned(near, av, ticks, e) # {f}
  BY DEF Clustered, TypeOK, NoGroup
<1> DEFINE ring == Circle(near, Candidates(av), e)
<1>1. ring \subseteq Players
  BY DEF Circle, Candidates
<1>2. GroupOf(ring, ticks, e) \in {NoGroup, ring} \cup {group[f] : f \in ring}
  BY <1>1, GroupOfCases
<1>3. e \in ring
  BY CircleHasItsPlayer
<1>4. GroupOf(ring, ticks, e) = ring => ring = NoGroup \/ \A f \in Players : ring # {f}
  <2> SUFFICES ASSUME GroupOf(ring, ticks, e) = ring, NEW f \in Players, ring = {f} PROVE FALSE
    OBVIOUS
  <2>1. ring = {e}
    BY <1>3
  <2>2. GroupOf(ring, ticks, e) = NoGroup
    BY <2>1 DEF GroupOf
  <2> QED BY <2>1, <2>2 DEF NoGroup
<1> HIDE DEF ring
<1>5. Assigned(near, av, ticks, e) \in {NoGroup, GroupOf(ring, ticks, e)}
  BY DEF Assigned, ring
<1>6. \A f \in Players : NoGroup # {f}
  BY DEF NoGroup
<1>7. \A d \in ring, f \in Players : group[d] # {f} /\ group[d] \in SUBSET Players
  BY <1>1 DEF TypeOK
<1> QED
  BY <1>1, <1>2, <1>4, <1>5, <1>6, <1>7 DEF NoGroup

-----------------------------------------------------------------------------
\* Every variable keeps its type, and no room has the name of one player.
THEOREM TypeCorrect == Spec => []TypeOK
<1>1. Init => TypeOK
  BY ProximityAssumption DEF Init, TypeOK, NoGroup, Dirty
<1>2. TypeOK /\ [Next]_vars => TypeOK'
  <2> SUFFICES ASSUME TypeOK, [Next]_vars PROVE TypeOK'
    OBVIOUS
  <2>1. ASSUME NEW clustering \in BOOLEAN, Tick(clustering) PROVE TypeOK'
    <3>1. stationary' \in [Players -> Dirty..proximityStationaryThreshold]
      BY <2>1, TickedType DEF Tick
    <3>2. nearby' \in [Players -> SUBSET Players] /\ inAvZone' \subseteq Players
      BY <2>1 DEF Tick, ZonesAround, AvZones
    <3>3. group' \in [Players -> SUBSET Players] /\ \A e, f \in Players : group'[e] # {f}
      BY <2>1, ClusteredType DEF Tick, TypeOK
    <3> QED
      BY <2>1, <3>1, <3>2, <3>3 DEF Tick, TypeOK
  <2>2. ASSUME NEW e \in Players, Disconnect(e) PROVE TypeOK'
    BY <2>2, ProximityAssumption DEF Disconnect, TypeOK, NoGroup, Dirty
  <2>3. ASSUME NEW e \in Players, SetStatus(e) PROVE TypeOK'
    BY <2>3 DEF SetStatus, TypeOK
  <2>4. ASSUME NEW e \in Players, NEW q \in Places, Move(e, q) PROVE TypeOK'
    BY <2>4, ProximityAssumption DEF Move, TypeOK, Dirty
  <2>5. ASSUME NEW e \in Players, NEW q \in Places, Transition(e, q) PROVE TypeOK'
    BY <2>5, ProximityAssumption DEF Transition, TypeOK, Dirty
  <2>6. ASSUME NEW e \in Players, NEW q \in Places, Connect(e, q) PROVE TypeOK'
    BY <2>6 DEF Connect, TypeOK
  <2>7. CASE UNCHANGED vars
    BY <2>7 DEF vars, TypeOK
  <2> QED
    BY <2>1, <2>2, <2>3, <2>4, <2>5, <2>6, <2>7 DEF Next
<1> QED
  BY <1>1, <1>2, PTL DEF Spec

-----------------------------------------------------------------------------
\* A clustering never leaves linked players in different rooms.
THEOREM CirclesAlwaysAgree == Spec => CirclesAgree
<1>1. ASSUME Tick(TRUE) PROVE ~Discordant(nearby', inAvZone', group')
  <2> DEFINE P == Candidates(inAvZone')
  <2> SUFFICES ASSUME NEW e \in P, NEW f \in P, Linked(nearby', e, f),
                      group'[e] # NoGroup, group'[f] # NoGroup
               PROVE  group'[e] = group'[f]
    BY DEF Discordant
  <2>1. Circle(nearby', P, e) = Circle(nearby', P, f)
    BY LinkedShareCircle
  <2> DEFINE ring == Circle(nearby', P, e)
  <2>2. ring # {e} /\ ring # {f}
    BY <2>1, CircleHasItsPlayer DEF Linked
  <2>3. GroupOf(ring, stationary', e) = GroupOf(ring, stationary', f)
    BY <2>2 DEF GroupOf
  <2>4. ASSUME NEW x \in P, group'[x] # NoGroup
        PROVE  group'[x] = GroupOf(Circle(nearby', P, x), stationary', x)
    <3>1. x \in Players
      BY DEF Candidates
    <3>2. group'[x] = Assigned(nearby', inAvZone', stationary', x)
      BY <1>1, <3>1 DEF Tick, Clustered
    <3> QED
      BY <2>4, <3>2 DEF Assigned
  <2> QED
    BY <2>1, <2>3, <2>4
<1>2. [Next]_vars => [Discordant(nearby', inAvZone', group') => ~Tick(TRUE)]_vars
  BY <1>1
<1> QED
  BY <1>2, PTL DEF Spec, CirclesAgree

-----------------------------------------------------------------------------
\* Steps that change group: a clustering and a disconnect.
LEMMA WhoChangesGroups ==
  ASSUME TypeOK, [Next]_vars, NEW e \in Players, group'[e] # group[e]
  PROVE  Tick(TRUE) \/ (place'[e] = None /\ group'[e] = NoGroup)
<1>1. ASSUME NEW clustering \in BOOLEAN, Tick(clustering) PROVE Tick(TRUE)
  BY <1>1 DEF Tick
<1>2. ASSUME NEW x \in Players, Disconnect(x) PROVE place'[e] = None /\ group'[e] = NoGroup
  BY <1>2 DEF Disconnect, TypeOK
<1>3. CASE UNCHANGED vars
  BY <1>3 DEF vars
<1> QED
  BY <1>1, <1>2, <1>3 DEF Next, SetStatus, Move, Transition, Connect

\* A player in a room keeps it while the circle brings no other room.
THEOREM RoomsAreAlwaysStable == Spec => RoomsAreStable
<1>1. ASSUME TypeOK, [Next]_vars, NEW e \in Candidates(inAvZone'),
             place'[e] # None, group[e] # NoGroup, group'[e] # group[e],
             Circle(nearby', Candidates(inAvZone'), e) # {e}
      PROVE  \E f \in Circle(nearby', Candidates(inAvZone'), e) : group[f] \notin {NoGroup, group[e]}
  <2> DEFINE ring == Circle(nearby', Candidates(inAvZone'), e)
             grouped == {f \in ring : group[f] # NoGroup}
  <2>1. e \in Players
    BY <1>1 DEF Candidates
  <2>2. Tick(TRUE)
    BY <1>1, <2>1, WhoChangesGroups
  <2>3. group'[e] = Assigned(nearby', inAvZone', stationary', e)
    BY <2>1, <2>2 DEF Tick, Clustered
  <2>4. group'[e] = GroupOf(ring, stationary', e)
    BY <1>1, <2>3 DEF Assigned
  <2>5. e \in grouped
    BY <1>1, CircleHasItsPlayer
  <2>6. Least(grouped) \in grouped
    <3>1. grouped \subseteq Nat
      BY ProximityAssumption DEF Circle, Candidates
    <3> QED
      BY <2>5, <3>1, LeastIsMember
  <2>7. group'[e] = group[Least(grouped)]
    BY <1>1, <2>4, <2>5 DEF GroupOf
  <2> QED
    BY <1>1, <2>6, <2>7
<1>2. TypeOK /\ [Next]_vars =>
        [\A e \in Candidates(inAvZone') :
           place'[e] # None /\ group[e] # NoGroup /\ group'[e] # group[e] =>
             LET ring == Circle(nearby', Candidates(inAvZone'), e) IN
             ring = {e} \/ \E f \in ring : group[f] \notin {NoGroup, group[e]}]_vars
  BY <1>1
<1> QED
  BY <1>2, TypeCorrect, PTL DEF Spec, RoomsAreStable

-----------------------------------------------------------------------------
(* Chat.                                                                   *)

\* Lines, by the handler and the channel they take; work on one; requests.
Lines == [id : Nat, channel : {"global", "proximity", "ping"}, by : C!Handlers]
Sendings == [line : Lines, to : SUBSET Windows]
Requests(h) ==
  [who : Windows, channel : IF h = "client.ping" THEN {"ping"} ELSE {"global", "proximity"}]

\* The types of Chat, with a place left for every request among the lines.
ChatTypes ==
  /\ window \in [Windows -> {"new", "waiting", "in", "closed"}]
  /\ player \in [Windows -> C!Mood \cup {None}]
  /\ DOMAIN asked = C!Handlers /\ \A h \in C!Handlers : asked[h] \in Seq(Requests(h))
  /\ sending \in [C!Handlers -> Sendings \cup {None}]
  /\ broadcast \in Seq(Lines) /\ writing \in Sendings \cup {None}
  /\ inbox \in [Windows -> [C!Inboxes -> Seq(Lines)]]
  /\ heard \in [Windows -> Seq(Lines)]
  /\ meant \in Seq(SUBSET Windows) /\ lines = Len(meant)
  /\ lines + Len(asked["client.chat"]) + Len(asked["admin.chat"]) + Len(asked["client.ping"]) <= MaxLines

\* A window that has not connected has shown nothing and is meant by nobody.
Fresh ==
  \A w \in Windows : window[w] = "new" =>
    /\ heard[w] = <<>> /\ \A i \in C!Inboxes : inbox[w][i] = <<>>
    /\ player[w] = None
    /\ \A id \in 1..lines : w \notin meant[id]

\* Lines are numbered as they are handled, and take the route of their kind:
\* global ones that of chat.broadcast, others an inbox of who is meant.
Numbered(line) == line.id \in 1..lines
For(w, line) == Numbered(line) /\ (line.channel # "global" => w \in meant[line.id])
Routes ==
  /\ \A h \in C!Handlers : sending[h] # None =>
       /\ sending[h].line.by = h
       /\ \A w \in sending[h].to : For(w, sending[h].line)
       /\ Numbered(sending[h].line)
  /\ \A n \in 1..Len(broadcast) : broadcast[n].channel = "global" /\ Numbered(broadcast[n])
  /\ writing # None => writing.line.channel = "global" /\ Numbered(writing.line)
  /\ \A w \in Windows, i \in C!Inboxes : \A n \in 1..Len(inbox[w][i]) :
       /\ inbox[w][i][n].channel # "global" /\ For(w, inbox[w][i][n])
       /\ C!InboxOf(inbox[w][i][n].by) = i
  /\ \A w \in Windows : \A n \in 1..Len(heard[w]) : For(w, heard[w][n])

\* Of two lines of one handler and channel, a was handled before b.
Older(a, b) == a.by = b.by /\ a.channel = b.channel => a.id < b.id
Sorted(q) == \A m, n \in 1..Len(q) : m < n => Older(q[m], q[n])
Precede(q, b) == \A n \in 1..Len(q) : Older(q[n], b)
PrecedeAll(q, r) == \A n \in 1..Len(r) : Precede(q, r[n])

\* What a window has shown is older than what is on its way to it, and that is
\* older the further it has come.
Order ==
  /\ Sorted(broadcast)
  /\ \A w \in Windows :
       /\ Sorted(heard[w]) /\ PrecedeAll(heard[w], broadcast)
       /\ \A i \in C!Inboxes : Sorted(inbox[w][i]) /\ PrecedeAll(heard[w], inbox[w][i])
       /\ writing # None /\ w \in writing.to => Precede(heard[w], writing.line)
  /\ writing # None => \A n \in 1..Len(broadcast) : Older(writing.line, broadcast[n])
Behind ==
  \A h \in C!Handlers : sending[h] # None =>
    /\ Precede(broadcast, sending[h].line)
    /\ writing # None => Older(writing.line, sending[h].line)
    /\ \A w \in Windows : sending[h].line.channel = "global" \/ w \in sending[h].to =>
         /\ Precede(heard[w], sending[h].line)
         /\ \A i \in C!Inboxes : Precede(inbox[w][i], sending[h].line)

\* q shows a, and later b.
Before(q, a, b) == \E m, n \in 1..Len(q) : m < n /\ q[m] = a /\ q[n] = b

\* The global lines of any two windows are in one order, and the one that is
\* being copied is the last of them in every window that shows it.
Global == {a \in Lines : a.channel = "global"}
Agree ==
  \A v, w \in Windows : \A a, b \in Global :
    ~(Before(heard[v], a, b) /\ Before(heard[w], b, a))
Latest ==
  writing # None => \A w \in Windows : \A b \in Global : ~Before(heard[w], writing.line, b)

\* A line that is meant for an open window has been shown there, or is on its way.
Shown(w, id) == \E n \in 1..Len(heard[w]) : heard[w][n].id = id
Coming(w, id) ==
  \/ \E h \in C!Handlers : sending[h] # None /\ sending[h].line.id = id
       /\ (sending[h].line.channel = "global" \/ w \in sending[h].to)
  \/ \E n \in 1..Len(broadcast) : broadcast[n].id = id
  \/ writing # None /\ writing.line.id = id /\ w \in writing.to
  \/ \E i \in C!Inboxes : \E n \in 1..Len(inbox[w][i]) : inbox[w][i][n].id = id
Delivered ==
  \A w \in C!sessions : \A id \in 1..lines : w \in meant[id] => Shown(w, id) \/ Coming(w, id)

\* The inductive invariant of chat.
ChatInv == ChatTypes /\ Fresh /\ Routes /\ Order /\ Behind /\ Agree /\ Latest /\ Delivered

-----------------------------------------------------------------------------
(* Queues in order.                                                        *)

LEMMA SortedAppend ==
  ASSUME NEW q \in Seq(Lines), NEW b \in Lines, Sorted(q), Precede(q, b)
  PROVE  Sorted(Append(q, b))
<1> DEFINE a == Append(q, b)
<1>1. /\ Len(a) = Len(q) + 1 /\ Len(q) \in Nat /\ a[Len(q) + 1] = b
      /\ \A n \in 1..Len(q) : a[n] = q[n]
  BY AppendIs
<1> HIDE DEF a
<1>2. ASSUME NEW m \in 1..Len(a), NEW n \in 1..Len(a), m < n PROVE Older(a[m], a[n])
  <2>1. m \in 1..Len(q) /\ a[m] = q[m]
    BY <1>1, <1>2
  <2>2. CASE n = Len(q) + 1
    BY <1>1, <2>1, <2>2 DEF Precede
  <2>3. CASE n # Len(q) + 1
    <3>1. n \in 1..Len(q) /\ a[n] = q[n]
      BY <1>1, <2>3
    <3> QED BY <1>2, <2>1, <3>1 DEF Sorted
  <2> QED BY <2>2, <2>3
<1>3. Sorted(a)
  BY <1>2 DEF Sorted
<1> QED BY <1>3 DEF a

LEMMA PrecedeAppend ==
  ASSUME NEW q \in Seq(Lines), NEW b \in Lines, NEW c, Precede(q, c), Older(b, c)
  PROVE  Precede(Append(q, b), c)
<1>1. ASSUME NEW n \in 1..Len(Append(q, b)) PROVE Older(Append(q, b)[n], c)
  <2>1. CASE Append(q, b)[n] = b
    BY <2>1
  <2>2. CASE n \in 1..Len(q) /\ Append(q, b)[n] = q[n]
    BY <2>2 DEF Precede
  <2> QED BY <2>1, <2>2, AppendedHas
<1> QED BY <1>1 DEF Precede

LEMMA PrecedeAllAppend ==
  ASSUME NEW q \in Seq(Lines), NEW b \in Lines, NEW r, PrecedeAll(q, r),
         \A n \in 1..Len(r) : Older(b, r[n])
  PROVE  PrecedeAll(Append(q, b), r)
BY PrecedeAppend DEF PrecedeAll

LEMMA PrecedeAllAppended ==
  ASSUME NEW q, NEW r \in Seq(Lines), NEW b \in Lines, PrecedeAll(q, r), Precede(q, b)
  PROVE  PrecedeAll(q, Append(r, b))
<1>1. ASSUME NEW n \in 1..Len(Append(r, b)) PROVE Precede(q, Append(r, b)[n])
  <2>1. CASE Append(r, b)[n] = b
    BY <2>1
  <2>2. CASE n \in 1..Len(r) /\ Append(r, b)[n] = r[n]
    BY <2>2 DEF PrecedeAll
  <2> QED BY <2>1, <2>2, AppendedHas
<1> QED BY <1>1 DEF PrecedeAll

LEMMA SortedTail ==
  ASSUME NEW q \in Seq(Lines), q # <<>>, Sorted(q)
  PROVE  /\ Sorted(Tail(q))
         /\ \A n \in 1..Len(Tail(q)) : Older(Head(q), Tail(q)[n])
<1> DEFINE t == Tail(q)
<1>1. \A n \in 1..Len(t) : n + 1 \in 1..Len(q) /\ n + 1 > 1 /\ t[n] = q[n + 1]
  BY TailHas
<1>2. Head(q) = q[1] /\ 1 \in 1..Len(q) /\ Len(t) \in Nat
  BY TailIs
<1> HIDE DEF t
<1>3. \A n \in 1..Len(t) : Older(q[1], t[n])
  BY <1>1, <1>2 DEF Sorted
<1>4. ASSUME NEW m \in 1..Len(t), NEW n \in 1..Len(t), m < n PROVE Older(t[m], t[n])
  <2>1. m + 1 \in 1..Len(q) /\ n + 1 \in 1..Len(q) /\ m + 1 < n + 1
    BY <1>1, <1>2, <1>4
  <2>2. Older(q[m + 1], q[n + 1])
    BY <2>1 DEF Sorted
  <2> QED BY <1>1, <2>2
<1>5. Sorted(t)
  BY <1>4 DEF Sorted
<1> QED BY <1>2, <1>3, <1>5 DEF t

LEMMA PrecedeTail ==
  ASSUME NEW q \in Seq(Lines), q # <<>>, NEW c, Precede(q, c)
  PROVE  Precede(Tail(q), c) /\ Older(Head(q), c)
<1>1. \A n \in 1..Len(Tail(q)) : n + 1 \in 1..Len(q) /\ Tail(q)[n] = q[n + 1]
  BY TailHas
<1>2. Head(q) = q[1] /\ 1 \in 1..Len(q)
  BY TailIs
<1> QED BY <1>1, <1>2 DEF Precede

LEMMA PrecedeAllTail ==
  ASSUME NEW q, NEW r \in Seq(Lines), r # <<>>, PrecedeAll(q, r)
  PROVE  PrecedeAll(q, Tail(r)) /\ Precede(q, Head(r))
<1>1. \A n \in 1..Len(Tail(r)) : n + 1 \in 1..Len(r) /\ Tail(r)[n] = r[n + 1]
  BY TailHas
<1>2. Head(r) = r[1] /\ 1 \in 1..Len(r)
  BY TailIs
<1> QED BY <1>1, <1>2 DEF PrecedeAll

LEMMA EmptySorted ==
  ASSUME NEW q
  PROVE  Sorted(<<>>) /\ Precede(<<>>, q) /\ PrecedeAll(<<>>, q) /\ PrecedeAll(q, <<>>)
<1>1. \A n \in 1..Len(<<>>) : FALSE
  BY EmptyIs
<1> QED BY <1>1 DEF Sorted, Precede, PrecedeAll

LEMMA OtherRoutes ==
  ASSUME NEW a, NEW b, a.by # b.by \/ a.channel # b.channel
  PROVE  Older(a, b)
BY DEF Older

\* One line more is the last.
LEMMA BeforeAppend ==
  ASSUME NEW q \in Seq(Lines), NEW x \in Lines, NEW a, NEW b, Before(Append(q, x), a, b)
  PROVE  Before(q, a, b) \/ (b = x /\ \E m \in 1..Len(q) : q[m] = a)
<1> DEFINE p == Append(q, x)
<1>1. /\ Len(p) = Len(q) + 1 /\ Len(q) \in Nat /\ p[Len(q) + 1] = x
      /\ \A n \in 1..Len(q) : p[n] = q[n]
  BY AppendIs
<1>2. PICK m \in 1..Len(p), n \in 1..Len(p) : m < n /\ p[m] = a /\ p[n] = b
  BY DEF Before
<1> HIDE DEF p
<1>3. m \in 1..Len(q) /\ q[m] = a
  BY <1>1, <1>2
<1>4. CASE n = Len(q) + 1
  BY <1>1, <1>2, <1>3, <1>4
<1>5. CASE n # Len(q) + 1
  <2>1. n \in 1..Len(q) /\ q[n] = b
    BY <1>1, <1>2, <1>5
  <2> QED BY <1>2, <1>3, <2>1 DEF Before
<1> QED BY <1>4, <1>5

LEMMA BeforeShows ==
  ASSUME NEW q, NEW a, NEW b, Before(q, a, b)
  PROVE  (\E n \in 1..Len(q) : q[n] = a) /\ (\E n \in 1..Len(q) : q[n] = b)
BY DEF Before

-----------------------------------------------------------------------------
(* Types.                                                                  *)

LEMMA Kinds ==
  /\ C!Handlers = {"client.chat", "admin.chat", "client.ping"}
  /\ C!Inboxes = {"chat_inbox", "ping_inbox"}
  /\ \A h \in C!Handlers : C!InboxOf(h) \in C!Inboxes
  /\ None \notin Sendings /\ None \notin C!Mood
  /\ C!sessions \subseteq Windows
BY ChatAssumption DEF C!Handlers, C!Inboxes, C!InboxOf, Sendings, Lines, C!sessions

\* One inbox changes.
LEMMA InboxIs ==
  ASSUME inbox \in [Windows -> [C!Inboxes -> Seq(Lines)]],
         NEW w \in Windows, NEW i \in C!Inboxes, NEW q \in Seq(Lines),
         inbox' = [inbox EXCEPT ![w][i] = q]
  PROVE  /\ inbox' \in [Windows -> [C!Inboxes -> Seq(Lines)]]
         /\ \A v \in Windows, j \in C!Inboxes :
              inbox'[v][j] = IF v = w /\ j = i THEN q ELSE inbox[v][j]
<1> DEFINE one == [inbox[w] EXCEPT ![i] = q]
<1>1. one \in [C!Inboxes -> Seq(Lines)] /\ \A j \in C!Inboxes : one[j] = IF j = i THEN q ELSE inbox[w][j]
  OBVIOUS
<1>2. inbox' = [inbox EXCEPT ![w] = one]
  OBVIOUS
<1> HIDE DEF one
<1>3. /\ inbox' \in [Windows -> [C!Inboxes -> Seq(Lines)]]
      /\ \A v \in Windows : inbox'[v] = IF v = w THEN one ELSE inbox[v]
  BY <1>1, <1>2
<1> QED BY <1>1, <1>3

\* One window shows more.
LEMMA HeardIs ==
  ASSUME heard \in [Windows -> Seq(Lines)], NEW w \in Windows, NEW x \in Lines,
         heard' = [heard EXCEPT ![w] = Append(@, x)]
  PROVE  /\ heard' \in [Windows -> Seq(Lines)]
         /\ \A v \in Windows : heard'[v] = IF v = w THEN Append(heard[w], x) ELSE heard[v]
<1>1. Append(heard[w], x) \in Seq(Lines)
  BY AppendIs
<1> QED BY <1>1

\* A handler works on another line, or on none.
LEMMA SendingIs ==
  ASSUME sending \in [C!Handlers -> Sendings \cup {None}], NEW h \in C!Handlers,
         NEW s \in Sendings \cup {None}, sending' = [sending EXCEPT ![h] = s]
  PROVE  /\ sending' \in [C!Handlers -> Sendings \cup {None}]
         /\ \A g \in C!Handlers : sending'[g] = IF g = h THEN s ELSE sending[g]
OBVIOUS

\* A line at work has fewer left to go to.
LEMMA FewerIs ==
  ASSUME NEW s \in Sendings, NEW to \in SUBSET Windows
  PROVE  /\ [s EXCEPT !.to = to] \in Sendings
         /\ [s EXCEPT !.to = to].line = s.line /\ [s EXCEPT !.to = to].to = to
         /\ s.line \in Lines /\ s.to \in SUBSET Windows
BY DEF Sendings

\* A request is added, or served.
LEMMA AskedIs ==
  ASSUME ChatTypes, NEW h \in C!Handlers, NEW q \in Seq(Requests(h)), asked' = [asked EXCEPT ![h] = q]
  PROVE  /\ DOMAIN asked' = C!Handlers
         /\ \A g \in C!Handlers : asked'[g] \in Seq(Requests(g))
         /\ \A g \in C!Handlers : asked'[g] = IF g = h THEN q ELSE asked[g]
<1>1. DOMAIN asked = C!Handlers /\ \A g \in C!Handlers : asked[g] \in Seq(Requests(g))
  BY DEF ChatTypes
<1>2. DOMAIN asked' = C!Handlers /\ \A g \in C!Handlers : asked'[g] = IF g = h THEN q ELSE asked[g]
  BY <1>1
<1> QED BY <1>1, <1>2

LEMMA ChatTypesInit == C!Init => ChatTypes /\ Fresh
<1> SUFFICES ASSUME C!Init PROVE ChatTypes /\ Fresh
  OBVIOUS
<1> USE DEF C!Init
<1>1. <<>> \in Seq(Lines) /\ <<>> \in Seq(SUBSET Windows) /\ Len(<<>>) = 0
      /\ \A h \in C!Handlers : <<>> \in Seq(Requests(h))
  BY EmptyIs
<1>2. lines + Len(asked["client.chat"]) + Len(asked["admin.chat"]) + Len(asked["client.ping"]) <= MaxLines
  BY <1>1, Kinds, ChatAssumption
<1>3. ChatTypes
  BY <1>1, <1>2 DEF ChatTypes
<1>4. Fresh
  <2>1. 1..lines = {}
    OBVIOUS
  <2> QED BY <2>1 DEF Fresh
<1> QED BY <1>3, <1>4

-----------------------------------------------------------------------------
(* What a step does, and that it keeps types.                              *)

\* One request less makes room for a line.
LEMMA OneFewer ==
  ASSUME lines \in Nat, MaxLines \in Nat, NEW k, NEW l,
         k["client.chat"] \in Nat, k["admin.chat"] \in Nat, k["client.ping"] \in Nat,
         lines + k["client.chat"] + k["admin.chat"] + k["client.ping"] <= MaxLines,
         \/ l["client.chat"] = k["client.chat"] - 1 /\ l["admin.chat"] = k["admin.chat"] /\ l["client.ping"] = k["client.ping"]
         \/ l["client.chat"] = k["client.chat"] /\ l["admin.chat"] = k["admin.chat"] - 1 /\ l["client.ping"] = k["client.ping"]
         \/ l["client.chat"] = k["client.chat"] /\ l["admin.chat"] = k["admin.chat"] /\ l["client.ping"] = k["client.ping"] - 1
  PROVE  lines + 1 + l["client.chat"] + l["admin.chat"] + l["client.ping"] <= MaxLines
OBVIOUS

\* A handler is done with its first request.
LEMMA ServedIs ==
  ASSUME ChatTypes, NEW h \in C!Handlers, asked[h] # <<>>, asked' = [asked EXCEPT ![h] = Tail(@)]
  PROVE  /\ DOMAIN asked' = C!Handlers
         /\ \A g \in C!Handlers : asked'[g] \in Seq(Requests(g))
         /\ Head(asked[h]) \in Requests(h)
         /\ lines + 1 + Len(asked'["client.chat"]) + Len(asked'["admin.chat"])
              + Len(asked'["client.ping"]) <= MaxLines
<1> DEFINE q == Tail(asked[h])
<1>1. /\ asked[h] \in Seq(Requests(h)) /\ DOMAIN asked = C!Handlers
      /\ \A g \in C!Handlers : asked[g] \in Seq(Requests(g))
  BY DEF ChatTypes
<1>2. /\ q \in Seq(Requests(h)) /\ Len(q) = Len(asked[h]) - 1 /\ Head(asked[h]) \in Requests(h)
  BY <1>1, TailIs
<1>3. asked' = [asked EXCEPT ![h] = q]
  OBVIOUS
<1> HIDE DEF q
<1>4. /\ DOMAIN asked' = C!Handlers
      /\ \A g \in C!Handlers : asked'[g] \in Seq(Requests(g))
      /\ \A g \in C!Handlers : asked'[g] = IF g = h THEN q ELSE asked[g]
  BY <1>2, <1>3, AskedIs
<1>5. /\ \A g \in C!Handlers : Len(asked[g]) \in Nat
      /\ \A g \in C!Handlers : Len(asked'[g]) = IF g = h THEN Len(asked[g]) - 1 ELSE Len(asked[g])
  <2>1. \A g \in C!Handlers : Len(asked[g]) \in Nat
    BY <1>1
  <2> QED BY <2>1, <1>2, <1>4
<1>6. lines \in Nat
  BY DEF ChatTypes
<1>7. lines + 1 + Len(asked'["client.chat"]) + Len(asked'["admin.chat"])
        + Len(asked'["client.ping"]) <= MaxLines
  <2>1. lines + Len(asked["client.chat"]) + Len(asked["admin.chat"]) + Len(asked["client.ping"]) <= MaxLines
    BY DEF ChatTypes
  <2> DEFINE k == [g \in C!Handlers |-> Len(asked[g])]
             l == [g \in C!Handlers |-> Len(asked'[g])]
  <2>2. /\ \A g \in C!Handlers : k[g] \in Nat /\ l[g] = IF g = h THEN k[g] - 1 ELSE k[g]
        /\ lines + k["client.chat"] + k["admin.chat"] + k["client.ping"] <= MaxLines
    BY <1>5, <2>1, Kinds
  <2>3. l["client.chat"] = Len(asked'["client.chat"]) /\ l["admin.chat"] = Len(asked'["admin.chat"])
        /\ l["client.ping"] = Len(asked'["client.ping"])
    BY Kinds
  <2> HIDE DEF k, l
  <2>4. lines + 1 + l["client.chat"] + l["admin.chat"] + l["client.ping"] <= MaxLines
    <3>1. k["client.chat"] \in Nat /\ k["admin.chat"] \in Nat /\ k["client.ping"] \in Nat
      BY <2>2, Kinds
    <3>2. \/ l["client.chat"] = k["client.chat"] - 1 /\ l["admin.chat"] = k["admin.chat"] /\ l["client.ping"] = k["client.ping"]
          \/ l["client.chat"] = k["client.chat"] /\ l["admin.chat"] = k["admin.chat"] - 1 /\ l["client.ping"] = k["client.ping"]
          \/ l["client.chat"] = k["client.chat"] /\ l["admin.chat"] = k["admin.chat"] /\ l["client.ping"] = k["client.ping"] - 1
      BY <2>2, Kinds
    <3>3. lines + k["client.chat"] + k["admin.chat"] + k["client.ping"] <= MaxLines
      BY <2>2
    <3>4. MaxLines \in Nat
      BY ChatAssumption
    <3> QED BY <1>6, <3>1, <3>2, <3>3, <3>4, OneFewer
  <2> QED BY <2>3, <2>4
<1> QED BY <1>2, <1>4, <1>7

LEMMA AskKeepsTypes ==
  ASSUME ChatTypes, NEW h \in C!Handlers, NEW r \in Requests(h), C!Ask(h, r)
  PROVE  ChatTypes'
<1> DEFINE q == Append(asked[h], r)
<1>1. /\ asked[h] \in Seq(Requests(h)) /\ DOMAIN asked = C!Handlers
      /\ \A g \in C!Handlers : asked[g] \in Seq(Requests(g))
  BY DEF ChatTypes
<1>2. q \in Seq(Requests(h)) /\ Len(q) = Len(asked[h]) + 1
  BY <1>1, AppendIs
<1>3. asked' = [asked EXCEPT ![h] = q]
  BY DEF C!Ask
<1> HIDE DEF q
<1>4. /\ DOMAIN asked' = C!Handlers
      /\ \A g \in C!Handlers : asked'[g] \in Seq(Requests(g))
      /\ \A g \in C!Handlers : asked'[g] = IF g = h THEN q ELSE asked[g]
  BY <1>2, <1>3, AskedIs
<1>5. /\ \A g \in C!Handlers : Len(asked[g]) \in Nat
      /\ \A g \in C!Handlers : Len(asked'[g]) = IF g = h THEN Len(asked[g]) + 1 ELSE Len(asked[g])
  <2>1. \A g \in C!Handlers : Len(asked[g]) \in Nat
    BY <1>1
  <2> QED BY <2>1, <1>2, <1>4
<1>6. lines \in Nat
  BY DEF ChatTypes
<1>7. lines + Len(asked'["client.chat"]) + Len(asked'["admin.chat"]) + Len(asked'["client.ping"]) <= MaxLines
  <2>1. lines + Len(asked["client.chat"]) + Len(asked["admin.chat"]) + Len(asked["client.ping"]) < MaxLines
    BY DEF C!Ask
  <2> DEFINE k == [g \in C!Handlers |-> Len(asked[g])]
             l == [g \in C!Handlers |-> Len(asked'[g])]
  <2>2. /\ \A g \in C!Handlers : k[g] \in Nat /\ l[g] = IF g = h THEN k[g] + 1 ELSE k[g]
        /\ lines + k["client.chat"] + k["admin.chat"] + k["client.ping"] < MaxLines
    BY <1>5, <2>1, Kinds
  <2>3. l["client.chat"] = Len(asked'["client.chat"]) /\ l["admin.chat"] = Len(asked'["admin.chat"])
        /\ l["client.ping"] = Len(asked'["client.ping"])
    BY Kinds
  <2> HIDE DEF k, l
  <2>4. lines + l["client.chat"] + l["admin.chat"] + l["client.ping"] <= MaxLines
    BY <1>6, <2>2, Kinds, ChatAssumption
  <2> QED BY <2>3, <2>4
<1> QED BY <1>4, <1>7 DEF ChatTypes, C!Ask

LEMMA DropKeepsTypes ==
  ASSUME ChatTypes, NEW h \in C!Handlers, asked[h] # <<>>, C!Drop(h)
  PROVE  ChatTypes'
<1>1. asked' = [asked EXCEPT ![h] = Tail(@)]
  BY DEF C!Drop
<1>2. /\ DOMAIN asked' = C!Handlers
      /\ \A g \in C!Handlers : asked'[g] \in Seq(Requests(g))
      /\ lines + 1 + Len(asked'["client.chat"]) + Len(asked'["admin.chat"])
           + Len(asked'["client.ping"]) <= MaxLines
  BY <1>1, ServedIs
<1>3. /\ lines \in Nat /\ \A g \in C!Handlers : Len(asked'[g]) \in Nat
  BY <1>2 DEF ChatTypes
<1>4. lines + Len(asked'["client.chat"]) + Len(asked'["admin.chat"]) + Len(asked'["client.ping"]) <= MaxLines
  BY <1>2, <1>3, Kinds, ChatAssumption
<1> QED BY <1>2, <1>4 DEF ChatTypes, C!Drop

\* The line a handler has decided on.
NewLine(h, channel) == [id |-> lines + 1, channel |-> channel, by |-> h]

LEMMA DecideIs ==
  ASSUME ChatTypes, NEW h \in C!Handlers, NEW channel \in {"global", "proximity", "ping"},
         NEW to \in SUBSET Windows, C!Decide(h, channel, to)
  PROVE  /\ sending' \in [C!Handlers -> Sendings \cup {None}]
         /\ \A g \in C!Handlers : g # h => sending'[g] = sending[g]
         /\ sending'[h] # None /\ sending'[h].to = to /\ sending'[h].line = NewLine(h, channel)
         /\ NewLine(h, channel) \in Lines
         /\ meant' \in Seq(SUBSET Windows) /\ lines' = Len(meant') /\ lines' = lines + 1
         /\ meant'[lines + 1] = to /\ \A id \in 1..lines : meant'[id] = meant[id]
         /\ UNCHANGED <<window, player, broadcast, writing, inbox, heard>>
<1> DEFINE s == [line |-> NewLine(h, channel), to |-> to]
<1>0. lines \in Nat /\ lines = Len(meant) /\ meant \in Seq(SUBSET Windows)
  BY DEF ChatTypes
<1>1. NewLine(h, channel) \in Lines
  BY <1>0 DEF NewLine, Lines
<1>2. s \in Sendings /\ s.line = NewLine(h, channel) /\ s.to = to
  BY <1>1 DEF Sendings
<1>3. sending' = [sending EXCEPT ![h] = s]
  BY DEF C!Decide, NewLine
<1> HIDE DEF s
<1>4. /\ sending' \in [C!Handlers -> Sendings \cup {None}]
      /\ \A g \in C!Handlers : sending'[g] = IF g = h THEN s ELSE sending[g]
  BY <1>2, <1>3, SendingIs DEF ChatTypes
<1>5. sending'[h] # None
  BY <1>2, <1>4, Kinds
<1>6. meant' = Append(meant, to) /\ lines' = lines + 1
      /\ UNCHANGED <<window, player, broadcast, writing, inbox, heard>>
  BY DEF C!Decide
<1>7. /\ meant' \in Seq(SUBSET Windows) /\ lines' = Len(meant')
      /\ meant'[lines + 1] = to /\ \A id \in 1..lines : meant'[id] = meant[id]
  BY <1>0, <1>6, AppendIs
<1> QED BY <1>1, <1>2, <1>4, <1>5, <1>6, <1>7

LEMMA DecideKeepsTypes ==
  ASSUME ChatTypes, NEW h \in C!Handlers, asked[h] # <<>>,
         NEW channel \in {"global", "proximity", "ping"},
         NEW to \in SUBSET Windows, C!Decide(h, channel, to)
  PROVE  ChatTypes'
<1>1. asked' = [asked EXCEPT ![h] = Tail(@)]
  BY DEF C!Decide
<1>2. /\ DOMAIN asked' = C!Handlers
      /\ \A g \in C!Handlers : asked'[g] \in Seq(Requests(g))
      /\ lines + 1 + Len(asked'["client.chat"]) + Len(asked'["admin.chat"])
           + Len(asked'["client.ping"]) <= MaxLines
  BY <1>1, ServedIs
<1>3. /\ sending' \in [C!Handlers -> Sendings \cup {None}]
      /\ meant' \in Seq(SUBSET Windows) /\ lines' = Len(meant') /\ lines' = lines + 1
      /\ UNCHANGED <<window, player, broadcast, writing, inbox, heard>>
  BY DecideIs
<1> QED BY <1>2, <1>3 DEF ChatTypes

\* What a handler does with a request is to drop it or to decide.
LEMMA HandlerActs ==
  ASSUME ChatTypes, Fresh, NEW h \in C!Handlers,
         \/ h \in {"client.chat", "admin.chat"} /\ C!Chat(h)
         \/ h = "client.ping" /\ C!handlePing
  PROVE  /\ asked[h] # <<>> /\ sending[h] = None
         /\ \/ C!Drop(h)
            \/ \E channel \in {"global", "proximity", "ping"}, to \in SUBSET Windows :
                 /\ C!Decide(h, channel, to)
                 /\ \A w \in to : window[w] # "new"
                 /\ channel # "ping" \/ h = "client.ping"
                 /\ channel = "ping" \/ h # "client.ping"
<1>1. C!Ready(h)
  BY DEF C!Chat, C!handlePing
<1>2. asked[h] # <<>> /\ sending[h] = None
  BY <1>1 DEF C!Ready
<1> DEFINE r == Head(asked[h])
<1>3. asked[h] \in Seq(Requests(h))
  BY DEF ChatTypes
<1>4. r \in Requests(h)
  BY <1>2, <1>3, TailIs
<1>5. r.who \in Windows /\ r.channel \in IF h = "client.ping" THEN {"ping"} ELSE {"global", "proximity"}
  BY <1>4 DEF Requests
<1>6. \A w \in Windows : player[w] # None => window[w] # "new"
  BY DEF Fresh
<1>7. CASE h \in {"client.chat", "admin.chat"} /\ C!Chat(h)
  <2>1. CASE player[r.who] = None
    BY <1>7, <2>1, <1>2 DEF C!Chat
  <2>2. CASE player[r.who] # None /\ r.channel = "global"
    <3>1. C!Decide(h, "global", C!sessions)
      BY <1>7, <2>2 DEF C!Chat
    <3>2. C!sessions \in SUBSET Windows /\ \A w \in C!sessions : window[w] # "new"
      BY DEF C!sessions
    <3> QED BY <1>2, <1>7, <3>1, <3>2
  <2>3. CASE player[r.who] # None /\ r.channel = "proximity"
    <3>1. C!Drop(h) \/ C!Decide(h, "proximity", C!Circle(r.who))
      BY <1>7, <2>3 DEF C!Chat
    <3>2. C!Circle(r.who) \in SUBSET Windows /\ \A w \in C!Circle(r.who) : window[w] # "new"
      BY <1>6 DEF C!Circle
    <3> QED BY <1>2, <1>7, <3>1, <3>2
  <2>4. h # "client.ping"
    BY <1>7
  <2> QED BY <1>5, <2>1, <2>2, <2>3, <2>4
<1>8. CASE h = "client.ping" /\ C!handlePing
  <2>1. C!Drop(h) \/ (player[r.who] # None /\ C!Decide(h, "ping", {r.who}))
    BY <1>8 DEF C!handlePing
  <2>2. {r.who} \in SUBSET Windows
    BY <1>5
  <2> QED BY <1>2, <1>5, <1>6, <1>8, <2>1, <2>2
<1> QED BY <1>7, <1>8

LEMMA AtWork ==
  ASSUME ChatTypes
  PROVE  /\ \A h \in C!Handlers : sending[h] # None =>
              sending[h] \in Sendings /\ sending[h].line \in Lines /\ sending[h].to \in SUBSET Windows
         /\ writing # None =>
              writing \in Sendings /\ writing.line \in Lines /\ writing.to \in SUBSET Windows
BY DEF ChatTypes, Sendings

LEMMA BroadcastIs ==
  ASSUME ChatTypes, NEW h \in C!Handlers, C!Broadcast(h)
  PROVE  /\ sending[h] # None /\ sending[h].line \in Lines /\ sending[h].line.channel = "global"
         /\ broadcast' = Append(broadcast, sending[h].line) /\ broadcast' \in Seq(Lines)
         /\ sending' \in [C!Handlers -> Sendings \cup {None}]
         /\ \A g \in C!Handlers : sending'[g] = IF g = h THEN None ELSE sending[g]
         /\ UNCHANGED <<window, player, asked, writing, inbox, heard, lines, meant>>
<1> USE DEF C!Broadcast
<1>1. sending[h] # None /\ sending[h].line \in Lines /\ sending[h].line.channel = "global"
  BY AtWork
<1>2. broadcast' \in Seq(Lines)
  BY <1>1, AppendIs DEF ChatTypes
<1>3. /\ sending' \in [C!Handlers -> Sendings \cup {None}]
      /\ \A g \in C!Handlers : sending'[g] = IF g = h THEN None ELSE sending[g]
  BY SendingIs DEF ChatTypes
<1> QED BY <1>1, <1>2, <1>3

LEMMA SendToIs ==
  ASSUME ChatTypes, NEW h \in C!Handlers, NEW w \in Windows, C!SendTo(h, w)
  PROVE  /\ sending[h] # None /\ sending[h].line \in Lines /\ sending[h].line.channel # "global"
         /\ w \in sending[h].to
         /\ sending' \in [C!Handlers -> Sendings \cup {None}]
         /\ \A g \in C!Handlers : g # h => sending'[g] = sending[g]
         /\ sending[h].to = {w} => sending'[h] = None
         /\ sending[h].to # {w} =>
              /\ sending'[h] # None /\ sending'[h].line = sending[h].line
              /\ sending'[h].to = sending[h].to \ {w}
         /\ inbox' \in [Windows -> [C!Inboxes -> Seq(Lines)]]
         /\ w \notin C!sessions => inbox' = inbox
         /\ w \in C!sessions => \A v \in Windows, j \in C!Inboxes :
              inbox'[v][j] = IF v = w /\ j = C!InboxOf(h)
                             THEN Append(inbox[w][j], sending[h].line) ELSE inbox[v][j]
         /\ UNCHANGED <<window, player, asked, broadcast, writing, heard, lines, meant>>
<1> DEFINE fewer == [line |-> sending[h].line, to |-> sending[h].to \ {w}]
           s == IF sending[h].to = {w} THEN None ELSE fewer
           i == C!InboxOf(h)
           q == Append(inbox[w][i], sending[h].line)
<1>1. /\ sending[h] # None /\ sending[h].line.channel # "global" /\ w \in sending[h].to
      /\ sending' = [sending EXCEPT ![h] = s]
      /\ UNCHANGED <<window, player, asked, broadcast, writing, heard, lines, meant>>
  BY DEF C!SendTo
<1>2. inbox' = IF w \in C!sessions THEN [inbox EXCEPT ![w][i] = q] ELSE inbox
  BY DEF C!SendTo
<1>3. sending[h] \in Sendings /\ sending[h].line \in Lines /\ sending[h].to \in SUBSET Windows
  BY <1>1, AtWork
<1>4. fewer \in Sendings /\ fewer.line = sending[h].line /\ fewer.to = sending[h].to \ {w}
  BY <1>3 DEF Sendings
<1>5. i \in C!Inboxes /\ None \notin Sendings
  BY Kinds
<1>6. q \in Seq(Lines)
  BY <1>3, <1>5, AppendIs DEF ChatTypes
<1> HIDE DEF fewer, i, q
<1>7. /\ sending' \in [C!Handlers -> Sendings \cup {None}]
      /\ \A g \in C!Handlers : sending'[g] = IF g = h THEN s ELSE sending[g]
  BY <1>1, <1>4, SendingIs DEF ChatTypes
<1>8. /\ \A g \in C!Handlers : g # h => sending'[g] = sending[g]
      /\ sending[h].to = {w} => sending'[h] = None
      /\ sending[h].to # {w} =>
           /\ sending'[h] # None /\ sending'[h].line = sending[h].line
           /\ sending'[h].to = sending[h].to \ {w}
  BY <1>4, <1>5, <1>7
<1>9. CASE w \in C!sessions
  <2>1. inbox' = [inbox EXCEPT ![w][i] = q]
    BY <1>2, <1>9
  <2>2. /\ inbox' \in [Windows -> [C!Inboxes -> Seq(Lines)]]
        /\ \A v \in Windows, j \in C!Inboxes :
             inbox'[v][j] = IF v = w /\ j = i THEN q ELSE inbox[v][j]
    BY <1>5, <1>6, <2>1, InboxIs DEF ChatTypes
  <2>3. \A v \in Windows, j \in C!Inboxes :
          inbox'[v][j] = IF v = w /\ j = C!InboxOf(h)
                         THEN Append(inbox[w][j], sending[h].line) ELSE inbox[v][j]
    BY <2>2 DEF i, q
  <2> QED BY <1>1, <1>3, <1>7, <1>8, <1>9, <2>2, <2>3
<1>10. CASE w \notin C!sessions
  <2>1. inbox' = inbox /\ inbox \in [Windows -> [C!Inboxes -> Seq(Lines)]]
    BY <1>2, <1>10 DEF ChatTypes
  <2> QED BY <1>1, <1>3, <1>7, <1>8, <1>10, <2>1
<1> QED BY <1>9, <1>10

LEMMA CopyIs ==
  ASSUME ChatTypes, C!Copy
  PROVE  /\ broadcast # <<>> /\ writing = None /\ Head(broadcast) \in Lines
         /\ writing' \in Sendings /\ writing' # None
         /\ writing'.line = Head(broadcast) /\ writing'.to = C!sessions
         /\ broadcast' = Tail(broadcast) /\ broadcast' \in Seq(Lines)
         /\ UNCHANGED <<window, player, asked, sending, inbox, heard, lines, meant>>
<1> USE DEF C!Copy, C!worldVars
<1>1. broadcast # <<>> /\ broadcast \in Seq(Lines)
  BY DEF ChatTypes
<1>2. Head(broadcast) \in Lines /\ Tail(broadcast) \in Seq(Lines)
  BY <1>1, TailIs
<1>3. writing' \in Sendings /\ writing'.line = Head(broadcast) /\ writing'.to = C!sessions
  BY <1>2, Kinds DEF Sendings
<1> QED BY <1>1, <1>2, <1>3, Kinds

LEMMA CopyToIs ==
  ASSUME ChatTypes, NEW w \in Windows, C!CopyTo(w)
  PROVE  /\ writing # None /\ w \in writing.to /\ writing.line \in Lines
         /\ writing' \in Sendings /\ writing' # None
         /\ writing'.line = writing.line /\ writing'.to = writing.to \ {w}
         /\ heard' \in [Windows -> Seq(Lines)]
         /\ w \notin C!sessions => heard' = heard
         /\ w \in C!sessions => \A v \in Windows :
              heard'[v] = IF v = w THEN Append(heard[w], writing.line) ELSE heard[v]
         /\ UNCHANGED <<window, player, asked, sending, broadcast, inbox, lines, meant>>
<1>1. /\ writing # None /\ w \in writing.to
      /\ writing' = [writing EXCEPT !.to = @ \ {w}]
      /\ heard' = IF w \in C!sessions THEN [heard EXCEPT ![w] = Append(@, writing.line)] ELSE heard
      /\ UNCHANGED <<window, player, asked, sending, broadcast, inbox, lines, meant>>
  BY DEF C!CopyTo, C!worldVars
<1>2. writing \in Sendings /\ writing.line \in Lines /\ writing.to \in SUBSET Windows
  BY <1>1, AtWork
<1>3. writing' \in Sendings /\ writing'.line = writing.line /\ writing'.to = writing.to \ {w}
  BY <1>1, <1>2, FewerIs
<1>4. writing' # None
  BY <1>3, Kinds
<1>5. heard \in [Windows -> Seq(Lines)]
  BY DEF ChatTypes
<1>6. CASE w \in C!sessions
  <2>1. heard' = [heard EXCEPT ![w] = Append(@, writing.line)]
    BY <1>1, <1>6
  <2>2. /\ heard' \in [Windows -> Seq(Lines)]
        /\ \A v \in Windows : heard'[v] = IF v = w THEN Append(heard[w], writing.line) ELSE heard[v]
    BY <1>2, <1>5, <2>1, HeardIs
  <2> QED BY <1>1, <1>2, <1>3, <1>4, <1>6, <2>2
<1>7. CASE w \notin C!sessions
  BY <1>1, <1>2, <1>3, <1>4, <1>5, <1>7
<1> QED BY <1>6, <1>7

LEMMA PassIs ==
  ASSUME ChatTypes, NEW w \in Windows, NEW i \in C!Inboxes, C!Pass(w, i)
  PROVE  /\ inbox[w][i] \in Seq(Lines) /\ inbox[w][i] # <<>> /\ Head(inbox[w][i]) \in Lines
         /\ heard' \in [Windows -> Seq(Lines)] /\ inbox' \in [Windows -> [C!Inboxes -> Seq(Lines)]]
         /\ \A v \in Windows : heard'[v] = IF v = w THEN Append(heard[w], Head(inbox[w][i])) ELSE heard[v]
         /\ \A v \in Windows, j \in C!Inboxes :
              inbox'[v][j] = IF v = w /\ j = i THEN Tail(inbox[w][i]) ELSE inbox[v][j]
         /\ UNCHANGED <<window, player, asked, sending, broadcast, writing, lines, meant>>
<1> DEFINE q == inbox[w][i]
           t == Tail(q)
           x == Head(q)
<1>1. /\ q # <<>> /\ heard' = [heard EXCEPT ![w] = Append(@, x)]
      /\ inbox' = [inbox EXCEPT ![w][i] = t]
      /\ UNCHANGED <<window, player, asked, sending, broadcast, writing, lines, meant>>
  BY DEF C!Pass, C!worldVars
<1>2. /\ inbox \in [Windows -> [C!Inboxes -> Seq(Lines)]] /\ heard \in [Windows -> Seq(Lines)]
      /\ q \in Seq(Lines)
  BY DEF ChatTypes
<1>3. x \in Lines /\ t \in Seq(Lines)
  BY <1>1, <1>2, TailIs
<1> HIDE DEF t, x
<1>4. /\ heard' \in [Windows -> Seq(Lines)]
      /\ \A v \in Windows : heard'[v] = IF v = w THEN Append(heard[w], x) ELSE heard[v]
  BY <1>1, <1>2, <1>3, HeardIs
<1>5. /\ inbox' \in [Windows -> [C!Inboxes -> Seq(Lines)]]
      /\ \A v \in Windows, j \in C!Inboxes : inbox'[v][j] = IF v = w /\ j = i THEN t ELSE inbox[v][j]
  BY <1>1, <1>2, <1>3, InboxIs
<1> QED BY <1>1, <1>2, <1>3, <1>4, <1>5 DEF x, t

\* What windows do.
LEMMA ConnectIs ==
  ASSUME ChatTypes, NEW w \in Windows, C!Connect(w)
  PROVE  /\ window[w] = "new" /\ window' \in [Windows -> {"new", "waiting", "in", "closed"}]
         /\ \A v \in Windows : window'[v] = IF v = w THEN "waiting" ELSE window[v]
         /\ C!sessions' = C!sessions \cup {w}
         /\ writing' \in Sendings \cup {None}
         /\ writing' = None <=> writing = None
         /\ writing # None => /\ writing'.line = writing.line
                              /\ writing'.to \in {writing.to, writing.to \cup {w}}
         /\ UNCHANGED <<player, asked, sending, lines, meant, broadcast, inbox, heard>>
<1>1. /\ window[w] = "new" /\ window' = [window EXCEPT ![w] = "waiting"]
      /\ \/ writing # None /\ writing' = [writing EXCEPT !.to = @ \cup {w}]
         \/ UNCHANGED writing
      /\ UNCHANGED <<player, asked, sending, lines, meant, broadcast, inbox, heard>>
  BY DEF C!Connect, C!worldVars
<1>2. window \in [Windows -> {"new", "waiting", "in", "closed"}]
  BY DEF ChatTypes
<1>3. /\ window' \in [Windows -> {"new", "waiting", "in", "closed"}]
      /\ \A v \in Windows : window'[v] = IF v = w THEN "waiting" ELSE window[v]
  BY <1>1, <1>2
<1>4. C!sessions' = C!sessions \cup {w}
  BY <1>3 DEF C!sessions
<1>5. CASE writing # None /\ writing' = [writing EXCEPT !.to = @ \cup {w}]
  <2>1. writing \in Sendings /\ writing.to \in SUBSET Windows
    BY <1>5, AtWork
  <2>2. writing' \in Sendings /\ writing'.line = writing.line /\ writing'.to = writing.to \cup {w}
    BY <1>5, <2>1, FewerIs
  <2>3. writing' # None
    BY <2>2, Kinds
  <2> QED BY <1>1, <1>3, <1>4, <1>5, <2>2, <2>3
<1>6. CASE UNCHANGED writing
  <2>1. writing' \in Sendings \cup {None}
    BY <1>6 DEF ChatTypes
  <2> QED BY <1>1, <1>3, <1>4, <1>6, <2>1
<1> QED BY <1>1, <1>5, <1>6

LEMMA CloseIs ==
  ASSUME ChatTypes, NEW w \in Windows, C!Close(w)
  PROVE  /\ w \in C!sessions /\ window' \in [Windows -> {"new", "waiting", "in", "closed"}]
         /\ \A v \in Windows : window'[v] = IF v = w THEN "closed" ELSE window[v]
         /\ C!sessions' = C!sessions \ {w}
         /\ inbox' \in [Windows -> [C!Inboxes -> Seq(Lines)]]
         /\ \A v \in Windows, j \in C!Inboxes : inbox'[v][j] = IF v = w THEN <<>> ELSE inbox[v][j]
         /\ UNCHANGED <<player, asked, sending, lines, meant, broadcast, writing, heard>>
<1> DEFINE none == [i \in C!Inboxes |-> <<>>]
<1>1. /\ w \in C!sessions /\ window' = [window EXCEPT ![w] = "closed"]
      /\ inbox' = [inbox EXCEPT ![w] = none]
      /\ UNCHANGED <<player, asked, sending, lines, meant, broadcast, writing, heard>>
  BY DEF C!Close, C!worldVars
<1>2. /\ window \in [Windows -> {"new", "waiting", "in", "closed"}]
      /\ inbox \in [Windows -> [C!Inboxes -> Seq(Lines)]]
  BY DEF ChatTypes
<1>3. none \in [C!Inboxes -> Seq(Lines)] /\ \A j \in C!Inboxes : none[j] = <<>>
  BY EmptyIs
<1> HIDE DEF none
<1>4. /\ window' \in [Windows -> {"new", "waiting", "in", "closed"}]
      /\ \A v \in Windows : window'[v] = IF v = w THEN "closed" ELSE window[v]
  BY <1>1, <1>2
<1>5. /\ inbox' \in [Windows -> [C!Inboxes -> Seq(Lines)]]
      /\ \A v \in Windows : inbox'[v] = IF v = w THEN none ELSE inbox[v]
  BY <1>1, <1>2, <1>3
<1>6. C!sessions' = C!sessions \ {w}
  BY <1>4 DEF C!sessions
<1>7. \A v \in Windows, j \in C!Inboxes : inbox'[v][j] = IF v = w THEN <<>> ELSE inbox[v][j]
  BY <1>3, <1>5
<1> QED BY <1>1, <1>4, <1>5, <1>6, <1>7

\* A handler decides on a line for windows that have connected.
Deciding(h, channel, to) ==
  /\ asked[h] # <<>> /\ sending[h] = None /\ C!Decide(h, channel, to)
  /\ \A w \in to : window[w] # "new"
  /\ channel = "ping" <=> h = "client.ping"

\* Nothing is under way that was not before.
Quiet ==
  /\ UNCHANGED <<sending, broadcast, writing, inbox, heard, lines, meant>>
  /\ C!sessions' = C!sessions

\* The steps that the proof tells apart.
Moved ==
  \/ Quiet
  \/ \E w \in Windows : C!Connect(w) \/ C!Close(w)
  \/ \E h \in C!Handlers, channel \in {"global", "proximity", "ping"}, to \in SUBSET Windows :
       Deciding(h, channel, to)
  \/ \E h \in C!Handlers : C!Broadcast(h)
  \/ \E h \in C!Handlers, w \in Windows : C!SendTo(h, w)
  \/ C!Copy \/ C!Copied
  \/ \E w \in Windows : C!CopyTo(w)
  \/ \E w \in Windows, i \in C!Inboxes : C!Pass(w, i)

LEMMA ServingMoves ==
  ASSUME ChatTypes, Fresh, NEW h \in C!Handlers,
         \/ h \in {"client.chat", "admin.chat"} /\ C!Chat(h)
         \/ h = "client.ping" /\ C!handlePing
  PROVE  ChatTypes' /\ Fresh' /\ Moved
<1>1. asked[h] # <<>> /\ sending[h] = None
  BY HandlerActs
<1>2. CASE C!Drop(h)
  <2>1. ChatTypes'
    BY <1>1, <1>2, DropKeepsTypes
  <2>2. UNCHANGED <<window, player, sending, broadcast, writing, inbox, heard, lines, meant>>
    BY <1>2 DEF C!Drop
  <2>3. Fresh' /\ Quiet
    BY <2>2 DEF Fresh, Quiet, C!sessions
  <2> QED BY <2>1, <2>3 DEF Moved
<1>3. CASE \E channel \in {"global", "proximity", "ping"}, to \in SUBSET Windows :
             /\ C!Decide(h, channel, to)
             /\ \A w \in to : window[w] # "new"
             /\ channel # "ping" \/ h = "client.ping"
             /\ channel = "ping" \/ h # "client.ping"
  <2>1. PICK channel \in {"global", "proximity", "ping"}, to \in SUBSET Windows :
             /\ C!Decide(h, channel, to)
             /\ \A w \in to : window[w] # "new"
             /\ channel # "ping" \/ h = "client.ping"
             /\ channel = "ping" \/ h # "client.ping"
    BY <1>3
  <2>2. ChatTypes'
    BY <1>1, <2>1, DecideKeepsTypes
  <2>3. Deciding(h, channel, to)
    BY <1>1, <2>1 DEF Deciding
  <2>4. /\ lines \in Nat /\ lines' = lines + 1
        /\ meant'[lines + 1] = to /\ \A id \in 1..lines : meant'[id] = meant[id]
        /\ UNCHANGED <<window, player, broadcast, writing, inbox, heard>>
    <3>1. lines \in Nat
      BY DEF ChatTypes
    <3> QED BY <2>1, <3>1, DecideIs
  <2>5. ASSUME NEW w \in Windows, window[w] = "new", NEW id \in 1..lines' PROVE w \notin meant'[id]
    <3>1. CASE id = lines + 1
      BY <2>1, <2>4, <2>5, <3>1
    <3>2. CASE id # lines + 1
      <4>1. id \in 1..lines
        BY <2>4, <3>2
      <4> QED BY <2>4, <2>5, <4>1 DEF Fresh
    <3> QED BY <3>1, <3>2
  <2>6. Fresh'
    BY <2>4, <2>5 DEF Fresh
  <2> QED BY <2>2, <2>3, <2>6 DEF Moved
<1> QED BY <1>2, <1>3, HandlerActs

\* Windows and players.
LEMMA PeopleMove ==
  ASSUME ChatTypes, Fresh, NEW w \in Windows,
         \/ C!LetIn(w) \/ C!Leave(w) \/ C!Change(w) \/ C!Connect(w) \/ C!Close(w)
  PROVE  ChatTypes' /\ Fresh' /\ Moved
<1>0. /\ window \in [Windows -> {"new", "waiting", "in", "closed"}]
      /\ player \in [Windows -> C!Mood \cup {None}]
  BY DEF ChatTypes
<1>1. CASE C!LetIn(w) \/ C!Leave(w) \/ C!Change(w)
  <2>1. UNCHANGED <<asked, sending, broadcast, writing, inbox, heard, lines, meant>>
    BY <1>1 DEF C!LetIn, C!Leave, C!Change
  <2>2. /\ window' \in [Windows -> {"new", "waiting", "in", "closed"}]
        /\ C!sessions' = C!sessions
        /\ \A v \in Windows : window'[v] = "new" => window[v] = "new"
    <3>1. CASE C!LetIn(w)
      BY <1>0, <3>1 DEF C!LetIn, C!sessions
    <3>2. CASE window' = window
      BY <1>0, <3>2 DEF C!sessions
    <3> QED BY <1>1, <3>1, <3>2 DEF C!Leave, C!Change
  <2>3. /\ player' \in [Windows -> C!Mood \cup {None}]
        /\ \A v \in Windows : v # w => player'[v] = player[v]
    <3>1. PICK mood \in C!Mood \cup {None} : player' = [player EXCEPT ![w] = mood]
      <4>1. [circle |-> "", dnd |-> FALSE] \in C!Mood
        BY DEF C!Mood
      <4> QED BY <1>1, <4>1, ChatAssumption DEF C!LetIn, C!Leave, C!Change
    <3> QED BY <1>0, <3>1
  <2>4. window'[w] # "new"
    BY <1>0, <1>1 DEF C!LetIn, C!Leave, C!Change, Fresh
  <2>5. ChatTypes'
    BY <2>1, <2>2, <2>3 DEF ChatTypes
  <2>6. Fresh'
    BY <2>1, <2>2, <2>3, <2>4 DEF Fresh
  <2> QED BY <2>1, <2>2, <2>5, <2>6 DEF Moved, Quiet
<1>2. CASE C!Connect(w)
  <2>1. ChatTypes'
    BY <1>2, ConnectIs DEF ChatTypes
  <2>2. Fresh'
    BY <1>2, ConnectIs DEF Fresh
  <2> QED BY <1>2, <2>1, <2>2 DEF Moved
<1>3. CASE C!Close(w)
  <2>1. ChatTypes'
    BY <1>3, CloseIs DEF ChatTypes
  <2>2. ASSUME NEW v \in Windows, window'[v] = "new" PROVE v # w /\ window[v] = "new"
    BY <1>3, <2>2, CloseIs
  <2>3. /\ \A v \in Windows, j \in C!Inboxes : inbox'[v][j] = IF v = w THEN <<>> ELSE inbox[v][j]
        /\ UNCHANGED <<player, lines, meant, heard>>
    BY <1>3, CloseIs
  <2>4. Fresh'
    BY <2>2, <2>3 DEF Fresh
  <2> QED BY <1>3, <2>1, <2>4 DEF Moved
<1> QED BY <1>1, <1>2, <1>3

\* Requests.
LEMMA AskingMoves ==
  ASSUME ChatTypes, Fresh, NEW w \in Windows,
         \/ \E channel \in {"global", "proximity"} : C!Say(w, channel) \/ C!SayAs(w, channel)
         \/ \E target \in Windows : C!Ping(w, target)
  PROVE  ChatTypes' /\ Fresh' /\ Moved
<1>1. \E h \in C!Handlers : \E r \in Requests(h) : C!Ask(h, r)
  <2>1. CASE \E channel \in {"global", "proximity"} : C!Say(w, channel)
    <3>1. PICK channel \in {"global", "proximity"} : C!Ask("client.chat", [who |-> w, channel |-> channel])
      BY <2>1 DEF C!Say
    <3>2. [who |-> w, channel |-> channel] \in Requests("client.chat")
      BY DEF Requests
    <3> QED BY <3>1, <3>2, Kinds
  <2>2. CASE \E channel \in {"global", "proximity"} : C!SayAs(w, channel)
    <3>1. PICK channel \in {"global", "proximity"} : C!Ask("admin.chat", [who |-> w, channel |-> channel])
      BY <2>2 DEF C!SayAs
    <3>2. [who |-> w, channel |-> channel] \in Requests("admin.chat")
      BY DEF Requests
    <3> QED BY <3>1, <3>2, Kinds
  <2>3. CASE \E target \in Windows : C!Ping(w, target)
    <3>1. PICK target \in Windows : C!Ask("client.ping", [who |-> target, channel |-> "ping"])
      BY <2>3 DEF C!Ping
    <3>2. [who |-> target, channel |-> "ping"] \in Requests("client.ping")
      BY DEF Requests
    <3> QED BY <3>1, <3>2, Kinds
  <2> QED BY <2>1, <2>2, <2>3
<1>2. PICK h \in C!Handlers : \E r \in Requests(h) : C!Ask(h, r)
  BY <1>1
<1>3. PICK r \in Requests(h) : C!Ask(h, r)
  BY <1>2
<1>4. ChatTypes'
  BY <1>3, AskKeepsTypes
<1>5. UNCHANGED <<window, player, sending, broadcast, writing, inbox, heard, lines, meant>>
  BY <1>3 DEF C!Ask
<1>6. Fresh' /\ Quiet
  BY <1>5 DEF Fresh, Quiet, C!sessions
<1> QED BY <1>4, <1>6 DEF Moved

\* Publishing, and the pusher.
LEMMA PublishingMoves ==
  ASSUME ChatTypes, Fresh,
         \/ \E h \in C!Handlers : C!Broadcast(h)
         \/ C!Copy \/ C!Copied
  PROVE  ChatTypes' /\ Fresh' /\ Moved
<1>1. CASE \E h \in C!Handlers : C!Broadcast(h)
  <2>1. PICK h \in C!Handlers : C!Broadcast(h)
    BY <1>1
  <2>2. ChatTypes'
    BY <2>1, BroadcastIs DEF ChatTypes
  <2>3. UNCHANGED <<window, player, inbox, heard, lines, meant>>
    BY <2>1, BroadcastIs
  <2>4. Fresh'
    BY <2>3 DEF Fresh
  <2> QED BY <2>1, <2>2, <2>4 DEF Moved
<1>2. CASE C!Copy
  <2>1. ChatTypes'
    BY <1>2, CopyIs DEF ChatTypes
  <2>2. Fresh'
    BY <1>2 DEF C!Copy, C!worldVars, Fresh
  <2> QED BY <1>2, <2>1, <2>2 DEF Moved
<1>3. CASE C!Copied
  <2>1. ChatTypes' /\ Fresh'
    BY <1>3 DEF C!Copied, C!worldVars, Fresh, ChatTypes
  <2> QED BY <1>3, <2>1 DEF Moved
<1> QED BY <1>1, <1>2, <1>3

LEMMA ArrivingMoves ==
  ASSUME ChatTypes, Fresh, NEW w \in Windows,
         \/ \E h \in C!Handlers : C!SendTo(h, w)
         \/ \E i \in C!Inboxes : C!Pass(w, i)
         \/ C!CopyTo(w)
  PROVE  ChatTypes' /\ Fresh' /\ Moved
<1>1. CASE \E h \in C!Handlers : C!SendTo(h, w)
  <2>1. PICK h \in C!Handlers : C!SendTo(h, w)
    BY <1>1
  <2>2. ChatTypes'
    BY <2>1, SendToIs DEF ChatTypes
  <2>3. /\ UNCHANGED <<window, player, heard, lines, meant>>
        /\ \A v \in Windows, j \in C!Inboxes : window[v] = "new" => inbox'[v][j] = inbox[v][j]
    <3>1. UNCHANGED <<window, player, heard, lines, meant>>
      BY <2>1, SendToIs
    <3>2. CASE w \notin C!sessions
      BY <2>1, <3>1, <3>2, SendToIs
    <3>3. CASE w \in C!sessions
      <4>1. window[w] # "new"
        BY <3>3 DEF C!sessions
      <4>2. \A v \in Windows, j \in C!Inboxes :
              inbox'[v][j] = IF v = w /\ j = C!InboxOf(h)
                             THEN Append(inbox[w][j], sending[h].line) ELSE inbox[v][j]
        BY <2>1, <3>3, SendToIs
      <4> QED BY <3>1, <4>1, <4>2
    <3> QED BY <3>2, <3>3
  <2>4. Fresh'
    BY <2>3 DEF Fresh
  <2> QED BY <2>1, <2>2, <2>4 DEF Moved
<1>2. CASE \E i \in C!Inboxes : C!Pass(w, i)
  <2>1. PICK i \in C!Inboxes : C!Pass(w, i)
    BY <1>2
  <2>2. ChatTypes'
    BY <2>1, PassIs DEF ChatTypes
  <2>3. window[w] # "new"
    BY <2>1, PassIs DEF Fresh
  <2>4. /\ UNCHANGED <<window, player, lines, meant>>
        /\ \A v \in Windows, j \in C!Inboxes : window[v] = "new" =>
             inbox'[v][j] = inbox[v][j] /\ heard'[v] = heard[v]
    BY <2>1, <2>3, PassIs
  <2>5. Fresh'
    BY <2>4, Kinds DEF Fresh
  <2> QED BY <2>1, <2>2, <2>5 DEF Moved
<1>3. CASE C!CopyTo(w)
  <2>1. ChatTypes'
    BY <1>3, CopyToIs DEF ChatTypes
  <2>2. /\ UNCHANGED <<window, player, lines, meant, inbox>>
        /\ \A v \in Windows : window[v] = "new" => heard'[v] = heard[v]
    BY <1>3, CopyToIs DEF C!sessions
  <2>3. Fresh'
    BY <2>2 DEF Fresh
  <2> QED BY <1>3, <2>1, <2>3 DEF Moved
<1> QED BY <1>1, <1>2, <1>3

LEMMA NextMoves ==
  ASSUME ChatTypes, Fresh, [C!Next]_(C!vars)
  PROVE  ChatTypes' /\ Fresh' /\ Moved
<1>1. CASE C!Next
  BY <1>1, ServingMoves, PeopleMove, AskingMoves, PublishingMoves, ArrivingMoves, Kinds
     DEF C!Next, C!handleChat, C!adminChat
<1>2. CASE UNCHANGED C!vars
  <2>1. ChatTypes' /\ Fresh' /\ Quiet
    BY <1>2 DEF C!vars, ChatTypes, Fresh, Quiet, C!sessions
  <2> QED BY <2>1 DEF Moved
<1> QED BY <1>1, <1>2

-----------------------------------------------------------------------------
(* Routes.                                                                 *)

LEMMA RoutesKept ==
  ASSUME ChatTypes, ChatTypes', Routes, Moved
  PROVE  Routes'
<1>0. /\ lines \in Nat /\ inbox \in [Windows -> [C!Inboxes -> Seq(Lines)]]
      /\ heard \in [Windows -> Seq(Lines)] /\ broadcast \in Seq(Lines)
  BY DEF ChatTypes
<1>1. CASE Quiet
  BY <1>1 DEF Quiet, Routes, For, Numbered
<1>2. CASE \E w \in Windows : C!Connect(w)
  <2>1. /\ UNCHANGED <<sending, lines, meant, broadcast, inbox, heard>>
        /\ writing' = None <=> writing = None
        /\ writing # None => writing'.line = writing.line
    BY <1>2, ConnectIs
  <2> QED BY <2>1 DEF Routes, For, Numbered
<1>3. CASE \E w \in Windows : C!Close(w)
  <2>1. /\ UNCHANGED <<sending, lines, meant, broadcast, writing, heard>>
        /\ \A v \in Windows, j \in C!Inboxes : inbox'[v][j] = <<>> \/ inbox'[v][j] = inbox[v][j]
    BY <1>3, CloseIs
  <2>2. \A v \in Windows, j \in C!Inboxes : \A n \in 1..Len(inbox'[v][j]) :
          inbox'[v][j] = inbox[v][j]
    BY <2>1, EmptyIs
  <2> QED BY <2>1, <2>2 DEF Routes, For, Numbered
<1>4. CASE \E h \in C!Handlers, channel \in {"global", "proximity", "ping"}, to \in SUBSET Windows :
             Deciding(h, channel, to)
  <2>1. PICK h \in C!Handlers, channel \in {"global", "proximity", "ping"}, to \in SUBSET Windows :
             Deciding(h, channel, to)
    BY <1>4
  <2>2. /\ \A g \in C!Handlers : g # h => sending'[g] = sending[g]
        /\ sending'[h] # None /\ sending'[h].to = to /\ sending'[h].line = NewLine(h, channel)
        /\ lines' = lines + 1
        /\ meant'[lines + 1] = to /\ \A id \in 1..lines : meant'[id] = meant[id]
        /\ UNCHANGED <<broadcast, writing, inbox, heard>>
    BY <2>1, DecideIs DEF Deciding
  <2>3. \A w, line : For(w, line) => line.id \in 1..lines' /\ (line.channel # "global" => w \in meant'[line.id])
    BY <1>0, <2>2 DEF For, Numbered
  <2>4. \A line : Numbered(line) => line.id \in 1..lines'
    BY <1>0, <2>2 DEF Numbered
  <2>5. /\ sending'[h].line.by = h /\ sending'[h].line.id = lines + 1
        /\ sending'[h].line.id \in 1..lines'
    BY <1>0, <2>2 DEF NewLine
  <2>6. \A w \in to : w \in meant'[lines + 1]
    BY <2>2
  <2>7. ASSUME NEW g \in C!Handlers, sending'[g] # None
        PROVE  /\ sending'[g].line.by = g /\ Numbered(sending[g].line)'
               /\ \A w \in sending'[g].to : For(w, sending[g].line)'
    <3>1. CASE g = h
      BY <2>2, <2>5, <2>6, <3>1 DEF For, Numbered
    <3>2. CASE g # h
      <4>1. sending'[g] = sending[g]
        BY <2>2, <3>2
      <4>2. /\ sending[g].line.by = g /\ Numbered(sending[g].line)
            /\ \A w \in sending[g].to : For(w, sending[g].line)
        BY <2>7, <4>1 DEF Routes
      <4> QED BY <2>3, <2>4, <4>1, <4>2 DEF For, Numbered
    <3> QED BY <3>1, <3>2
  <2>8. /\ \A n \in 1..Len(broadcast) : broadcast[n].channel = "global" /\ broadcast[n].id \in 1..lines'
        /\ writing # None => writing.line.channel = "global" /\ writing.line.id \in 1..lines'
    BY <2>4 DEF Routes
  <2>9. /\ \A w \in Windows, i \in C!Inboxes : \A n \in 1..Len(inbox[w][i]) :
             /\ inbox[w][i][n].channel # "global" /\ inbox[w][i][n].id \in 1..lines'
             /\ inbox[w][i][n].channel # "global" => w \in meant'[inbox[w][i][n].id]
             /\ C!InboxOf(inbox[w][i][n].by) = i
        /\ \A w \in Windows : \A n \in 1..Len(heard[w]) :
             /\ heard[w][n].id \in 1..lines'
             /\ heard[w][n].channel # "global" => w \in meant'[heard[w][n].id]
    BY <2>3 DEF Routes
  <2> QED BY <2>2, <2>7, <2>8, <2>9 DEF Routes, For, Numbered
<1>5. CASE \E h \in C!Handlers : C!Broadcast(h)
  <2>1. PICK h \in C!Handlers : C!Broadcast(h)
    BY <1>5
  <2>2. /\ sending[h] # None /\ sending[h].line \in Lines /\ sending[h].line.channel = "global"
        /\ broadcast' = Append(broadcast, sending[h].line)
        /\ \A g \in C!Handlers : sending'[g] = IF g = h THEN None ELSE sending[g]
        /\ UNCHANGED <<writing, inbox, heard, lines, meant>>
    BY <2>1, BroadcastIs
  <2>3. Numbered(sending[h].line)
    BY <2>2 DEF Routes
  <2>4. ASSUME NEW n \in 1..Len(broadcast')
        PROVE  broadcast'[n].channel = "global" /\ broadcast'[n].id \in 1..lines
    <3>1. broadcast'[n] = sending[h].line \/ (n \in 1..Len(broadcast) /\ broadcast'[n] = broadcast[n])
      BY <1>0, <2>2, AppendedHas
    <3> QED BY <2>2, <2>3, <3>1 DEF Routes, Numbered
  <2> QED BY <2>2, <2>4 DEF Routes, For, Numbered
<1>6. CASE \E h \in C!Handlers, w \in Windows : C!SendTo(h, w)
  <2>1. PICK h \in C!Handlers, w \in Windows : C!SendTo(h, w)
    BY <1>6
  <2>2. /\ sending[h] # None /\ sending[h].line \in Lines /\ sending[h].line.channel # "global"
        /\ w \in sending[h].to
        /\ \A g \in C!Handlers : g # h => sending'[g] = sending[g]
        /\ sending[h].to = {w} => sending'[h] = None
        /\ sending[h].to # {w} =>
             /\ sending'[h] # None /\ sending'[h].line = sending[h].line
             /\ sending'[h].to = sending[h].to \ {w}
        /\ w \notin C!sessions => inbox' = inbox
        /\ w \in C!sessions => \A v \in Windows, j \in C!Inboxes :
             inbox'[v][j] = IF v = w /\ j = C!InboxOf(h)
                            THEN Append(inbox[w][j], sending[h].line) ELSE inbox[v][j]
        /\ UNCHANGED <<broadcast, writing, heard, lines, meant>>
    BY <2>1, SendToIs
  <2>3. /\ sending[h].line.by = h /\ Numbered(sending[h].line)
        /\ \A v \in sending[h].to : For(v, sending[h].line)
    BY <2>2 DEF Routes
  <2>4. ASSUME NEW g \in C!Handlers, sending'[g] # None
        PROVE  /\ sending'[g].line.by = g /\ Numbered(sending'[g].line)
               /\ \A v \in sending'[g].to : For(v, sending'[g].line)
    <3>1. CASE g = h
      BY <2>2, <2>3, <2>4, <3>1
    <3>2. CASE g # h
      <4>1. sending'[g] = sending[g]
        BY <2>2, <3>2
      <4> QED BY <2>4, <4>1 DEF Routes
    <3> QED BY <3>1, <3>2
  <2>5. ASSUME NEW v \in Windows, NEW j \in C!Inboxes, NEW n \in 1..Len(inbox'[v][j])
        PROVE  /\ inbox'[v][j][n].channel # "global" /\ For(v, inbox'[v][j][n])
               /\ C!InboxOf(inbox'[v][j][n].by) = j
    <3>1. CASE inbox'[v][j] = inbox[v][j]
      <4>1. n \in 1..Len(inbox[v][j])
        BY <3>1
      <4> QED BY <3>1, <4>1 DEF Routes
    <3>2. CASE v = w /\ j = C!InboxOf(h) /\ inbox'[v][j] = Append(inbox[v][j], sending[h].line)
      <4>1. inbox[v][j] \in Seq(Lines)
        BY <1>0
      <4>2. \/ inbox'[v][j][n] = sending[h].line
            \/ n \in 1..Len(inbox[v][j]) /\ inbox'[v][j][n] = inbox[v][j][n]
        BY <2>2, <3>2, <4>1, AppendedHas
      <4>3. CASE inbox'[v][j][n] = sending[h].line
        BY <2>2, <2>3, <3>2, <4>3
      <4>4. CASE n \in 1..Len(inbox[v][j]) /\ inbox'[v][j][n] = inbox[v][j][n]
        BY <4>4 DEF Routes
      <4> QED BY <4>2, <4>3, <4>4
    <3> QED BY <2>2, <3>1, <3>2
  <2> QED BY <2>2, <2>4, <2>5 DEF Routes, For, Numbered
<1>7. CASE C!Copy
  <2>1. /\ broadcast # <<>> /\ Head(broadcast) \in Lines
        /\ writing'.line = Head(broadcast) /\ broadcast' = Tail(broadcast)
        /\ UNCHANGED <<sending, inbox, heard, lines, meant>>
    BY <1>7, CopyIs
  <2>2. Head(broadcast) = broadcast[1] /\ 1 \in 1..Len(broadcast)
    BY <1>0, <2>1, TailIs
  <2>3. \A n \in 1..Len(broadcast') : n + 1 \in 1..Len(broadcast) /\ broadcast'[n] = broadcast[n + 1]
    BY <1>0, <2>1, TailHas
  <2> QED BY <2>1, <2>2, <2>3 DEF Routes, For, Numbered
<1>8. CASE C!Copied
  BY <1>8 DEF C!Copied, C!worldVars, Routes, For, Numbered
<1>9. CASE \E w \in Windows : C!CopyTo(w)
  <2>1. PICK w \in Windows : C!CopyTo(w)
    BY <1>9
  <2>2. /\ writing # None /\ writing.line \in Lines
        /\ writing'.line = writing.line
        /\ w \notin C!sessions => heard' = heard
        /\ w \in C!sessions => \A v \in Windows :
             heard'[v] = IF v = w THEN Append(heard[w], writing.line) ELSE heard[v]
        /\ UNCHANGED <<sending, broadcast, inbox, lines, meant>>
    BY <2>1, CopyToIs
  <2>3. \A v : For(v, writing.line)
    BY <2>2 DEF Routes, For
  <2>4. ASSUME NEW v \in Windows, NEW n \in 1..Len(heard'[v]) PROVE For(v, heard'[v][n])
    <3>1. CASE heard'[v] = heard[v]
      <4>1. n \in 1..Len(heard[v])
        BY <3>1
      <4> QED BY <3>1, <4>1 DEF Routes
    <3>2. CASE heard'[v] = Append(heard[v], writing.line)
      <4>1. \/ heard'[v][n] = writing.line
            \/ n \in 1..Len(heard[v]) /\ heard'[v][n] = heard[v][n]
        BY <1>0, <2>2, <3>2, AppendedHas
      <4>2. CASE n \in 1..Len(heard[v]) /\ heard'[v][n] = heard[v][n]
        BY <4>2 DEF Routes
      <4> QED BY <2>3, <4>1, <4>2
    <3> QED BY <2>2, <3>1, <3>2
  <2> QED BY <2>2, <2>4 DEF Routes, For, Numbered
<1>10. CASE \E w \in Windows, i \in C!Inboxes : C!Pass(w, i)
  <2>1. PICK w \in Windows, i \in C!Inboxes : C!Pass(w, i)
    BY <1>10
  <2> DEFINE q == inbox[w][i]
  <2>2. /\ q \in Seq(Lines) /\ q # <<>> /\ Head(q) \in Lines
        /\ \A v \in Windows : heard'[v] = IF v = w THEN Append(heard[w], Head(q)) ELSE heard[v]
        /\ \A v \in Windows, j \in C!Inboxes :
             inbox'[v][j] = IF v = w /\ j = i THEN Tail(q) ELSE inbox[v][j]
        /\ UNCHANGED <<sending, broadcast, writing, lines, meant>>
    BY <2>1, PassIs
  <2>3. \A n \in 1..Len(q) : q[n].channel # "global" /\ For(w, q[n]) /\ C!InboxOf(q[n].by) = i
    BY DEF Routes
  <2> HIDE DEF q
  <2>4. Head(q) = q[1] /\ 1 \in 1..Len(q)
    BY <2>2, TailIs
  <2>5. \A n \in 1..Len(Tail(q)) : n + 1 \in 1..Len(q) /\ Tail(q)[n] = q[n + 1]
    BY <2>2, TailHas
  <2>6. ASSUME NEW v \in Windows, NEW j \in C!Inboxes, NEW n \in 1..Len(inbox'[v][j])
        PROVE  /\ inbox'[v][j][n].channel # "global" /\ For(v, inbox'[v][j][n])
               /\ C!InboxOf(inbox'[v][j][n].by) = j
    <3>1. CASE inbox'[v][j] = inbox[v][j]
      <4>1. n \in 1..Len(inbox[v][j])
        BY <3>1
      <4> QED BY <3>1, <4>1 DEF Routes
    <3>2. CASE v = w /\ j = i /\ inbox'[v][j] = Tail(q)
      BY <2>3, <2>5, <3>2
    <3> QED BY <2>2, <3>1, <3>2
  <2>7. ASSUME NEW v \in Windows, NEW n \in 1..Len(heard'[v]) PROVE For(v, heard'[v][n])
    <3>1. CASE heard'[v] = heard[v]
      <4>1. n \in 1..Len(heard[v])
        BY <3>1
      <4> QED BY <3>1, <4>1 DEF Routes
    <3>2. CASE v = w /\ heard'[v] = Append(heard[v], Head(q))
      <4>1. \/ heard'[v][n] = Head(q)
            \/ n \in 1..Len(heard[v]) /\ heard'[v][n] = heard[v][n]
        BY <1>0, <2>2, <3>2, AppendedHas
      <4>2. CASE n \in 1..Len(heard[v]) /\ heard'[v][n] = heard[v][n]
        BY <4>2 DEF Routes
      <4> QED BY <2>3, <2>4, <3>2, <4>1, <4>2
    <3> QED BY <2>2, <3>1, <3>2
  <2> QED BY <2>2, <2>6, <2>7 DEF Routes, For, Numbered
<1> QED BY <1>1, <1>2, <1>3, <1>4, <1>5, <1>6, <1>7, <1>8, <1>9, <1>10 DEF Moved

-----------------------------------------------------------------------------
(* Order.                                                                  *)

\* What the proofs below need of the types.
LEMMA QueuesAre ==
  ASSUME ChatTypes
  PROVE  /\ lines \in Nat /\ broadcast \in Seq(Lines) /\ heard \in [Windows -> Seq(Lines)]
         /\ \A w \in Windows : heard[w] \in Seq(Lines)
         /\ \A w \in Windows, i \in C!Inboxes : inbox[w][i] \in Seq(Lines)
BY DEF ChatTypes

LEMMA OrderQuiet ==
  ASSUME ChatTypes, Order, Behind,
         Quiet \/ C!Copied \/ \E w \in Windows : C!Connect(w) \/ C!Close(w),
         Fresh
  PROVE  Order' /\ Behind'
<1>1. CASE Quiet
  BY <1>1 DEF Quiet, Order, Behind
<1>2. CASE C!Copied
  BY <1>2 DEF C!Copied, C!worldVars, Order, Behind
<1>3. CASE \E w \in Windows : C!Connect(w)
  <2>1. PICK w \in Windows : C!Connect(w)
    BY <1>3
  <2>2. /\ window[w] = "new"
        /\ writing' = None <=> writing = None
        /\ writing # None => /\ writing'.line = writing.line
                             /\ writing'.to \in {writing.to, writing.to \cup {w}}
        /\ UNCHANGED <<sending, broadcast, inbox, heard>>
    BY <2>1, ConnectIs
  <2>3. \A x : Precede(heard[w], x)
    BY <2>2, EmptySorted DEF Fresh
  <2> QED BY <2>2, <2>3 DEF Order, Behind
<1>4. CASE \E w \in Windows : C!Close(w)
  <2>1. PICK w \in Windows : C!Close(w)
    BY <1>4
  <2>2. /\ \A v \in Windows, j \in C!Inboxes : inbox'[v][j] = <<>> \/ inbox'[v][j] = inbox[v][j]
        /\ UNCHANGED <<sending, broadcast, writing, heard>>
    BY <2>1, CloseIs
  <2>3. \A q : Sorted(<<>>) /\ PrecedeAll(q, <<>>) /\ Precede(<<>>, q)
    BY EmptySorted
  <2>4. Order'
    BY <2>2, <2>3 DEF Order
  <2>5. Behind'
    BY <2>2, <2>3 DEF Behind
  <2> QED BY <2>4, <2>5
<1> QED BY <1>1, <1>2, <1>3, <1>4

LEMMA OrderDecided ==
  ASSUME ChatTypes, Routes, Order, Behind,
         NEW h \in C!Handlers, NEW channel \in {"global", "proximity", "ping"},
         NEW to \in SUBSET Windows, Deciding(h, channel, to)
  PROVE  Order' /\ Behind'
<1>1. /\ \A g \in C!Handlers : g # h => sending'[g] = sending[g]
      /\ sending'[h].line = NewLine(h, channel) /\ sending'[h].to = to
      /\ UNCHANGED <<broadcast, writing, inbox, heard>>
  BY DecideIs DEF Deciding
<1>2. Order'
  BY <1>1 DEF Order
<1> DEFINE x == NewLine(h, channel)
<1>3. \A y : Numbered(y) => Older(y, x)
  BY QueuesAre DEF Numbered, Older, NewLine
<1>4. /\ Precede(broadcast, x)
      /\ writing # None => Older(writing.line, x)
      /\ \A w \in Windows : Precede(heard[w], x) /\ \A i \in C!Inboxes : Precede(inbox[w][i], x)
  BY <1>3 DEF Routes, For, Precede
<1> HIDE DEF x
<1>5. ASSUME NEW g \in C!Handlers, sending'[g] # None
      PROVE  /\ Precede(broadcast, sending'[g].line)
             /\ writing # None => Older(writing.line, sending'[g].line)
             /\ \A w \in Windows : sending'[g].line.channel = "global" \/ w \in sending'[g].to =>
                  /\ Precede(heard[w], sending'[g].line)
                  /\ \A i \in C!Inboxes : Precede(inbox[w][i], sending'[g].line)
  <2>1. CASE g = h
    <3>1. sending'[g].line = x
      BY <1>1, <2>1 DEF x
    <3> QED BY <1>4, <3>1
  <2>2. CASE g # h
    <3>1. sending'[g] = sending[g]
      BY <1>1, <2>2
    <3> QED BY <1>5, <3>1 DEF Behind
  <2> QED BY <2>1, <2>2
<1>6. Behind'
  BY <1>1, <1>5 DEF Behind
<1> QED BY <1>2, <1>6

LEMMA OrderBroadcast ==
  ASSUME ChatTypes, Routes, Order, Behind, NEW h \in C!Handlers, C!Broadcast(h)
  PROVE  Order' /\ Behind'
<1> DEFINE x == sending[h].line
<1>1. /\ sending[h] # None /\ x \in Lines /\ x.channel = "global"
      /\ broadcast' = Append(broadcast, x)
      /\ \A g \in C!Handlers : sending'[g] = IF g = h THEN None ELSE sending[g]
      /\ UNCHANGED <<writing, inbox, heard>>
  BY BroadcastIs
<1>2. /\ Precede(broadcast, x) /\ x.by = h
      /\ writing # None => Older(writing.line, x)
      /\ \A w \in Windows : Precede(heard[w], x)
  BY <1>1 DEF Behind, Routes
<1>3. \A g \in C!Handlers : g # h /\ sending[g] # None => Older(x, sending[g].line)
  <2> SUFFICES ASSUME NEW g \in C!Handlers, g # h, sending[g] # None PROVE Older(x, sending[g].line)
    OBVIOUS
  <2>1. sending[g].line.by = g
    BY DEF Routes
  <2> QED BY <1>2, <2>1, OtherRoutes
<1> HIDE DEF x
<1>4. Sorted(broadcast')
  BY <1>1, <1>2, SortedAppend, QueuesAre DEF Order
<1>5. \A w \in Windows : PrecedeAll(heard[w], broadcast')
  <2> SUFFICES ASSUME NEW w \in Windows PROVE PrecedeAll(heard[w], broadcast')
    OBVIOUS
  <2>1. PrecedeAll(heard[w], broadcast)
    BY DEF Order
  <2> QED BY <1>1, <1>2, <2>1, PrecedeAllAppended, QueuesAre
<1>6. writing # None => \A n \in 1..Len(broadcast') : Older(writing.line, broadcast'[n])
  <2> SUFFICES ASSUME writing # None, NEW n \in 1..Len(broadcast')
               PROVE  Older(writing.line, broadcast'[n])
    OBVIOUS
  <2>1. broadcast'[n] = x \/ (n \in 1..Len(broadcast) /\ broadcast'[n] = broadcast[n])
    BY <1>1, AppendedHas, QueuesAre
  <2>2. CASE n \in 1..Len(broadcast) /\ broadcast'[n] = broadcast[n]
    BY <2>2 DEF Order
  <2> QED BY <1>2, <2>1, <2>2
<1>7. Order'
  BY <1>1, <1>4, <1>5, <1>6 DEF Order
<1>8. ASSUME NEW g \in C!Handlers, sending'[g] # None
      PROVE  g # h /\ sending'[g] = sending[g] /\ Precede(broadcast', sending[g].line)
  <2>1. g # h /\ sending'[g] = sending[g]
    BY <1>1, <1>8
  <2>2. Precede(broadcast, sending[g].line) /\ Older(x, sending[g].line)
    BY <1>3, <1>8, <2>1 DEF Behind
  <2>3. Precede(Append(broadcast, x), sending[g].line)
    BY <1>1, <2>2, PrecedeAppend, QueuesAre
  <2> QED BY <1>1, <2>1, <2>3
<1>9. Behind'
  BY <1>1, <1>8 DEF Behind
<1> QED BY <1>7, <1>9

LEMMA OrderSent ==
  ASSUME ChatTypes, Routes, Order, Behind, NEW h \in C!Handlers, NEW w \in Windows, C!SendTo(h, w)
  PROVE  Order' /\ Behind'
<1> DEFINE x == sending[h].line
           i == C!InboxOf(h)
<1>0. \A v \in Windows, j \in C!Inboxes :
        \/ inbox'[v][j] = inbox[v][j]
        \/ v = w /\ j = i /\ inbox'[v][j] = Append(inbox[v][j], x)
  <2>1. CASE w \notin C!sessions
    BY <2>1, SendToIs
  <2>2. CASE w \in C!sessions
    <3>1. \A v \in Windows, j \in C!Inboxes :
            inbox'[v][j] = IF v = w /\ j = i THEN Append(inbox[w][j], x) ELSE inbox[v][j]
      BY <2>2, SendToIs
    <3> QED BY <3>1
  <2> QED BY <2>1, <2>2
<1>1. /\ sending[h] # None /\ x \in Lines /\ x.channel # "global" /\ w \in sending[h].to
      /\ \A g \in C!Handlers : g # h => sending'[g] = sending[g]
      /\ sending[h].to = {w} => sending'[h] = None
      /\ sending[h].to # {w} => /\ sending'[h] # None /\ sending'[h].line = x
                                /\ sending'[h].to = sending[h].to \ {w}
      /\ \A v \in Windows, j \in C!Inboxes :
           \/ inbox'[v][j] = inbox[v][j]
           \/ v = w /\ j = i /\ inbox'[v][j] = Append(inbox[v][j], x)
      /\ UNCHANGED <<broadcast, writing, heard>>
  BY <1>0, SendToIs
<1>2. /\ x.by = h /\ Precede(heard[w], x) /\ i \in C!Inboxes
      /\ \A j \in C!Inboxes : Precede(inbox[w][j], x)
  BY <1>1, Kinds DEF Behind, Routes
<1>3. \A g \in C!Handlers : g # h /\ sending[g] # None => Older(x, sending[g].line)
  <2> SUFFICES ASSUME NEW g \in C!Handlers, g # h, sending[g] # None PROVE Older(x, sending[g].line)
    OBVIOUS
  <2>1. sending[g].line.by = g
    BY DEF Routes
  <2> QED BY <1>2, <2>1, OtherRoutes
<1> HIDE DEF x, i
<1>4. ASSUME NEW v \in Windows, NEW j \in C!Inboxes
      PROVE  Sorted(inbox'[v][j]) /\ PrecedeAll(heard[v], inbox'[v][j])
  <2>0. Sorted(inbox[v][j]) /\ PrecedeAll(heard[v], inbox[v][j]) /\ inbox[v][j] \in Seq(Lines)
    BY QueuesAre DEF Order
  <2>1. CASE inbox'[v][j] = inbox[v][j]
    BY <2>0, <2>1
  <2>2. CASE v = w /\ j = i /\ inbox'[v][j] = Append(inbox[v][j], x)
    <3>1. Precede(heard[v], x) /\ Precede(inbox[v][j], x)
      BY <1>2, <2>2
    <3>2. Sorted(Append(inbox[v][j], x))
      BY <1>1, <2>0, <3>1, SortedAppend
    <3>3. PrecedeAll(heard[v], Append(inbox[v][j], x))
      BY <1>1, <2>0, <3>1, PrecedeAllAppended
    <3> QED BY <2>2, <3>2, <3>3
  <2> QED BY <1>1, <2>1, <2>2
<1>5. Order'
  BY <1>1, <1>4 DEF Order
<1>6. ASSUME NEW g \in C!Handlers, sending'[g] # None, NEW v \in Windows,
             sending'[g].line.channel = "global" \/ v \in sending'[g].to
      PROVE  /\ Precede(heard[v], sending'[g].line)
             /\ \A j \in C!Inboxes : Precede(inbox'[v][j], sending'[g].line)
  <2>1. CASE g = h
    <3>1. sending'[g].line = x /\ v # w /\ v \in sending[h].to
      BY <1>1, <1>6, <2>1
    <3>2. Precede(heard[v], x) /\ \A j \in C!Inboxes : Precede(inbox[v][j], x)
      BY <1>1, <3>1 DEF Behind, x
    <3> QED BY <1>1, <3>1, <3>2
  <2>2. CASE g # h
    <3>1. sending'[g] = sending[g] /\ Older(x, sending[g].line)
      BY <1>1, <1>3, <1>6, <2>2
    <3>2. /\ Precede(heard[v], sending[g].line)
          /\ \A j \in C!Inboxes : Precede(inbox[v][j], sending[g].line)
      BY <1>6, <3>1 DEF Behind
    <3>3. ASSUME NEW j \in C!Inboxes PROVE Precede(inbox'[v][j], sending[g].line)
      <4>1. inbox[v][j] \in Seq(Lines) /\ Precede(inbox[v][j], sending[g].line)
        BY <3>2, QueuesAre
      <4>2. Precede(Append(inbox[v][j], x), sending[g].line)
        BY <1>1, <3>1, <4>1, PrecedeAppend
      <4> QED BY <1>1, <4>1, <4>2
    <3> QED BY <3>1, <3>2, <3>3
  <2> QED BY <2>1, <2>2
<1>7. ASSUME NEW g \in C!Handlers, sending'[g] # None
      PROVE  sending[g] # None /\ sending'[g].line = sending[g].line
  BY <1>1, <1>7 DEF x
<1>8. Behind'
  BY <1>1, <1>6, <1>7 DEF Behind
<1> QED BY <1>5, <1>8

LEMMA OrderCopy ==
  ASSUME ChatTypes, Order, Behind, C!Copy
  PROVE  Order' /\ Behind'
<1> DEFINE x == Head(broadcast)
<1>1. /\ broadcast # <<>> /\ x \in Lines
      /\ writing' # None /\ writing'.line = x
      /\ broadcast' = Tail(broadcast)
      /\ UNCHANGED <<sending, inbox, heard>>
  BY CopyIs
<1>2. broadcast \in Seq(Lines) /\ Sorted(broadcast)
  BY QueuesAre DEF Order
<1>3. Sorted(broadcast') /\ \A n \in 1..Len(broadcast') : Older(x, broadcast'[n])
  BY <1>1, <1>2, SortedTail
<1>4. ASSUME NEW w \in Windows PROVE PrecedeAll(heard[w], broadcast') /\ Precede(heard[w], x)
  <2>1. PrecedeAll(heard[w], broadcast)
    BY DEF Order
  <2> QED BY <1>1, <1>2, <2>1, PrecedeAllTail
<1>5. ASSUME NEW h \in C!Handlers, sending[h] # None
      PROVE  Precede(broadcast', sending[h].line) /\ Older(x, sending[h].line)
  <2>1. Precede(broadcast, sending[h].line)
    BY <1>5 DEF Behind
  <2> QED BY <1>1, <1>2, <2>1, PrecedeTail
<1> HIDE DEF x
<1>6. Order'
  BY <1>1, <1>3, <1>4 DEF Order
<1>7. Behind'
  BY <1>1, <1>5 DEF Behind
<1> QED BY <1>6, <1>7

LEMMA OrderCopied ==
  ASSUME ChatTypes, Routes, Order, Behind, NEW w \in Windows, C!CopyTo(w)
  PROVE  Order' /\ Behind'
<1> DEFINE x == writing.line
<1>1. /\ writing # None /\ w \in writing.to /\ x \in Lines
      /\ writing' # None /\ writing'.line = x /\ writing'.to = writing.to \ {w}
      /\ \A v \in Windows : heard'[v] = heard[v] \/ (v = w /\ heard'[v] = Append(heard[v], x))
      /\ UNCHANGED <<sending, broadcast, inbox>>
  BY CopyToIs
<1>2. /\ x.channel = "global" /\ Precede(heard[w], x)
      /\ \A n \in 1..Len(broadcast) : Older(x, broadcast[n])
      /\ \A g \in C!Handlers : sending[g] # None => Older(x, sending[g].line)
  BY <1>1 DEF Order, Behind, Routes
<1>3. \A i \in C!Inboxes : \A n \in 1..Len(inbox[w][i]) : Older(x, inbox[w][i][n])
  <2> SUFFICES ASSUME NEW i \in C!Inboxes, NEW n \in 1..Len(inbox[w][i]) PROVE Older(x, inbox[w][i][n])
    OBVIOUS
  <2>1. inbox[w][i][n].channel # "global"
    BY DEF Routes
  <2> QED BY <1>2, <2>1, OtherRoutes
<1> HIDE DEF x
<1>4. ASSUME NEW v \in Windows
      PROVE  /\ Sorted(heard'[v]) /\ PrecedeAll(heard'[v], broadcast)
             /\ \A i \in C!Inboxes : PrecedeAll(heard'[v], inbox[v][i])
             /\ \A g \in C!Handlers : sending[g] # None /\ Precede(heard[v], sending[g].line)
                                        => Precede(heard'[v], sending[g].line)
  <2>0. /\ Sorted(heard[v]) /\ PrecedeAll(heard[v], broadcast) /\ heard[v] \in Seq(Lines)
        /\ \A i \in C!Inboxes : PrecedeAll(heard[v], inbox[v][i])
    BY QueuesAre DEF Order
  <2>1. CASE heard'[v] = heard[v]
    BY <2>0, <2>1
  <2>2. CASE v = w /\ heard'[v] = Append(heard[v], x)
    <3>1. Sorted(Append(heard[v], x))
      BY <1>1, <1>2, <2>0, <2>2, SortedAppend
    <3>2. PrecedeAll(Append(heard[v], x), broadcast)
      BY <1>1, <1>2, <2>0, PrecedeAllAppend
    <3>3. ASSUME NEW i \in C!Inboxes PROVE PrecedeAll(Append(heard[v], x), inbox[v][i])
      <4>1. \A n \in 1..Len(inbox[v][i]) : Older(x, inbox[v][i][n])
        BY <1>3, <2>2
      <4> QED BY <1>1, <2>0, <4>1, PrecedeAllAppend
    <3>4. ASSUME NEW g \in C!Handlers, sending[g] # None, Precede(heard[v], sending[g].line)
          PROVE  Precede(Append(heard[v], x), sending[g].line)
      <4>1. Older(x, sending[g].line)
        BY <1>2, <3>4
      <4> QED BY <1>1, <2>0, <3>4, <4>1, PrecedeAppend
    <3> QED BY <2>2, <3>1, <3>2, <3>3, <3>4
  <2> QED BY <1>1, <2>1, <2>2
<1>5. ASSUME NEW v \in Windows, v \in writing'.to PROVE Precede(heard'[v], x)
  <2>1. v # w /\ v \in writing.to
    BY <1>1, <1>5
  <2>2. heard'[v] = heard[v]
    BY <1>1, <2>1
  <2> QED BY <1>1, <2>1, <2>2 DEF Order, x
<1>6. Order'
  BY <1>1, <1>2, <1>4, <1>5 DEF Order
<1>7. Behind'
  BY <1>1, <1>2, <1>4 DEF Behind
<1> QED BY <1>6, <1>7

LEMMA OrderPassed ==
  ASSUME ChatTypes, Routes, Order, Behind, NEW w \in Windows, NEW i \in C!Inboxes, C!Pass(w, i)
  PROVE  Order' /\ Behind'
<1> DEFINE q == inbox[w][i]
           x == Head(q)
           t == Tail(q)
<1>1. /\ q \in Seq(Lines) /\ q # <<>> /\ x \in Lines
      /\ \A v \in Windows : heard'[v] = IF v = w THEN Append(heard[w], x) ELSE heard[v]
      /\ \A v \in Windows, j \in C!Inboxes : inbox'[v][j] = IF v = w /\ j = i THEN t ELSE inbox[v][j]
      /\ UNCHANGED <<sending, broadcast, writing>>
  BY PassIs
<1>2. x = q[1] /\ 1 \in 1..Len(q)
  BY <1>1, TailIs
<1>3. x.channel # "global" /\ C!InboxOf(x.by) = i
  BY <1>2 DEF Routes
<1>4. /\ heard[w] \in Seq(Lines) /\ Sorted(heard[w]) /\ Sorted(q)
      /\ PrecedeAll(heard[w], broadcast) /\ PrecedeAll(heard[w], q)
      /\ \A j \in C!Inboxes : PrecedeAll(heard[w], inbox[w][j])
  BY QueuesAre DEF Order
<1>5. /\ Sorted(t) /\ \A n \in 1..Len(t) : Older(x, t[n])
      /\ PrecedeAll(heard[w], t) /\ Precede(heard[w], x)
  BY <1>1, <1>4, SortedTail, PrecedeAllTail
<1>6. ASSUME NEW j \in C!Inboxes, j # i, NEW n \in 1..Len(inbox[w][j]) PROVE Older(x, inbox[w][j][n])
  <2>1. C!InboxOf(inbox[w][j][n].by) = j
    BY DEF Routes
  <2> QED BY <1>3, <1>6, <2>1, OtherRoutes
<1>7. ASSUME NEW n \in 1..Len(broadcast) PROVE Older(x, broadcast[n])
  <2>1. broadcast[n].channel = "global"
    BY DEF Routes
  <2> QED BY <1>3, <2>1, OtherRoutes
<1>8. ASSUME writing # None PROVE Older(x, writing.line)
  <2>1. writing.line.channel = "global"
    BY <1>8 DEF Routes
  <2> QED BY <1>3, <2>1, OtherRoutes
<1>9. ASSUME NEW g \in C!Handlers, sending[g] # None,
             sending[g].line.channel = "global" \/ w \in sending[g].to
      PROVE  /\ Older(x, sending[g].line) /\ Precede(t, sending[g].line)
             /\ Precede(heard[w], sending[g].line)
  <2>1. Precede(q, sending[g].line) /\ Precede(heard[w], sending[g].line)
    BY <1>9 DEF Behind
  <2> QED BY <1>1, <2>1, PrecedeTail
<1> HIDE DEF q, x, t
<1> DEFINE l == Append(heard[w], x)
<1>10. Sorted(l)
  BY <1>1, <1>4, <1>5, SortedAppend
<1>11. PrecedeAll(l, broadcast)
  BY <1>1, <1>4, <1>7, PrecedeAllAppend
<1>12. PrecedeAll(l, t)
  BY <1>1, <1>4, <1>5, PrecedeAllAppend
<1>13. ASSUME NEW j \in C!Inboxes, j # i PROVE PrecedeAll(l, inbox[w][j])
  <2>1. PrecedeAll(heard[w], inbox[w][j]) /\ \A n \in 1..Len(inbox[w][j]) : Older(x, inbox[w][j][n])
    BY <1>4, <1>6, <1>13
  <2> QED BY <1>1, <1>4, <2>1, PrecedeAllAppend
<1>14. ASSUME NEW g \in C!Handlers, sending[g] # None,
              sending[g].line.channel = "global" \/ w \in sending[g].to
       PROVE  Precede(l, sending[g].line)
  <2>1. Older(x, sending[g].line) /\ Precede(heard[w], sending[g].line)
    BY <1>9, <1>14
  <2> QED BY <1>1, <1>4, <2>1, PrecedeAppend
<1>15. ASSUME writing # None, w \in writing.to PROVE Precede(l, writing.line)
  <2>1. Older(x, writing.line) /\ Precede(heard[w], writing.line)
    BY <1>8, <1>15 DEF Order
  <2> QED BY <1>1, <1>4, <2>1, PrecedeAppend
<1> HIDE DEF l
<1>16. \A v \in Windows : heard'[v] = IF v = w THEN l ELSE heard[v]
  BY <1>1 DEF l
<1>17. Order'
  <2>1. ASSUME NEW v \in Windows
        PROVE  /\ Sorted(heard'[v]) /\ PrecedeAll(heard'[v], broadcast)
               /\ \A j \in C!Inboxes : Sorted(inbox'[v][j]) /\ PrecedeAll(heard'[v], inbox'[v][j])
               /\ writing # None /\ v \in writing.to => Precede(heard'[v], writing.line)
    <3>1. CASE v = w
      <4>1. heard'[v] = l
        BY <1>16, <3>1
      <4>2. ASSUME NEW j \in C!Inboxes PROVE Sorted(inbox'[v][j]) /\ PrecedeAll(l, inbox'[v][j])
        <5>1. CASE j = i
          BY <1>1, <1>5, <1>12, <3>1, <5>1
        <5>2. CASE j # i
          BY <1>1, <1>13, <3>1, <5>2 DEF Order
        <5> QED BY <5>1, <5>2
      <4> QED BY <1>10, <1>11, <1>15, <3>1, <4>1, <4>2
    <3>2. CASE v # w
      BY <1>1, <1>16, <3>2 DEF Order
    <3> QED BY <3>1, <3>2
  <2> QED BY <1>1, <2>1 DEF Order
<1>18. Behind'
  <2>1. ASSUME NEW g \in C!Handlers, sending[g] # None, NEW v \in Windows,
               sending[g].line.channel = "global" \/ v \in sending[g].to
        PROVE  /\ Precede(heard'[v], sending[g].line)
               /\ \A j \in C!Inboxes : Precede(inbox'[v][j], sending[g].line)
    <3>1. /\ Precede(heard[v], sending[g].line)
          /\ \A j \in C!Inboxes : Precede(inbox[v][j], sending[g].line)
      BY <2>1 DEF Behind
    <3>2. CASE v = w
      <4>1. Precede(l, sending[g].line) /\ Precede(t, sending[g].line)
        BY <1>9, <1>14, <2>1, <3>2
      <4> QED BY <1>1, <1>16, <3>1, <3>2, <4>1
    <3>3. CASE v # w
      BY <1>1, <1>16, <3>1, <3>3
    <3> QED BY <3>2, <3>3
  <2> QED BY <1>1, <2>1 DEF Behind
<1> QED BY <1>17, <1>18

LEMMA OrderKept ==
  ASSUME ChatTypes, Fresh, Routes, Order, Behind, Moved
  PROVE  Order' /\ Behind'
BY OrderQuiet, OrderDecided, OrderBroadcast, OrderSent, OrderCopy, OrderCopied, OrderPassed DEF Moved

-----------------------------------------------------------------------------
(* One order for global lines.                                             *)

\* A line is not older than itself: it is not yet where it must be older.
LEMMA NotYetThere ==
  ASSUME NEW q, NEW x \in Lines, Precede(q, x), NEW n \in 1..Len(q)
  PROVE  q[n] # x
BY DEF Precede, Older, Lines

LEMMA AgreeCopied ==
  ASSUME ChatTypes, Routes, Order, Agree, Latest, NEW w \in Windows, C!CopyTo(w)
  PROVE  Agree' /\ Latest'
<1> DEFINE x == writing.line
<1>1. /\ writing # None /\ w \in writing.to /\ x \in Lines
      /\ writing' # None /\ writing'.line = x
      /\ \A v \in Windows : heard'[v] = heard[v] \/ (v = w /\ heard'[v] = Append(heard[v], x))
  BY CopyToIs
<1>2. \A n \in 1..Len(heard[w]) : heard[w][n] # x
  BY <1>1, NotYetThere DEF Order
<1>3. \A v \in Windows : \A b \in Global : ~Before(heard[v], x, b)
  BY <1>1 DEF Latest
<1> HIDE DEF x
<1>4. ASSUME NEW v \in Windows, NEW a, NEW b, Before(heard'[v], a, b)
      PROVE  Before(heard[v], a, b) \/ (v = w /\ b = x /\ \E m \in 1..Len(heard[v]) : heard[v][m] = a)
  <2>1. CASE heard'[v] = heard[v]
    BY <1>4, <2>1
  <2>2. CASE v = w /\ heard'[v] = Append(heard[v], x)
    BY <1>1, <1>4, <2>2, BeforeAppend, QueuesAre
  <2> QED BY <1>1, <2>1, <2>2
\* Nobody shows anything after x.
<1>5. ASSUME NEW v \in Windows, NEW b \in Global PROVE ~Before(heard'[v], x, b)
  <2> SUFFICES ASSUME Before(heard'[v], x, b) PROVE FALSE
    OBVIOUS
  <2>1. v = w /\ \E m \in 1..Len(heard[v]) : heard[v][m] = x
    BY <1>3, <1>4
  <2> QED BY <1>2, <2>1
<1>6. ASSUME NEW u \in Windows, NEW v \in Windows, NEW a \in Global, NEW b \in Global,
             Before(heard'[u], a, b), Before(heard'[v], b, a)
      PROVE  FALSE
  <2>1. a # x /\ b # x
    BY <1>5, <1>6
  <2>2. Before(heard[u], a, b) /\ Before(heard[v], b, a)
    BY <1>4, <1>6, <2>1
  <2> QED BY <2>2 DEF Agree
<1>7. Agree'
  BY <1>6 DEF Agree
<1>8. Latest'
  BY <1>1, <1>5 DEF Latest
<1> QED BY <1>7, <1>8

LEMMA AgreePassed ==
  ASSUME ChatTypes, Routes, Agree, Latest, NEW w \in Windows, NEW i \in C!Inboxes, C!Pass(w, i)
  PROVE  Agree' /\ Latest'
<1> DEFINE q == inbox[w][i]
           x == Head(q)
<1>1. /\ q \in Seq(Lines) /\ q # <<>> /\ x \in Lines
      /\ \A v \in Windows : heard'[v] = IF v = w THEN Append(heard[w], x) ELSE heard[v]
      /\ writing' = writing
  BY PassIs
<1>2. x = q[1] /\ 1 \in 1..Len(q)
  BY <1>1, TailIs
<1>3. x \notin Global
  BY <1>2 DEF Routes, Global
<1> HIDE DEF q, x
<1>4. ASSUME NEW v \in Windows, NEW a, NEW b \in Global, Before(heard'[v], a, b)
      PROVE  Before(heard[v], a, b)
  <2>1. CASE v # w
    BY <1>1, <1>4, <2>1
  <2>2. CASE v = w
    <3>1. Before(Append(heard[v], x), a, b)
      BY <1>1, <1>4, <2>2
    <3>2. Before(heard[v], a, b) \/ b = x
      BY <1>1, <3>1, BeforeAppend, QueuesAre
    <3> QED BY <1>3, <3>2
  <2> QED BY <2>1, <2>2
<1>5. Agree'
  BY <1>4 DEF Agree
<1>6. Latest'
  BY <1>1, <1>4 DEF Latest
<1> QED BY <1>5, <1>6

LEMMA AgreeKept ==
  ASSUME ChatTypes, Routes, Order, Agree, Latest, Moved
  PROVE  Agree' /\ Latest'
<1>1. CASE UNCHANGED heard /\ (writing' = writing \/ writing' = None)
  BY <1>1 DEF Agree, Latest
<1>2. CASE \E w \in Windows : C!Connect(w)
  <2>1. /\ heard' = heard
        /\ writing' = None <=> writing = None
        /\ writing # None => writing'.line = writing.line
    BY <1>2, ConnectIs
  <2> QED BY <2>1 DEF Agree, Latest
<1>3. CASE C!Copy
  <2>1. /\ broadcast # <<>> /\ Head(broadcast) \in Lines /\ writing'.line = Head(broadcast)
        /\ heard' = heard
    BY <1>3, CopyIs
  <2>2. ASSUME NEW w \in Windows, NEW b, Before(heard[w], Head(broadcast), b) PROVE FALSE
    <3>1. PICK n \in 1..Len(heard[w]) : heard[w][n] = Head(broadcast)
      BY <2>2, BeforeShows
    <3>2. PrecedeAll(heard[w], broadcast)
      BY DEF Order
    <3>3. Precede(heard[w], Head(broadcast))
      BY <2>1, <3>2, PrecedeAllTail, QueuesAre
    <3> QED BY <2>1, <3>1, <3>3, NotYetThere
  <2>3. Agree'
    BY <2>1 DEF Agree
  <2>4. Latest'
    BY <2>1, <2>2 DEF Latest
  <2> QED BY <2>3, <2>4
<1>4. CASE \E w \in Windows : C!CopyTo(w)
  BY <1>4, AgreeCopied
<1>5. CASE \E w \in Windows, i \in C!Inboxes : C!Pass(w, i)
  BY <1>5, AgreePassed
<1>6. CASE Quiet \/ C!Copied \/ \E w \in Windows : C!Close(w)
  <2>1. UNCHANGED heard /\ (writing' = writing \/ writing' = None)
    BY <1>6, CloseIs DEF Quiet, C!Copied, C!worldVars
  <2> QED BY <1>1, <2>1
<1>7. CASE \/ \E h \in C!Handlers, channel \in {"global", "proximity", "ping"}, to \in SUBSET Windows :
                Deciding(h, channel, to)
           \/ \E h \in C!Handlers : C!Broadcast(h)
           \/ \E h \in C!Handlers, w \in Windows : C!SendTo(h, w)
  <2>1. UNCHANGED <<heard, writing>>
    BY <1>7, DecideIs, BroadcastIs, SendToIs DEF Deciding
  <2> QED BY <1>1, <2>1
<1> QED BY <1>2, <1>3, <1>4, <1>5, <1>6, <1>7 DEF Moved

-----------------------------------------------------------------------------
(* Nothing is lost on the way to an open window.                           *)

\* x is in q.
Holds(q, id) == \E n \in 1..Len(q) : q[n].id = id

LEMMA HoldsAppend ==
  ASSUME NEW q \in Seq(Lines), NEW x \in Lines, NEW id
  PROVE  /\ Holds(q, id) => Holds(Append(q, x), id)
         /\ Holds(Append(q, x), x.id)
<1> DEFINE p == Append(q, x)
<1>1. /\ Len(p) = Len(q) + 1 /\ Len(q) \in Nat /\ p[Len(q) + 1] = x
      /\ \A n \in 1..Len(q) : p[n] = q[n]
  BY AppendIs
<1> HIDE DEF p
<1>2. 1..Len(q) \subseteq 1..Len(p) /\ Len(q) + 1 \in 1..Len(p)
  BY <1>1
<1>3. (Holds(q, id) => Holds(p, id)) /\ Holds(p, x.id)
  BY <1>1, <1>2 DEF Holds
<1> QED BY <1>3 DEF p

LEMMA HoldsTail ==
  ASSUME NEW q \in Seq(Lines), q # <<>>, NEW id, Holds(q, id)
  PROVE  Head(q).id = id \/ Holds(Tail(q), id)
<1>1. PICK n \in 1..Len(q) : q[n].id = id
  BY DEF Holds
<1> QED BY <1>1, HeadOrTail DEF Holds

\* Where a line that is meant for w is on its way.
Sends(w, id) ==
  \E h \in C!Handlers : sending[h] # None /\ sending[h].line.id = id
    /\ (sending[h].line.channel = "global" \/ w \in sending[h].to)
Copies(w, id) == writing # None /\ writing.line.id = id /\ w \in writing.to
Arrives(w, id) == \E i \in C!Inboxes : Holds(inbox[w][i], id)
There(w, id) == Holds(heard[w], id) \/ Sends(w, id) \/ Holds(broadcast, id) \/ Copies(w, id) \/ Arrives(w, id)

LEMMA DeliveredIs ==
  Delivered <=> \A w \in C!sessions : \A id \in 1..lines : w \in meant[id] => There(w, id)
BY DEF Delivered, Shown, Coming, There, Sends, Copies, Arrives, Holds

LEMMA StaysThere ==
  ASSUME ChatTypes, Moved, NEW w \in Windows, w \in C!sessions, w \in C!sessions', NEW id,
         There(w, id)
  PROVE  There(w, id)'
<1>0. /\ \A v \in Windows : heard[v] \in Seq(Lines)
      /\ \A v \in Windows, i \in C!Inboxes : inbox[v][i] \in Seq(Lines)
      /\ broadcast \in Seq(Lines)
  BY QueuesAre
<1> USE DEF There, Sends, Copies, Arrives
<1>1. CASE Quiet
  BY <1>1 DEF Quiet
<1>2. CASE C!Copied
  <2>1. /\ writing.to = {} /\ UNCHANGED <<sending, broadcast, inbox, heard>>
    BY <1>2 DEF C!Copied, C!worldVars
  <2> QED BY <2>1
<1>3. CASE \E v \in Windows : C!Connect(v)
  <2>1. /\ UNCHANGED <<sending, broadcast, inbox, heard>>
        /\ writing # None => /\ writing' # None /\ writing'.line = writing.line
                             /\ writing.to \subseteq writing'.to
    BY <1>3, ConnectIs
  <2> QED BY <2>1
<1>4. CASE \E v \in Windows : C!Close(v)
  <2>1. PICK v \in Windows : C!Close(v)
    BY <1>4
  <2>2. /\ UNCHANGED <<sending, broadcast, writing, heard>>
        /\ C!sessions' = C!sessions \ {v}
        /\ \A u \in Windows, j \in C!Inboxes : inbox'[u][j] = IF u = v THEN <<>> ELSE inbox[u][j]
    BY <2>1, CloseIs
  <2>3. \A j \in C!Inboxes : inbox'[w][j] = inbox[w][j]
    BY <2>2
  <2> QED BY <2>2, <2>3
<1>5. CASE \E h \in C!Handlers, channel \in {"global", "proximity", "ping"}, to \in SUBSET Windows :
             Deciding(h, channel, to)
  <2>1. PICK h \in C!Handlers, channel \in {"global", "proximity", "ping"}, to \in SUBSET Windows :
             Deciding(h, channel, to)
    BY <1>5
  <2>2. /\ sending[h] = None /\ \A g \in C!Handlers : g # h => sending'[g] = sending[g]
        /\ UNCHANGED <<broadcast, writing, inbox, heard>>
    BY <2>1, DecideIs DEF Deciding
  <2> QED BY <2>2
<1>6. CASE \E h \in C!Handlers : C!Broadcast(h)
  <2>1. PICK h \in C!Handlers : C!Broadcast(h)
    BY <1>6
  <2>2. /\ sending[h].line \in Lines /\ broadcast' = Append(broadcast, sending[h].line)
        /\ \A g \in C!Handlers : sending'[g] = IF g = h THEN None ELSE sending[g]
        /\ UNCHANGED <<writing, inbox, heard>>
    BY <2>1, BroadcastIs
  <2>3. /\ Holds(broadcast, id) => Holds(broadcast', id)
        /\ Holds(broadcast', sending[h].line.id)
    BY <1>0, <2>2, HoldsAppend
  <2> QED BY <2>2, <2>3
<1>7. CASE \E h \in C!Handlers, v \in Windows : C!SendTo(h, v)
  <2>1. PICK h \in C!Handlers, v \in Windows : C!SendTo(h, v)
    BY <1>7
  <2> DEFINE x == sending[h].line
             i == C!InboxOf(h)
  <2>2. /\ x \in Lines /\ sending[h] # None /\ x.channel # "global"
        /\ \A g \in C!Handlers : g # h => sending'[g] = sending[g]
        /\ sending[h].to = {v} => sending'[h] = None
        /\ sending[h].to # {v} => /\ sending'[h] # None /\ sending'[h].line = x
                                  /\ sending'[h].to = sending[h].to \ {v}
        /\ UNCHANGED <<broadcast, writing, heard>>
    BY <2>1, SendToIs
  <2>3. i \in C!Inboxes
    BY Kinds
  <2>4. /\ \A j \in C!Inboxes : Holds(inbox[w][j], id) => Holds(inbox'[w][j], id)
        /\ v = w /\ x.id = id => Holds(inbox'[w][i], id)
    <3>1. CASE v # w \/ v \notin C!sessions
      <4>1. \A j \in C!Inboxes : inbox'[w][j] = inbox[w][j]
        BY <2>1, <3>1, SendToIs
      <4> QED BY <3>1, <4>1
    <3>2. CASE v = w /\ v \in C!sessions
      <4>1. \A j \in C!Inboxes : inbox'[w][j] = IF j = i THEN Append(inbox[w][j], x) ELSE inbox[w][j]
        <5>1. \A u \in Windows, j \in C!Inboxes :
                inbox'[u][j] = IF u = v /\ j = i THEN Append(inbox[v][j], x) ELSE inbox[u][j]
          BY <2>1, <3>2, SendToIs
        <5> QED BY <3>2, <5>1
      <4>2. \A j \in C!Inboxes : /\ Holds(inbox[w][j], id) => Holds(Append(inbox[w][j], x), id)
                                 /\ Holds(Append(inbox[w][j], x), x.id)
        BY <1>0, <2>2, HoldsAppend
      <4> QED BY <2>3, <4>1, <4>2
    <3> QED BY <3>1, <3>2
  <2> HIDE DEF x, i
  <2>5. CASE Arrives(w, id)
    BY <2>4, <2>5
  <2>6. CASE Sends(w, id)
    <3>1. PICK g \in C!Handlers : /\ sending[g] # None /\ sending[g].line.id = id
                                  /\ (sending[g].line.channel = "global" \/ w \in sending[g].to)
      BY <2>6
    <3>2. CASE g # h
      <4>1. sending'[g] = sending[g]
        BY <2>2, <3>2
      <4>2. Sends(w, id)'
        BY <3>1, <4>1
      <4> QED BY <4>2
    <3>3. CASE g = h
      <4>1. x.id = id /\ w \in sending[h].to
        BY <2>2, <3>1, <3>3 DEF x
      <4>2. CASE v = w
        BY <2>3, <2>4, <4>1, <4>2
      <4>3. CASE v # w
        <5>1. sending'[h] # None /\ sending'[h].line = x /\ w \in sending'[h].to
          BY <2>2, <4>1, <4>3
        <5>2. Sends(w, id)'
          BY <4>1, <5>1
        <5> QED BY <5>2
      <4> QED BY <4>2, <4>3
    <3> QED BY <3>2, <3>3
  <2> QED BY <2>2, <2>5, <2>6
<1>8. CASE C!Copy
  <2>1. /\ broadcast # <<>> /\ writing = None /\ writing' # None
        /\ writing'.line = Head(broadcast) /\ writing'.to = C!sessions
        /\ broadcast' = Tail(broadcast)
        /\ UNCHANGED <<sending, inbox, heard>>
    BY <1>8, CopyIs
  <2>2. Holds(broadcast, id) => Head(broadcast).id = id \/ Holds(broadcast', id)
    BY <1>0, <2>1, HoldsTail
  <2> QED BY <2>1, <2>2
<1>9. CASE \E v \in Windows : C!CopyTo(v)
  <2>1. PICK v \in Windows : C!CopyTo(v)
    BY <1>9
  <2>2. /\ writing.line \in Lines /\ writing' # None
        /\ writing'.line = writing.line /\ writing'.to = writing.to \ {v}
        /\ UNCHANGED <<sending, broadcast, inbox>>
    BY <2>1, CopyToIs
  <2>3. heard'[w] = IF v = w THEN Append(heard[w], writing.line) ELSE heard[w]
    <3>1. CASE v \in C!sessions
      <4>1. \A u \in Windows :
              heard'[u] = IF u = v THEN Append(heard[v], writing.line) ELSE heard[u]
        BY <2>1, <3>1, CopyToIs
      <4> QED BY <4>1
    <3>2. CASE v \notin C!sessions
      BY <2>1, <3>2, CopyToIs
    <3> QED BY <3>1, <3>2
  <2>4. /\ Holds(heard[w], id) => Holds(Append(heard[w], writing.line), id)
        /\ Holds(Append(heard[w], writing.line), writing.line.id)
    BY <1>0, <2>2, HoldsAppend
  <2> QED BY <2>2, <2>3, <2>4
<1>10. CASE \E v \in Windows, i \in C!Inboxes : C!Pass(v, i)
  <2>1. PICK v \in Windows, i \in C!Inboxes : C!Pass(v, i)
    BY <1>10
  <2> DEFINE q == inbox[v][i]
             x == Head(q)
             t == Tail(q)
  <2>2. /\ q \in Seq(Lines) /\ q # <<>> /\ x \in Lines
        /\ \A u \in Windows : heard'[u] = IF u = v THEN Append(heard[v], x) ELSE heard[u]
        /\ \A u \in Windows, j \in C!Inboxes : inbox'[u][j] = IF u = v /\ j = i THEN t ELSE inbox[u][j]
        /\ UNCHANGED <<sending, broadcast, writing>>
    BY <2>1, PassIs
  <2>3. Holds(q, id) => x.id = id \/ Holds(t, id)
    BY <2>2, HoldsTail
  <2>4. /\ Holds(heard[v], id) => Holds(Append(heard[v], x), id)
        /\ Holds(Append(heard[v], x), x.id)
    BY <1>0, <2>2, HoldsAppend
  <2>5. v = w => \A j \in C!Inboxes : Holds(inbox[w][j], id) => Holds(heard'[w], id) \/ Holds(inbox'[w][j], id)
    <3> SUFFICES ASSUME v = w, NEW j \in C!Inboxes, Holds(inbox[w][j], id)
                 PROVE  Holds(heard'[w], id) \/ Holds(inbox'[w][j], id)
      OBVIOUS
    <3>1. CASE j = i
      <4>1. Holds(q, id)
        BY <3>1
      <4> HIDE DEF q, x, t
      <4> QED BY <2>2, <2>3, <2>4, <3>1, <4>1
    <3>2. CASE j # i
      <4> HIDE DEF q, x, t
      <4> QED BY <2>2, <3>2
    <3> QED BY <3>1, <3>2
  <2> HIDE DEF q, x, t
  <2>6. Holds(heard[w], id) => Holds(heard'[w], id)
    BY <2>2, <2>4
  <2>7. v # w => \A j \in C!Inboxes : inbox'[w][j] = inbox[w][j]
    BY <2>2
  <2>8. Arrives(w, id) => Arrives(w, id)' \/ Holds(heard'[w], id)
    BY <2>5, <2>7
  <2> QED BY <2>2, <2>6, <2>8
<1> QED BY <1>1, <1>2, <1>3, <1>4, <1>5, <1>6, <1>7, <1>8, <1>9, <1>10 DEF Moved

LEMMA DeliveredKept ==
  ASSUME ChatTypes, Fresh, Moved, Delivered
  PROVE  Delivered'
<1> SUFFICES ASSUME NEW w \in C!sessions', NEW id \in 1..lines', w \in meant'[id]
             PROVE  There(w, id)'
  <2>1. Delivered' <=> \A w \in C!sessions' : \A id \in 1..lines' : w \in meant'[id] => There(w, id)'
    BY DEF Delivered, Shown, Coming, There, Sends, Copies, Arrives, Holds
  <2> QED BY <2>1
<1>0. w \in Windows /\ \A v \in C!sessions : \A k \in 1..lines : v \in meant[k] => There(v, k)
  BY DeliveredIs DEF C!sessions
<1>1. CASE w \in C!sessions /\ id \in 1..lines /\ w \in meant[id]
  BY <1>0, <1>1, StaysThere
<1>2. CASE \E h \in C!Handlers, channel \in {"global", "proximity", "ping"}, to \in SUBSET Windows :
             Deciding(h, channel, to)
  <2>1. PICK h \in C!Handlers, channel \in {"global", "proximity", "ping"}, to \in SUBSET Windows :
             Deciding(h, channel, to)
    BY <1>2
  <2>2. /\ sending'[h] # None /\ sending'[h].line = NewLine(h, channel) /\ sending'[h].to = to
        /\ lines' = lines + 1 /\ meant'[lines + 1] = to
        /\ \A k \in 1..lines : meant'[k] = meant[k]
        /\ window' = window
    BY <2>1, DecideIs DEF Deciding
  <2>3. lines \in Nat /\ w \in C!sessions
    BY <2>2, QueuesAre DEF C!sessions
  <2>4. CASE id = lines + 1
    <3>1. NewLine(h, channel).id = id
      BY <2>4 DEF NewLine
    <3> QED BY <2>2, <2>4, <3>1 DEF There, Sends
  <2>5. CASE id # lines + 1
    <3>1. id \in 1..lines
      BY <2>2, <2>3, <2>5
    <3> QED BY <1>1, <2>2, <2>3, <3>1
  <2> QED BY <2>4, <2>5
<1>3. CASE UNCHANGED <<lines, meant>>
  <2>1. CASE w \in C!sessions
    BY <1>1, <1>3, <2>1
  <2>2. CASE w \notin C!sessions
    <3>1. window[w] = "new"
      <4>1. CASE \E v \in Windows : C!Connect(v)
        BY <2>2, <4>1, ConnectIs
      <4>2. CASE \E v \in Windows : C!Close(v)
        BY <2>2, <4>2, CloseIs
      <4>3. CASE C!sessions' = C!sessions
        BY <2>2, <4>3
      <4>4. CASE window' = window
        BY <2>2, <4>4 DEF C!sessions
      <4>5. \/ \E v \in Windows : C!Connect(v)
            \/ \E v \in Windows : C!Close(v)
            \/ C!sessions' = C!sessions
            \/ window' = window
        BY BroadcastIs, SendToIs, CopyIs, CopyToIs, PassIs, DecideIs
           DEF Moved, Quiet, Deciding, C!Copied, C!worldVars
      <4> QED BY <4>1, <4>2, <4>3, <4>4, <4>5
    <3> QED BY <1>0, <1>3, <3>1 DEF Fresh
  <2> QED BY <2>1, <2>2
<1> QED
  <2>1. \/ UNCHANGED <<lines, meant>>
        \/ \E h \in C!Handlers, channel \in {"global", "proximity", "ping"}, to \in SUBSET Windows :
             Deciding(h, channel, to)
    BY ConnectIs, CloseIs, BroadcastIs, SendToIs, CopyIs, CopyToIs, PassIs
       DEF Moved, Quiet, C!Copied, C!worldVars
  <2> QED BY <1>2, <1>3, <2>1

-----------------------------------------------------------------------------
(* Conversations.                                                          *)

LEMMA ChatInvInit == C!Init => ChatInv
<1> SUFFICES ASSUME C!Init PROVE ChatInv
  OBVIOUS
<1>1. ChatTypes /\ Fresh
  BY ChatTypesInit
<1>2. /\ lines = 0 /\ writing = None /\ broadcast = <<>>
      /\ \A h \in C!Handlers : sending[h] = None
      /\ \A w \in Windows : heard[w] = <<>>
      /\ \A w \in Windows, i \in C!Inboxes : inbox[w][i] = <<>>
  BY DEF C!Init
<1>3. \A n \in 1..Len(<<>>) : FALSE
  BY EmptyIs
<1>4. Routes
  BY <1>2, <1>3 DEF Routes
<1>5. Order /\ Behind
  BY <1>2, <1>3, EmptySorted DEF Order, Behind
<1>6. Agree /\ Latest
  BY <1>2, <1>3 DEF Agree, Latest, Before
<1>7. Delivered
  <2>1. 1..lines = {}
    BY <1>2
  <2> QED BY <2>1 DEF Delivered
<1> QED BY <1>1, <1>4, <1>5, <1>6, <1>7 DEF ChatInv

LEMMA ChatInvKept == ChatInv /\ [C!Next]_(C!vars) => ChatInv'
<1> SUFFICES ASSUME ChatInv, [C!Next]_(C!vars) PROVE ChatInv'
  OBVIOUS
<1>1. ChatTypes /\ Fresh /\ Routes /\ Order /\ Behind /\ Agree /\ Latest /\ Delivered
  BY DEF ChatInv
<1>2. ChatTypes' /\ Fresh' /\ Moved
  BY <1>1, NextMoves
<1> QED BY <1>1, <1>2, RoutesKept, OrderKept, AgreeKept, DeliveredKept DEF ChatInv

LEMMA ChatInvHolds == C!Spec => []ChatInv
BY ChatInvInit, ChatInvKept, PTL DEF C!Spec

\* The parts of the promise.
LEMMA OneOrderHolds == ChatInv => C!OneOrder
<1> SUFFICES ASSUME ChatInv, NEW v \in Windows, NEW w \in Windows,
                    NEW m \in DOMAIN heard[w], NEW n \in DOMAIN heard[w], m < n,
                    heard[w][m].channel = "global", heard[w][n].channel = "global",
                    C!Earlier(v, heard[w][n], heard[w][m])
             PROVE  FALSE
  BY DEF C!OneOrder
<1>1. heard[v] \in Seq(Lines) /\ heard[w] \in Seq(Lines)
  BY QueuesAre DEF ChatInv
<1>2. DOMAIN heard[v] = 1..Len(heard[v]) /\ DOMAIN heard[w] = 1..Len(heard[w])
  BY <1>1
<1>3. heard[w][m] \in Global /\ heard[w][n] \in Global
  BY <1>1, <1>2 DEF Global
<1>4. Before(heard[w], heard[w][m], heard[w][n]) /\ Before(heard[v], heard[w][n], heard[w][m])
  BY <1>2 DEF Before, C!Earlier
<1> QED BY <1>3, <1>4 DEF ChatInv, Agree

LEMMA InOrderHolds == ChatInv => C!InOrder
<1> SUFFICES ASSUME ChatInv, NEW w \in Windows,
                    NEW m \in DOMAIN heard[w], NEW n \in DOMAIN heard[w], m < n,
                    heard[w][m].channel = heard[w][n].channel, heard[w][m].by = heard[w][n].by
             PROVE  heard[w][m].id < heard[w][n].id
  BY DEF C!InOrder
<1>1. heard[w] \in Seq(Lines) /\ Sorted(heard[w])
  BY QueuesAre DEF ChatInv, Order
<1>2. DOMAIN heard[w] = 1..Len(heard[w])
  BY <1>1
<1> QED BY <1>1, <1>2 DEF Sorted, Older

LEMMA PrivateHolds == ChatInv => C!Private
<1> SUFFICES ASSUME ChatInv, NEW w \in Windows, NEW n \in DOMAIN heard[w],
                    heard[w][n].channel # "global"
             PROVE  w \in meant[heard[w][n].id]
  BY DEF C!Private
<1>1. heard[w] \in Seq(Lines)
  BY QueuesAre DEF ChatInv
<1>2. DOMAIN heard[w] = 1..Len(heard[w])
  BY <1>1
<1> QED BY <1>2 DEF ChatInv, Routes, For

LEMMA CompleteHolds == ChatInv => C!Complete
<1> SUFFICES ASSUME ChatInv, C!AtRest, NEW w \in C!sessions, NEW id \in DOMAIN meant, w \in meant[id]
             PROVE  \E n \in DOMAIN heard[w] : heard[w][n].id = id
  BY DEF C!Complete
<1>1. /\ w \in Windows /\ heard[w] \in Seq(Lines) /\ meant \in Seq(SUBSET Windows) /\ lines = Len(meant)
  BY QueuesAre DEF ChatInv, ChatTypes, C!sessions
<1>2. DOMAIN heard[w] = 1..Len(heard[w]) /\ DOMAIN meant = 1..lines
  BY <1>1
<1>3. There(w, id)
  BY <1>2, DeliveredIs DEF ChatInv
<1>4. \A n \in 1..Len(<<>>) : FALSE
  BY EmptyIs
<1>5. Holds(heard[w], id)
  BY <1>1, <1>3, <1>4 DEF There, Sends, Copies, Arrives, Holds, C!AtRest
<1> QED BY <1>2, <1>5 DEF Holds

\* All who take part in a conversation see it alike, for any number of windows
\* and lines: one order of the global lines, each handler's lines in the order
\* it handled them, nothing for others, and, at rest, nothing missing (handleChat,
\* subscribeAdminChat, subscribeClientPing and the pusher's fan-out).
THEOREM ConversationsAlwaysAgree == C!Spec => []ConversationsAgree
<1>1. ChatInv => ConversationsAgree
  BY OneOrderHolds, InOrderHolds, PrivateHolds, CompleteHolds DEF ConversationsAgree, C!ConversationsAgree
<1> QED BY <1>1, ChatInvHolds, PTL

-----------------------------------------------------------------------------
(* Walking.                                                                *)

\* A map that has tiles.
Sized == map.width \in Nat \ {0} /\ map.height \in Nat \ {0}

LEMMA TilesAre ==
  ASSUME Sized, NEW t \in M!Tiles
  PROVE  /\ t = <<t[1], t[2]>> /\ t[1] \in 0..(map.width - 1) /\ t[2] \in 0..(map.height - 1)
         /\ M!Ring(t) \in Nat
<1>1. t = <<t[1], t[2]>> /\ t[1] \in 0..(map.width - 1) /\ t[2] \in 0..(map.height - 1)
  BY DEF M!Tiles
<1>2. map.width \div 2 \in Nat /\ map.height \div 2 \in Nat
  BY DEF Sized
<1>3. M!Center[1] \in Nat /\ M!Center[2] \in Nat
  BY <1>2 DEF M!Center
<1>4. M!Away(t[1] - M!Center[1]) \in Nat /\ M!Away(t[2] - M!Center[2]) \in Nat
  BY <1>1, <1>3 DEF M!Away, Sized
<1>5. M!Ring(t) \in Nat
  BY <1>4 DEF M!Ring
<1> QED BY <1>1, <1>5

\* The first free tile of the smallest square exists.
LEMMA FirstTileExists ==
  ASSUME Sized, M!Free # {}
  PROVE  \E t \in M!Free : \A s \in M!Free \ {t} : M!Before(t, s)
<1>0. ASSUME NEW t \in M!Free
      PROVE  /\ t = <<t[1], t[2]>> /\ t[1] \in Nat /\ t[2] \in Nat /\ M!Ring(t) \in Nat
  <2>1. t \in M!Tiles
    BY DEF M!Free
  <2> QED BY <2>1, TilesAre DEF Sized
<1> DEFINE rings == {M!Ring(t) : t \in M!Free}
<1>1. PICK r \in rings : \A x \in rings : r <= x
  BY <1>0, LeastExists
<1> DEFINE rows == {t[2] : t \in {t \in M!Free : M!Ring(t) = r}}
<1>2. PICK y \in rows : \A x \in rows : y <= x
  BY <1>0, <1>1, LeastExists
<1> DEFINE cols == {t[1] : t \in {t \in M!Free : M!Ring(t) = r /\ t[2] = y}}
<1>3. PICK x \in cols : \A z \in cols : x <= z
  BY <1>0, <1>1, <1>2, LeastExists
<1>4. PICK t \in M!Free : M!Ring(t) = r /\ t[2] = y /\ t[1] = x
  BY <1>3
<1>5. ASSUME NEW s \in M!Free, s # t PROVE M!Before(t, s)
  <2>1. M!Ring(s) \in rings /\ r <= M!Ring(s)
    BY <1>1
  <2>2. M!Ring(s) = r => y <= s[2]
    BY <1>2
  <2>3. M!Ring(s) = r /\ s[2] = y => x <= s[1]
    BY <1>3
  <2>4. s[1] # x \/ s[2] # y
    BY <1>0, <1>4, <1>5
  <2> HIDE DEF rings, rows, cols
  <2>5. /\ r \in Nat /\ y \in Nat /\ x \in Nat
        /\ s[1] \in Nat /\ s[2] \in Nat /\ M!Ring(s) \in Nat
    BY <1>0, <1>4
  <2> QED BY <1>4, <2>1, <2>2, <2>3, <2>4, <2>5 DEF M!Before
<1> QED BY <1>5

LEMMA SpawnsAre == ASSUME Sized PROVE M!FindSpawnPoint \subseteq Int \X Int
<1>1. M!FindSpawn \in M!Tiles
  <2>1. CASE M!Free = {}
    <3>1. map.width \div 2 \in 0..(map.width - 1) /\ map.height \div 2 \in 0..(map.height - 1)
      BY DEF Sized
    <3> QED BY <2>1, <3>1 DEF M!FindSpawn, M!Center, M!Tiles
  <2>2. CASE M!Free # {}
    <3>1. M!FindSpawn \in M!Free
      BY <2>2, FirstTileExists DEF M!FindSpawn
    <3> QED BY <3>1 DEF M!Free
  <2> QED BY <2>1, <2>2
<1>2. \A z : M!walkableTilesInZone(z) \subseteq M!Tiles
  BY DEF M!walkableTilesInZone, M!Free
<1>3. \A p \in M!FindSpawnPoint : \E t \in M!Tiles : p = M!Corner(t)
  BY <1>1, <1>2 DEF M!FindSpawnPoint
<1>4. \A t \in M!Tiles : M!Corner(t) \in Int \X Int
  BY TilesAre DEF M!Corner, M!Tile, Sized
<1> QED BY <1>3, <1>4

LEMMA SizedHolds == ASSUME map \in Layouts PROVE Sized
BY LayoutsAssumption DEF Sized

LEMMA ArrivalsAre == map \in Layouts => M!Arrivals \subseteq Int \X Int
BY LayoutsAssumption, SizedHolds, SpawnsAre DEF M!Arrivals

\* The inductive invariant of walking.
Walking == map \in Layouts /\ position \in Int \X Int /\ closed \subseteq map.gates

LEMMA Clamped ==
  ASSUME NEW v \in Int, NEW hi \in Nat PROVE M!Clamp(v, 0, hi) \in 0..hi
BY DEF M!Clamp

LEMMA Products ==
  ASSUME NEW n \in Nat \ {0} PROVE (n - 1) * 50 \in Nat /\ (n - 1) * 50 <= n * 50
OBVIOUS

\* How far a tick goes along one axis of a map of n tiles: no further than is
\* tested, but from outside the map onto its border.
Near(a, b, n) == /\ b \in Nat /\ b <= (n - 1) * 50
                 /\ b > a => b <= a + 20 \/ b = 0
                 /\ b < a => a <= b + 20 \/ b = (n - 1) * 50

LEMMA ShortStep ==
  ASSUME NEW v \in Int, NEW n \in Nat \ {0}, NEW d \in -20..20
  PROVE  Near(v, M!Clamp(v + d, 0, (n - 1) * 50), n)
BY DEF M!Clamp, Near

LEMMA WantedIsNear ==
  ASSUME Walking, NEW input \in M!Inputs
  PROVE  LET new == M!Wanted(position, input) IN
         /\ new \in Int \X Int
         /\ Near(position[1], new[1], map.width)
<1> DEFINE step == IF input[1] # 0 /\ input[2] # 0 THEN M!DiagonalSpeed ELSE M!Speed
           x == M!Clamp(position[1] + input[1] * step, 0, (map.width - 1) * 50)
           y == M!Clamp(position[2] + input[2] * step, 0, (map.height - 1) * 50)
<1>1. input[1] * step \in -20..20 /\ input[2] * step \in -20..20
  BY DEF M!Inputs, M!DiagonalSpeed, M!Speed
<1>2. position[1] \in Int /\ position[2] \in Int
  BY DEF Walking
<1>3. map.width \in Nat \ {0} /\ map.height \in Nat \ {0}
  BY SizedHolds DEF Walking, Sized
<1>4. M!Wanted(position, input) = <<x, y>>
  BY DEF M!Wanted, M!Tile
<1> HIDE DEF step
<1>5. Near(position[1], x, map.width) /\ Near(position[2], y, map.height)
  BY <1>1, <1>2, <1>3, ShortStep
<1>6. x \in Int /\ y \in Int
  BY <1>5 DEF Near
<1> HIDE DEF x, y
<1> QED BY <1>4, <1>5, <1>6

\* Each axis is walked or not.
LEMMA WalkedIs ==
  ASSUME NEW p, NEW input, p = <<p[1], p[2]>>
  PROVE  \E x \in {p[1], M!Wanted(p, input)[1]}, y \in {p[2], M!Wanted(p, input)[2]} :
           M!Walked(p, input) = <<x, y>>
BY DEF M!Walked

LEMMA WalkedOnPoints ==
  ASSUME Walking, NEW input \in M!Inputs
  PROVE  M!Walked(position, input) \in Int \X Int
<1>1. position = <<position[1], position[2]>> /\ position[1] \in Int /\ position[2] \in Int
  BY DEF Walking
<1>2. M!Wanted(position, input)[1] \in Int /\ M!Wanted(position, input)[2] \in Int
  BY WantedIsNear
<1>3. PICK x \in {position[1], M!Wanted(position, input)[1]},
           y \in {position[2], M!Wanted(position, input)[2]} : M!Walked(position, input) = <<x, y>>
  BY <1>1, WalkedIs
<1> QED BY <1>1, <1>2, <1>3

LEMMA WalkingInit == ASSUME M!Init PROVE Walking
<1>1. map \in Layouts /\ closed \subseteq map.gates /\ position \in M!Arrivals
  BY DEF M!Init
<1> QED BY <1>1, ArrivalsAre DEF Walking

LEMMA WalkingKept == Walking /\ [M!Next]_(M!vars) => Walking'
<1>0. (map \in Layouts => M!Arrivals \subseteq Int \X Int)'
  BY ArrivalsAre, PTL
<1> SUFFICES ASSUME Walking, [M!Next]_(M!vars) PROVE Walking'
  OBVIOUS
<1>1. ASSUME NEW input \in M!Inputs, M!Step(input) PROVE Walking'
  BY <1>1, WalkedOnPoints DEF M!Step, Walking
<1>2. ASSUME NEW z \in map.gates, M!Toggle(z) PROVE Walking'
  BY <1>2 DEF M!Toggle, Walking
<1>3. ASSUME NEW m \in Layouts, M!Arrive(m) PROVE Walking'
  BY <1>0, <1>3 DEF M!Arrive, Walking
<1>4. ASSUME NEW m \in Layouts, M!Reload(m) PROVE Walking'
  BY <1>4 DEF M!Reload, Walking
<1>5. CASE UNCHANGED M!vars
  BY <1>5 DEF M!vars, Walking
<1> QED BY <1>1, <1>2, <1>3, <1>4, <1>5 DEF M!Next

LEMMA WalkingHolds == M!Spec => []Walking
<1>1. M!Init => Walking
  BY WalkingInit
<1> QED BY <1>1, WalkingKept, PTL DEF M!Spec

\* On the way along x the feet come onto no other tile than those that are tested.
LEMMA TriedToTheRight ==
  ASSUME NEW a \in Int, NEW b \in Nat, a < b, b <= a + 20 \/ b = 0, M!TileOf(a + 25) \in Nat
  PROVE  M!TileOf(b) = M!TileOf(a + 25) \/ M!TileOf(b) = M!TileOf(a)
<1>1. CASE a >= 0
  <2>1. b \div 50 = (a + 25) \div 50 \/ b \div 50 = a \div 50
    BY <1>1
  <2> QED BY <1>1, <2>1 DEF M!TileOf, M!Tile
<1>2. CASE a < 0
  <2>1. b < 20 /\ b \div 50 = 0
    BY <1>2
  <2>2. a + 25 >= 0 => (a + 25) \div 50 = 0
    BY <1>2
  <2>3. a + 25 < 0 => -(a + 25) < 50
    <3> SUFFICES ASSUME a + 25 < 0, -(a + 25) >= 50 PROVE FALSE
      OBVIOUS
    <3>1. (-(a + 25)) \div 50 >= 1
      OBVIOUS
    <3> QED BY <3>1 DEF M!TileOf, M!Tile
  <2>4. a + 25 < 0 => (-(a + 25)) \div 50 = 0
    BY <2>3
  <2> QED BY <2>1, <2>2, <2>4 DEF M!TileOf, M!Tile
<1> QED BY <1>1, <1>2

LEMMA TriedToTheLeft ==
  ASSUME NEW a \in Int, NEW b \in Nat, NEW n \in Nat \ {0}, b < a,
         a <= b + 20 \/ b = (n - 1) * 50, M!TileOf(a - 25) <= n - 1
  PROVE  M!TileOf(b) = M!TileOf(a - 25) \/ M!TileOf(b) = M!TileOf(a)
<1>1. CASE a < 25
  <2>1. b \div 50 = 0 /\ (-(a - 25)) \div 50 = 0
    BY <1>1
  <2> QED BY <1>1, <2>1 DEF M!TileOf, M!Tile
<1>2. CASE a >= 25 /\ a <= b + 20
  <2>1. b \div 50 = (a - 25) \div 50 \/ b \div 50 = a \div 50
    BY <1>2
  <2> QED BY <1>2, <2>1 DEF M!TileOf, M!Tile
<1>3. CASE a >= 25 /\ b = (n - 1) * 50
  <2>1. (a - 25) \div 50 <= n - 1
    BY <1>3 DEF M!TileOf, M!Tile
  <2>2. a - 25 < n * 50
    BY <2>1
  <2>3. b \div 50 = n - 1
    BY <1>3
  <2>4. CASE a < n * 50
    <3>1. a \div 50 = n - 1
      BY <1>3, <2>4
    <3> QED BY <1>3, <2>3, <3>1 DEF M!TileOf, M!Tile
  <2>5. CASE a >= n * 50
    <3>1. (a - 25) \div 50 = n - 1
      BY <1>3, <2>2, <2>5
    <3> QED BY <1>3, <2>3, <3>1 DEF M!TileOf, M!Tile
  <2> QED BY <2>4, <2>5
<1> QED BY <1>1, <1>2, <1>3

\* A step has been tried as a whole, and its part along y from its part along x.
LEMMA WalkedIsTried ==
  ASSUME NEW p, NEW input, p = <<p[1], p[2]>>, M!Walked(p, input) # p
  PROVE  LET q == M!Walked(p, input)
             new == M!Wanted(p, input)
         IN  /\ q = <<q[1], q[2]>> /\ ~M!isMoveBlocked(p, q)
             /\ \/ q[2] # p[2] /\ ~M!isMoveBlocked(<<q[1], p[2]>>, q)
                \/ q[2] = p[2] /\ q[1] = new[1] /\ q[1] # p[1]
<1> DEFINE new == M!Wanted(p, input)
           alongX == <<IF M!isMoveBlocked(p, <<new[1], p[2]>>) THEN p[1] ELSE new[1], p[2]>>
           alongY == <<alongX[1],
                       IF M!isMoveBlocked(alongX, <<alongX[1], new[2]>>) THEN p[2] ELSE new[2]>>
           q == M!Walked(p, input)
<1>1. q = IF alongY[1] # p[1] /\ alongY[2] # p[2] /\ M!isMoveBlocked(p, alongY)
          THEN alongX ELSE alongY
  BY DEF M!Walked
<1>2. alongX[1] # p[1] => alongX[1] = new[1] /\ ~M!isMoveBlocked(p, alongX)
  OBVIOUS
<1>3. alongY[2] # p[2] => ~M!isMoveBlocked(alongX, alongY)
  OBVIOUS
<1>4. alongX = <<alongX[1], p[2]>> /\ alongY = <<alongX[1], alongY[2]>>
      /\ alongY[1] = alongX[1] /\ alongX[2] = p[2]
  OBVIOUS
<1> HIDE DEF alongX, alongY, q, new
<1>5. CASE q = alongX
  <2>1. alongX[1] # p[1]
    BY <1>4, <1>5 DEF q
  <2> QED BY <1>2, <1>4, <1>5, <2>1 DEF q, new
<1>6. CASE q = alongY /\ alongY[2] = p[2]
  <2>1. alongY = alongX
    BY <1>4, <1>6
  <2> QED BY <1>5, <1>6, <2>1
<1>7. CASE q = alongY /\ alongY[2] # p[2] /\ alongX[1] = p[1]
  <2>1. alongX = p
    BY <1>4, <1>7
  <2> QED BY <1>3, <1>4, <1>7, <2>1 DEF q, new
<1>8. CASE q = alongY /\ alongY[2] # p[2] /\ alongX[1] # p[1] /\ q # alongX
  <2>1. ~M!isMoveBlocked(p, alongY)
    BY <1>1, <1>4, <1>8
  <2> QED BY <1>3, <1>4, <1>8, <2>1 DEF q, new
<1> QED BY <1>1, <1>5, <1>6, <1>7, <1>8

\* Steps do not end on another tile that is blocked.
LEMMA WalkedOntoFreeTiles ==
  ASSUME Walking, NEW input \in M!Inputs, M!Walked(position, input) # position
  PROVE  LET t == M!FeetTile(M!Walked(position, input)) IN
         t = M!FeetTile(position) \/ ~M!IsBlocked(t[1], t[2])
<1> DEFINE p == position
           q == M!Walked(p, input)
           row(r) == M!TileOf(M!Feet(r)[2])
<1>1. /\ p = <<p[1], p[2]>> /\ p[1] \in Int /\ p[2] \in Int
      /\ q = <<q[1], q[2]>> /\ q[1] \in Int /\ q[2] \in Int
  BY WalkedOnPoints DEF Walking
<1>2. ~M!isMoveBlocked(p, q)
  BY <1>1, WalkedIsTried
<1>0. /\ M!FeetTile(q) = <<M!TileOf(q[1]), row(q)>> /\ M!FeetTile(p) = <<M!TileOf(p[1]), row(p)>>
  BY DEF M!FeetTile, M!Feet
<1>3. CASE q[2] # p[2] /\ ~M!isMoveBlocked(<<q[1], p[2]>>, q)
  <2>1. ~M!IsBlocked(M!TileOf(q[1] + 0), row(q))
    BY <1>1, <1>3 DEF M!isMoveBlocked
  <2> QED BY <1>0, <1>1, <2>1
<1>4. CASE q[2] = p[2] /\ q[1] = M!Wanted(p, input)[1] /\ q[1] # p[1]
  <2>0. row(q) = row(p)
    BY <1>4 DEF M!Feet
  <2>1. Near(p[1], q[1], map.width) /\ map.width \in Nat \ {0}
    BY <1>4, WantedIsNear, SizedHolds DEF Walking, Sized
  <2>2. CASE q[1] > p[1]
    <3>1. ~M!IsBlocked(M!TileOf(p[1] + 25), row(p))
      BY <1>2, <2>2 DEF M!isMoveBlocked, M!Tile
    <3>2. M!TileOf(p[1] + 25) \in Nat
      BY <3>1 DEF M!IsBlocked
    <3>3. M!TileOf(q[1]) = M!TileOf(p[1] + 25) \/ M!TileOf(q[1]) = M!TileOf(p[1])
      <4> HIDE DEF p, q
      <4>1. q[1] \in Nat /\ p[1] < q[1] /\ (q[1] <= p[1] + 20 \/ q[1] = 0)
        BY <1>1, <2>1, <2>2 DEF Near
      <4> QED BY <1>1, <3>2, <4>1, TriedToTheRight
    <3> QED BY <1>0, <2>0, <3>1, <3>3
  <2>3. CASE q[1] < p[1]
    <3>1. ~M!IsBlocked(M!TileOf(p[1] + (-25)), row(p))
      BY <1>1, <1>2, <2>3 DEF M!isMoveBlocked, M!Tile
    <3>2. p[1] + (-25) = p[1] - 25
      BY <1>1
    <3>3. M!TileOf(p[1] - 25) <= map.width - 1
      BY <2>1, <3>1, <3>2 DEF M!IsBlocked
    <3>4. M!TileOf(q[1]) = M!TileOf(p[1] - 25) \/ M!TileOf(q[1]) = M!TileOf(p[1])
      <4> HIDE DEF p, q
      <4>1. q[1] \in Nat /\ q[1] < p[1] /\ (p[1] <= q[1] + 20 \/ q[1] = (map.width - 1) * 50)
        BY <1>1, <2>1, <2>3 DEF Near
      <4> QED BY <1>1, <2>1, <3>3, <4>1, TriedToTheLeft
    <3> QED BY <1>0, <2>0, <3>1, <3>2, <3>4
  <2>4. q[1] > p[1] \/ q[1] < p[1]
    <3> HIDE DEF p, q
    <3> QED BY <1>1, <1>4
  <2> QED BY <2>2, <2>3, <2>4
<1> QED BY <1>1, <1>3, <1>4, WalkedIsTried

-----------------------------------------------------------------------------
(* A way that touches a circle.  The closest point of the way is rounded,  *)
(* and so is the point that is inside; the player's radius makes up for it. *)

LEMMA Quotient ==
  ASSUME NEW n \in Int, NEW l \in Nat \ {0}
  PROVE  n \div l \in Int /\ l * (n \div l) <= n /\ n <= l * (n \div l) + l
OBVIOUS

LEMMA SquareIsNat == ASSUME NEW a \in Int PROVE a * a \in Nat
OBVIOUS

LEMMA SameSigns ==
  ASSUME NEW a \in Int, NEW b \in Int, (a >= 0 /\ b >= 0) \/ (a <= 0 /\ b <= 0)
  PROVE  a * b \in Nat
OBVIOUS

LEMMA RootBound ==
  ASSUME NEW a \in Int, NEW r \in Nat, a * a <= r * r PROVE a <= r /\ -a <= r
<1>1. ASSUME NEW b \in Int, b > r PROVE b * b > r * r
  <2>1. (b - r) * (b - r) \in Nat /\ r * (b - r) \in Nat
    BY <1>1, SquareIsNat, SameSigns
  <2>2. b * b = r * r + 2 * (r * (b - r)) + (b - r) * (b - r)
    BY <1>1
  <2>3. (b - r) * (b - r) > 0
    BY <1>1
  <2>4. b * b \in Int /\ r * r \in Int
    BY <1>1
  <2> QED BY <2>1, <2>2, <2>3, <2>4
<1>2. (-a) * (-a) = a * a
  OBVIOUS
<1> QED BY <1>1, <1>2

\* Of the points a + (x / l) * d of a way, x in 0..l, the one at x = t is the
\* closest to the origin.
Closest(a1, a2, d1, d2, l, t) ==
  LET s == -(a1 * d1 + a2 * d2) IN
  /\ l = d1 * d1 + d2 * d2
  /\ t = IF s < 0 THEN 0 ELSE IF s > l THEN l ELSE s

\* It is no farther than the point at k tenths, both scaled by 10 * l.
LEMMA Nearer ==
  ASSUME NEW a1 \in Int, NEW a2 \in Int, NEW d1 \in Int, NEW d2 \in Int, NEW l \in Nat,
         NEW t \in Int, NEW k \in 0..10, Closest(a1, a2, d1, d2, l, t)
  PROVE  100 * ((l * a1 + t * d1) * (l * a1 + t * d1) + (l * a2 + t * d2) * (l * a2 + t * d2)) <=
           (l * (10 * a1 + k * d1)) * (l * (10 * a1 + k * d1))
             + (l * (10 * a2 + k * d2)) * (l * (10 * a2 + k * d2))
<1> SUFFICES ASSUME NEW s \in Int, s = -(a1 * d1 + a2 * d2), l = d1 * d1 + d2 * d2,
                    t = IF s < 0 THEN 0 ELSE IF s > l THEN l ELSE s,
                    NEW w1 \in Int, w1 = l * a1 + t * d1, NEW w2 \in Int, w2 = l * a2 + t * d2,
                    NEW u1 \in Int, u1 = 10 * a1 + k * d1, NEW u2 \in Int, u2 = 10 * a2 + k * d2
             PROVE  100 * (w1 * w1 + w2 * w2) <= (l * u1) * (l * u1) + (l * u2) * (l * u2)
  BY DEF Closest
<1> DEFINE m == l * k - 10 * t
           g == 20 * (t - s) + m
           y1 == m * d1
           y2 == m * d2
<1>1. m \in Int /\ g \in Int /\ y1 \in Int /\ y2 \in Int
  OBVIOUS
<1>2. m * g \in Nat
  <2>1. CASE s < 0
    <3>1. m = l * k /\ l * k \in Nat
      BY <2>1
    <3>2. m >= 0 /\ g >= 0
      BY <2>1, <3>1
    <3> HIDE DEF m, g
    <3> QED BY <1>1, <3>2, SameSigns
  <2>2. CASE ~(s < 0) /\ s > l
    <3>1. t = l
      BY <2>2
    <3>2. l * (10 - k) \in Nat /\ m = -(l * (10 - k))
      BY <3>1, SameSigns
    <3>3. m <= 0 /\ g <= 0
      BY <2>2, <3>1, <3>2
    <3> HIDE DEF m, g
    <3> QED BY <1>1, <3>3, SameSigns
  <2>3. CASE ~(s < 0) /\ ~(s > l)
    <3>1. g = m
      BY <2>3
    <3> HIDE DEF m, g
    <3> QED BY <1>1, <3>1, SquareIsNat
  <2> QED BY <2>1, <2>2, <2>3
<1>3. l * u1 = 10 * w1 + y1 /\ l * u2 = 10 * w2 + y2
  OBVIOUS
<1>4. w1 * d1 + w2 * d2 = l * (t - s)
  OBVIOUS
<1>5. y1 * y1 + y2 * y2 = m * (m * l)
  <2> HIDE DEF m
  <2> QED BY <1>1
<1>6. w1 * y1 + w2 * y2 = m * (l * (t - s))
  <2>1. w1 * y1 + w2 * y2 = m * (w1 * d1 + w2 * d2)
    <3> HIDE DEF m
    <3> QED BY <1>1
  <2> HIDE DEF m
  <2> QED BY <1>4, <2>1
<1>7. (l * u1) * (l * u1) = 100 * (w1 * w1) + 20 * (w1 * y1) + y1 * y1
  <2> HIDE DEF y1
  <2> QED BY <1>1, <1>3
<1>8. (l * u2) * (l * u2) = 100 * (w2 * w2) + 20 * (w2 * y2) + y2 * y2
  <2> HIDE DEF y2
  <2> QED BY <1>1, <1>3
<1>9. 20 * (m * (l * (t - s))) + m * (m * l) = (m * g) * l
  <2>1. m * (m * l) = (m * m) * l /\ m * (l * (t - s)) = (m * (t - s)) * l
    <3> HIDE DEF m
    <3> QED BY <1>1
  <2>2. m * g = 20 * (m * (t - s)) + m * m
    <3> HIDE DEF m
    <3> QED BY <1>1
  <2> HIDE DEF m, g
  <2> QED BY <1>1, <2>1, <2>2
<1>10. (m * g) * l \in Nat
  <2> HIDE DEF m, g
  <2> QED BY <1>1, <1>2, SameSigns
<1>11. /\ w1 * w1 \in Int /\ w2 * w2 \in Int /\ w1 * y1 \in Int /\ w2 * y2 \in Int
       /\ y1 * y1 \in Int /\ y2 * y2 \in Int
  <2> HIDE DEF y1, y2
  <2> QED BY <1>1
<1> HIDE DEF m, g, y1, y2
<1>12. m * (l * (t - s)) \in Int /\ m * (m * l) \in Int
  BY <1>1
<1> QED BY <1>5, <1>6, <1>7, <1>8, <1>9, <1>10, <1>11, <1>12

LEMMA Times ==
  ASSUME NEW a \in Int, NEW b \in Int, a <= b, NEW c \in Nat PROVE c * a <= c * b
OBVIOUS

LEMMA Cancel ==
  ASSUME NEW a \in Int, NEW b \in Int, NEW n \in Nat \ {0}, n * a <= n * b PROVE a <= b
<1>1. SUFFICES ASSUME b < a PROVE FALSE
  OBVIOUS
<1>2. n * (a - b) = n * a - n * b /\ n * a \in Int /\ n * b \in Int
  OBVIOUS
<1>3. n * (a - b) > 0
  BY <1>1
<1> QED BY <1>2, <1>3

\* b is u / 10 rounded down, and at most r.
LEMMA TenfoldSquare ==
  ASSUME NEW r \in Nat, NEW b \in Int, -r <= b, b <= r, NEW u \in Int, 10 * b <= u, u <= 10 * b + 10
  PROVE  u * u <= 100 * (b * b) + 200 * r + 100
<1> DEFINE e == u - 10 * b
<1>1. e \in 0..10 /\ u = 10 * b + e
  OBVIOUS
<1>2. u * u = 100 * (b * b) + 20 * (b * e) + e * e
  OBVIOUS
<1> HIDE DEF e
<1>3. e * b <= e * r
  BY <1>1, Times
<1>4. r * e <= r * 10
  BY <1>1, Times
<1>5. e * e <= e * 10
  BY <1>1, Times
<1>6. /\ e * b = b * e /\ e * r = r * e /\ b * e \in Int /\ e * r \in Int /\ e * e \in Int
      /\ b * b \in Int /\ u * u \in Int
  BY <1>1
<1> QED BY <1>1, <1>2, <1>3, <1>4, <1>5, <1>6

\* o is w / l rounded down, and w / l at most r + 2.
LEMMA RoundedSquare ==
  ASSUME NEW r \in Nat, NEW l \in Nat, NEW o \in Int, NEW w \in Int,
         l * o <= w, w <= l * o + l, -(l * (r + 2)) <= w, w <= l * (r + 2)
  PROVE  (l * l) * (o * o) <= w * w + (l * l) * (2 * r + 5)
<1> DEFINE p == l * o
           f == w - p
           h == l * (r + 2)
<1>1. p \in Int /\ h \in Nat
  BY SameSigns
<1>2. f \in 0..l /\ p = w - f
  BY <1>1
<1>3. p * p = (l * l) * (o * o)
  OBVIOUS
<1> HIDE DEF p
<1>4. p * p = w * w - 2 * (w * f) + f * f
  BY <1>1
<1> HIDE DEF f
<1>5. f * (-w) <= f * h
  <2>1. -w \in Int /\ -w <= h
    BY <1>1
  <2> HIDE DEF h
  <2> QED BY <1>1, <1>2, <2>1, Times
<1>6. h * f <= h * l
  <2> HIDE DEF h
  <2> QED BY <1>1, <1>2, Times
<1>7. f * f <= f * l /\ l * f <= l * l
  BY <1>2, Times
<1>8. h * l = (l * l) * r + 2 * (l * l)
  OBVIOUS
<1>9. (l * l) * (2 * r + 5) = 2 * ((l * l) * r) + 5 * (l * l)
  OBVIOUS
<1> HIDE DEF h
<1>10. /\ f * (-w) = -(w * f) /\ f * h = h * f /\ f * l = l * f
       /\ w * f \in Int /\ h * f \in Int /\ h * l \in Int /\ f * f \in Int /\ l * f \in Int
       /\ l * l \in Int /\ (l * l) * r \in Int /\ w * w \in Int
  BY <1>1, <1>2
<1>11. p * p <= w * w + 2 * (h * l) + l * l
  BY <1>4, <1>5, <1>6, <1>7, <1>10
<1> QED BY <1>3, <1>8, <1>9, <1>10, <1>11

\* If the rounded point at k tenths is within r of the origin, then the rounded
\* closest point is within r + 5.
LEMMA ClosestRounded ==
  ASSUME NEW a1 \in Int, NEW a2 \in Int, NEW d1 \in Int, NEW d2 \in Int, NEW l \in Nat \ {0},
         NEW t \in Int, NEW k \in 0..10, NEW r \in Nat,
         Closest(a1, a2, d1, d2, l, t),
         NEW b1 \in Int, NEW b2 \in Int, b1 = a1 + (k * d1) \div 10, b2 = a2 + (k * d2) \div 10,
         b1 * b1 + b2 * b2 <= r * r,
         NEW o1 \in Int, NEW o2 \in Int, o1 = a1 + (t * d1) \div l, o2 = a2 + (t * d2) \div l
  PROVE  o1 * o1 + o2 * o2 <= (r + 5) * (r + 5)
<1> DEFINE w1 == l * a1 + t * d1
           w2 == l * a2 + t * d2
           u1 == 10 * a1 + k * d1
           u2 == 10 * a2 + k * d2
           n == l * l
           bound == 100 * (r * r) + 400 * r + 200
<1>1. w1 \in Int /\ w2 \in Int /\ u1 \in Int /\ u2 \in Int /\ n \in Nat \ {0} /\ bound \in Nat
  <2>1. n > 0
    OBVIOUS
  <2>2. r * r \in Nat
    BY SquareIsNat
  <2> QED BY <2>1, <2>2
<1>2. 100 * (w1 * w1 + w2 * w2) <= (l * u1) * (l * u1) + (l * u2) * (l * u2)
  BY Nearer
<1>3. /\ 10 * b1 <= u1 /\ u1 <= 10 * b1 + 10
      /\ 10 * b2 <= u2 /\ u2 <= 10 * b2 + 10
  <2>1. ASSUME NEW a \in Int, NEW m \in Int, NEW b \in Int, b = a + m \div 10
        PROVE  10 * b <= 10 * a + m /\ 10 * a + m <= 10 * b + 10
    BY <2>1
  <2>2. k * d1 \in Int /\ k * d2 \in Int
    OBVIOUS
  <2> QED BY <2>1, <2>2
<1>4. /\ l * o1 <= w1 /\ w1 <= l * o1 + l
      /\ l * o2 <= w2 /\ w2 <= l * o2 + l
  <2>1. ASSUME NEW a \in Int, NEW m \in Int, NEW o \in Int, o = a + m \div l
        PROVE  l * o <= l * a + m /\ l * a + m <= l * o + l
    <3>1. l * (m \div l) <= m /\ m <= l * (m \div l) + l /\ m \div l \in Int
      BY Quotient
    <3>2. ASSUME NEW q \in Int PROVE l * (a + q) = l * a + l * q /\ l * a \in Int /\ l * q \in Int
      OBVIOUS
    <3> QED BY <2>1, <3>1, <3>2
  <2>2. t * d1 \in Int /\ t * d2 \in Int
    OBVIOUS
  <2> QED BY <2>1, <2>2
<1>5. -r <= b1 /\ b1 <= r /\ -r <= b2 /\ b2 <= r
  <2>1. b1 * b1 \in Nat /\ b2 * b2 \in Nat /\ r * r \in Nat
    BY SquareIsNat
  <2>2. b1 * b1 <= r * r /\ b2 * b2 <= r * r
    BY <2>1
  <2>3. b1 <= r /\ -b1 <= r /\ b2 <= r /\ -b2 <= r
    BY <2>2, RootBound
  <2> QED BY <2>3
<1> HIDE DEF w1, w2, u1, u2, n
<1>6. u1 * u1 + u2 * u2 <= bound
  <2>1. u1 * u1 <= 100 * (b1 * b1) + 200 * r + 100
    BY <1>1, <1>3, <1>5, TenfoldSquare
  <2>2. u2 * u2 <= 100 * (b2 * b2) + 200 * r + 100
    BY <1>1, <1>3, <1>5, TenfoldSquare
  <2>3. b1 * b1 \in Nat /\ b2 * b2 \in Nat /\ r * r \in Nat /\ u1 * u1 \in Nat /\ u2 * u2 \in Nat
    BY <1>1, SquareIsNat
  <2> QED BY <2>1, <2>2, <2>3
<1>7. 100 * (w1 * w1 + w2 * w2) <= n * bound
  <2>1. (l * u1) * (l * u1) + (l * u2) * (l * u2) = n * (u1 * u1 + u2 * u2)
    BY <1>1 DEF n
  <2>2. u1 * u1 + u2 * u2 \in Int
    BY <1>1
  <2> HIDE DEF bound
  <2>3. n * (u1 * u1 + u2 * u2) <= n * bound
    BY <1>1, <1>6, <2>2, Times
  <2>4. w1 * w1 + w2 * w2 \in Int /\ n * bound \in Int /\ n * (u1 * u1 + u2 * u2) \in Int
    BY <1>1, <2>2
  <2> QED BY <1>2, <2>1, <2>3, <2>4
<1>8. ASSUME NEW w \in Int, 100 * (w * w) <= n * bound
      PROVE  w <= l * (r + 2) /\ -w <= l * (r + 2)
  <2> DEFINE h == l * (r + 2)
  <2>1. h \in Nat
    BY SameSigns
  <2>2. h * h = n * ((r + 2) * (r + 2))
    BY DEF n
  <2>3. bound <= 100 * ((r + 2) * (r + 2))
    BY SquareIsNat
  <2>4. (r + 2) * (r + 2) \in Int
    OBVIOUS
  <2> HIDE DEF h, bound
  <2>5. n * bound <= n * (100 * ((r + 2) * (r + 2)))
    BY <1>1, <2>3, <2>4, Times
  <2>6. n * (100 * ((r + 2) * (r + 2))) = 100 * (h * h)
    BY <1>1, <2>2, <2>4
  <2>7. w * w <= h * h
    <3>1. w * w \in Int /\ h * h \in Int /\ n * bound \in Int
      BY <1>1, <2>1
    <3> QED BY <1>8, <2>5, <2>6, <3>1
  <2>8. w <= h /\ -w <= h
    BY <2>1, <2>7, RootBound
  <2> QED BY <2>8 DEF h
<1>9. w1 * w1 \in Nat /\ w2 * w2 \in Nat /\ n * bound \in Int
  BY <1>1, SquareIsNat
<1>10. /\ w1 <= l * (r + 2) /\ -w1 <= l * (r + 2)
       /\ w2 <= l * (r + 2) /\ -w2 <= l * (r + 2)
  <2> HIDE DEF bound
  <2>1. 100 * (w1 * w1) <= n * bound /\ 100 * (w2 * w2) <= n * bound
    BY <1>7, <1>9
  <2> QED BY <1>1, <1>8, <2>1
<1>11. /\ n * (o1 * o1) <= w1 * w1 + n * (2 * r + 5)
       /\ n * (o2 * o2) <= w2 * w2 + n * (2 * r + 5)
  <2>1. l * (r + 2) \in Int
    OBVIOUS
  <2>2. -(l * (r + 2)) <= w1 /\ -(l * (r + 2)) <= w2
    BY <1>1, <1>10, <2>1
  <2> QED BY <1>1, <1>4, <1>10, <2>2, RoundedSquare DEF n
<1> DEFINE x == o1 * o1 + o2 * o2
           y == r * r + 8 * r + 12
<1>12. n * (100 * x) <= n * (100 * y)
  <2>1. n * (100 * x) = 100 * (n * (o1 * o1)) + 100 * (n * (o2 * o2))
    BY <1>1
  <2>2. n * (100 * y) = n * bound + 200 * (n * (2 * r + 5))
    BY <1>1
  <2> HIDE DEF bound, x, y
  <2>3. n * (o1 * o1) \in Int /\ n * (o2 * o2) \in Int /\ n * (2 * r + 5) \in Int
    BY <1>1
  <2> QED BY <1>7, <1>9, <1>11, <2>1, <2>2, <2>3
<1>13. x \in Int /\ y \in Int
  OBVIOUS
<1>14. x <= y
  <2> HIDE DEF x, y
  <2>1. 100 * x <= 100 * y
    BY <1>1, <1>12, <1>13, Cancel
  <2> QED BY <1>13, <2>1
<1>15. (r + 5) * (r + 5) = r * r + 10 * r + 25 /\ r * r \in Int
  OBVIOUS
<1> QED BY <1>13, <1>14, <1>15

\* The square of how far from c the closest point of the way is.
LEMMA DistanceIs ==
  ASSUME NEW c \in Int \X Int, NEW p \in Int \X Int, NEW q \in Int \X Int, NEW l \in Nat \ {0},
         l = (q[1] - p[1]) * (q[1] - p[1]) + (q[2] - p[2]) * (q[2] - p[2])
  PROVE  \E t \in Int :
           /\ Closest(p[1] - c[1], p[2] - c[2], q[1] - p[1], q[2] - p[2], l, t)
           /\ \E o1, o2 \in Int :
                /\ o1 = p[1] - c[1] + (t * (q[1] - p[1])) \div l
                /\ o2 = p[2] - c[2] + (t * (q[2] - p[2])) \div l
                /\ M!DistanceSq(c, p, q) = o1 * o1 + o2 * o2
<1> DEFINE d1 == q[1] - p[1]
           d2 == q[2] - p[2]
           a1 == p[1] - c[1]
           a2 == p[2] - c[2]
           s == (c[1] - p[1]) * d1 + (c[2] - p[2]) * d2
           t == M!Clamp(s, 0, l)
           o1 == a1 + (t * d1) \div l
           o2 == a2 + (t * d2) \div l
<1>1. d1 \in Int /\ d2 \in Int /\ a1 \in Int /\ a2 \in Int /\ s \in Int
  OBVIOUS
<1>2. s = -(a1 * d1 + a2 * d2)
  OBVIOUS
<1>3. M!DistanceSq(c, p, q) = o1 * o1 + o2 * o2
  BY DEF M!DistanceSq
<1> HIDE DEF s
<1>4. t \in Int /\ t = IF s < 0 THEN 0 ELSE IF s > l THEN l ELSE s
  BY <1>1 DEF M!Clamp
<1> HIDE DEF t
<1>5. Closest(a1, a2, d1, d2, l, t)
  BY <1>2, <1>4 DEF Closest
<1>6. (t * d1) \div l \in Int /\ (t * d2) \div l \in Int
  <2>1. t * d1 \in Int /\ t * d2 \in Int
    BY <1>1, <1>4
  <2> HIDE DEF d1, d2
  <2> QED BY <2>1, Quotient
<1>7. o1 \in Int /\ o2 \in Int
  BY <1>1, <1>6
<1>8. \E e1, e2 \in Int :
        /\ e1 = a1 + (t * d1) \div l
        /\ e2 = a2 + (t * d2) \div l
        /\ M!DistanceSq(c, p, q) = e1 * e1 + e2 * e2
  <2>1. o1 = a1 + (t * d1) \div l /\ o2 = a2 + (t * d2) \div l
    OBVIOUS
  <2> HIDE DEF o1, o2
  <2> QED BY <1>3, <1>7, <2>1
<1> QED BY <1>4, <1>5, <1>8

\* What the zone events see inside a circle, the swept test touches.
LEMMA CirclesAreHit ==
  ASSUME NEW p \in Int \X Int, NEW q \in Int \X Int, NEW z, z.shape = "circle",
         z.center \in Int \X Int, z.radius \in Nat,
         NEW x \in M!Way(p, q), M!Contains(z, x)
  PROVE  M!Hits(z, p, q)
<1> DEFINE d1 == q[1] - p[1]
           d2 == q[2] - p[2]
           l == d1 * d1 + d2 * d2
           a1 == p[1] - z.center[1]
           a2 == p[2] - z.center[2]
           r == z.radius
<1>1. PICK k \in 0..10 :
        x = <<p[1] + (k * d1) \div 10, p[2] + (k * d2) \div 10>>
  BY DEF M!Way
<1> DEFINE b1 == a1 + (k * d1) \div 10
           b2 == a2 + (k * d2) \div 10
<1>2. d1 \in Int /\ d2 \in Int /\ a1 \in Int /\ a2 \in Int /\ r \in Nat
  OBVIOUS
<1>3. b1 \in Int /\ b2 \in Int
  BY <1>2
<1>4. b1 * b1 + b2 * b2 <= r * r
  <2>1. M!DistanceSq(z.center, x, x) <= r * r
    BY DEF M!Contains
  <2>2. x \in Int \X Int /\ x[1] - z.center[1] = b1 /\ x[2] - z.center[2] = b2
    <3>1. (k * d1) \div 10 \in Int /\ (k * d2) \div 10 \in Int
      BY <1>2
    <3>2. p[1] \in Int /\ p[2] \in Int /\ z.center[1] \in Int /\ z.center[2] \in Int
      OBVIOUS
    <3>3. x[1] = p[1] + (k * d1) \div 10 /\ x[2] = p[2] + (k * d2) \div 10
      BY <1>1
    <3>4. x = <<p[1] + (k * d1) \div 10, p[2] + (k * d2) \div 10>>
      BY <1>1
    <3> HIDE DEF d1, d2
    <3> QED BY <3>1, <3>2, <3>3, <3>4
  <2>3. M!DistanceSq(z.center, x, x) = (x[1] - z.center[1]) * (x[1] - z.center[1])
                                         + (x[2] - z.center[2]) * (x[2] - z.center[2])
    BY <2>2 DEF M!DistanceSq
  <2> QED BY <2>1, <2>2, <2>3
<1>5. M!DistanceSq(z.center, p, q) <= (r + 5) * (r + 5)
  <2>1. l \in Nat
    BY <1>2, SquareIsNat
  <2>2. ASSUME l # 0 PROVE M!DistanceSq(z.center, p, q) <= (r + 5) * (r + 5)
    <3>1. PICK t \in Int :
            /\ Closest(a1, a2, d1, d2, l, t)
            /\ \E o1, o2 \in Int :
                 /\ o1 = a1 + (t * d1) \div l
                 /\ o2 = a2 + (t * d2) \div l
                 /\ M!DistanceSq(z.center, p, q) = o1 * o1 + o2 * o2
      BY <2>1, <2>2, DistanceIs
    <3>2. PICK o1 \in Int, o2 \in Int :
                 /\ o1 = a1 + (t * d1) \div l
                 /\ o2 = a2 + (t * d2) \div l
                 /\ M!DistanceSq(z.center, p, q) = o1 * o1 + o2 * o2
      BY <3>1
    <3>3. b1 = a1 + (k * d1) \div 10 /\ b2 = a2 + (k * d2) \div 10
      OBVIOUS
    <3> HIDE DEF b1, b2, a1, a2, d1, d2, l, r
    <3>4. o1 * o1 + o2 * o2 <= (r + 5) * (r + 5)
      BY <1>2, <1>3, <1>4, <2>1, <2>2, <3>1, <3>2, <3>3, ClosestRounded
    <3> QED BY <3>2, <3>4
  <2>3. ASSUME l = 0 PROVE M!DistanceSq(z.center, p, q) <= (r + 5) * (r + 5)
    <3>1. M!DistanceSq(z.center, p, q) = a1 * a1 + a2 * a2
      BY <2>3 DEF M!DistanceSq
    <3>2. d1 * d1 \in Nat /\ d2 * d2 \in Nat
      BY <1>2, SquareIsNat
    <3>3. d1 * d1 <= 0 * 0 /\ d2 * d2 <= 0 * 0
      BY <2>3, <3>2
    <3>4. d1 = 0 /\ d2 = 0
      <4> HIDE DEF d1, d2
      <4>1. d1 <= 0 /\ -d1 <= 0 /\ d2 <= 0 /\ -d2 <= 0
        BY <1>2, <3>3, RootBound
      <4> QED BY <1>2, <4>1
    <3>5. b1 = a1 /\ b2 = a2
      <4> HIDE DEF d1, d2
      <4> QED BY <1>2, <3>4
    <3>6. r * r <= (r + 5) * (r + 5)
      BY <1>2
    <3>7. r * r \in Int /\ (r + 5) * (r + 5) \in Int /\ a1 * a1 + a2 * a2 \in Int
      BY <1>2
    <3> HIDE DEF b1, b2, a1, a2, d1, d2, l, r
    <3> QED BY <1>4, <3>1, <3>5, <3>6, <3>7
  <2> QED BY <2>2, <2>3
<1> QED BY <1>5 DEF M!Hits, M!playerCollisionRadius, M!segmentIntersectsCircle

-----------------------------------------------------------------------------
(* A way that touches a rectangle.                                         *)

\* The part i of a way has its point at k tenths.
Has(i, k) == 10 * i.from <= k * i.of /\ k * i.of <= 10 * i.to
Part(i) == i.from \in Int /\ i.to \in Int /\ i.of \in Nat \ {0}

\* Parts with a point in common overlap.
LEMMA CommonPoint ==
  ASSUME NEW i, NEW j, NEW k \in 0..10, Part(i), Part(j), Has(i, k), Has(j, k)
  PROVE  M!Overlap(i, j)
<1>1. ASSUME NEW f \in Int, NEW g \in Nat \ {0}, NEW t \in Int, NEW h \in Nat \ {0},
             10 * f <= k * g, k * h <= 10 * t
      PROVE  f * h <= t * g
  <2>1. h * (10 * f) <= h * (k * g)
    BY <1>1, Times
  <2>2. g * (k * h) <= g * (10 * t)
    BY <1>1, Times
  <2>3. h * (k * g) = g * (k * h)
    OBVIOUS
  <2>4. f * h \in Int /\ t * g \in Int /\ h * (k * g) \in Int
    OBVIOUS
  <2>5. h * (10 * f) = 10 * (f * h) /\ g * (10 * t) = 10 * (t * g)
    OBVIOUS
  <2> QED BY <2>1, <2>2, <2>3, <2>4, <2>5
<1>2. i.from * j.of <= j.to * i.of
  BY <1>1 DEF Part, Has
<1>3. j.from * i.of <= i.to * j.of
  BY <1>1 DEF Part, Has
<1> QED BY <1>2, <1>3 DEF M!Overlap

\* A coordinate of the way that is in lo..hi is in the slab that is wider by r.
LEMMA WithinSlab ==
  ASSUME NEW p \in Int, NEW d \in Int, NEW lo \in Int, NEW hi \in Int, NEW k \in 0..10,
         lo <= p + (k * d) \div 10, p + (k * d) \div 10 <= hi
  PROVE  Part(M!Slab(p, d, lo - 5, hi + 5)) /\ Has(M!Slab(p, d, lo - 5, hi + 5), k)
<1> DEFINE m == k * d
           c == m \div 10
<1>1. m \in Int
  OBVIOUS
<1>2. c \in Int /\ 10 * c <= m /\ m <= 10 * c + 9
  <2> HIDE DEF m
  <2> QED BY <1>1
<1>3. lo <= p + c /\ p + c <= hi
  OBVIOUS
<1>4. d > 0 => /\ 10 * ((lo - 5) - p) <= m /\ m <= 10 * ((hi + 5) - p)
  <2> HIDE DEF c, m
  <2> QED BY <1>1, <1>2, <1>3
<1>5. d < 0 => /\ 10 * (p - (hi + 5)) <= -m /\ -m <= 10 * (p - (lo - 5))
  <2> HIDE DEF c, m
  <2> QED BY <1>1, <1>2, <1>3
<1>6. d = 0 => m = 0 /\ lo - 5 <= p /\ p <= hi + 5
  <2>1. d = 0 => m = 0
    OBVIOUS
  <2> HIDE DEF c, m
  <2> QED BY <1>1, <1>2, <1>3, <2>1
<1>7. k * (-d) = -m
  OBVIOUS
<1>8. CASE d > 0
  <2>1. M!Slab(p, d, lo - 5, hi + 5) = [from |-> (lo - 5) - p, to |-> (hi + 5) - p, of |-> d]
    BY <1>8 DEF M!Slab
  <2> QED BY <1>4, <1>8, <2>1 DEF Part, Has
<1>9. CASE d < 0
  <2>1. M!Slab(p, d, lo - 5, hi + 5) = [from |-> p - (hi + 5), to |-> p - (lo - 5), of |-> -d]
    BY <1>9 DEF M!Slab
  <2> QED BY <1>5, <1>7, <1>9, <2>1 DEF Part, Has
<1>10. CASE d = 0
  <2>1. M!Slab(p, d, lo - 5, hi + 5) = [from |-> 0, to |-> 1, of |-> 1]
    BY <1>6, <1>10 DEF M!Slab
  <2> QED BY <1>10, <2>1 DEF Part, Has
<1> QED BY <1>8, <1>9, <1>10

LEMMA RectanglesAreHit ==
  ASSUME NEW p \in Int \X Int, NEW q \in Int \X Int, NEW z, z.shape = "rect",
         z.lo \in Int \X Int, z.hi \in Int \X Int,
         NEW x \in M!Way(p, q), M!Contains(z, x)
  PROVE  M!Hits(z, p, q)
<1>1. PICK k \in 0..10 :
        x = <<p[1] + (k * (q[1] - p[1])) \div 10, p[2] + (k * (q[2] - p[2])) \div 10>>
  BY DEF M!Way
<1>2. z.lo[1] <= x[1] /\ x[1] <= z.hi[1] /\ z.lo[2] <= x[2] /\ x[2] <= z.hi[2]
  BY DEF M!Contains
<1> DEFINE i == M!Slab(p[1], q[1] - p[1], z.lo[1] - 5, z.hi[1] + 5)
           j == M!Slab(p[2], q[2] - p[2], z.lo[2] - 5, z.hi[2] + 5)
           whole == [from |-> 0, to |-> 1, of |-> 1]
<1>3. Part(i) /\ Has(i, k)
  <2>1. q[1] - p[1] \in Int /\ p[1] \in Int /\ z.lo[1] \in Int /\ z.hi[1] \in Int
    OBVIOUS
  <2>2. z.lo[1] <= p[1] + (k * (q[1] - p[1])) \div 10 /\ p[1] + (k * (q[1] - p[1])) \div 10 <= z.hi[1]
    BY <1>1, <1>2
  <2> QED BY <2>1, <2>2, WithinSlab
<1>4. Part(j) /\ Has(j, k)
  <2>1. q[2] - p[2] \in Int /\ p[2] \in Int /\ z.lo[2] \in Int /\ z.hi[2] \in Int
    OBVIOUS
  <2>2. z.lo[2] <= p[2] + (k * (q[2] - p[2])) \div 10 /\ p[2] + (k * (q[2] - p[2])) \div 10 <= z.hi[2]
    BY <1>1, <1>2
  <2> QED BY <2>1, <2>2, WithinSlab
<1>5. Part(whole) /\ Has(whole, k)
  BY DEF Part, Has
<1> HIDE DEF i, j, whole
<1>6. M!Overlap(i, whole) /\ M!Overlap(j, whole) /\ M!Overlap(i, j)
  BY <1>3, <1>4, <1>5, CommonPoint
<1>7. M!segmentIntersectsRect(p, q, <<z.lo[1] - 5, z.lo[2] - 5>>, <<z.hi[1] + 5, z.hi[2] + 5>>)
  BY <1>6 DEF M!segmentIntersectsRect, i, j, whole
<1> QED BY <1>7 DEF M!Hits, M!playerCollisionRadius

LEMMA FeetAreWhole ==
  ASSUME NEW p \in Int \X Int PROVE M!Feet(p) \in Int \X Int
BY DEF M!Feet, M!avatarFeetYOffset, M!Tile

\* What a tick keeps out of.
Avoids(p, q) ==
  /\ \A z \in closed : ~M!Hits(z, M!Feet(p), M!Feet(q))
  /\ \A z \in closed : z.shape # "polygon" =>
       \A x \in M!Way(M!Feet(p), M!Feet(q)) : ~M!Contains(z, x)
  /\ M!FeetTile(q) = M!FeetTile(p) \/ ~M!IsBlocked(M!FeetTile(q)[1], M!FeetTile(q)[2])

LEMMA StepsAvoidWalls ==
  ASSUME Walking, NEW input \in M!Inputs, M!Step(input), position' # position
  PROVE  Avoids(position, position')
<1>1. position' = M!Walked(position, input)
  BY DEF M!Step
<1>2. position = <<position[1], position[2]>> /\ position \in Int \X Int
  BY DEF Walking
<1>3. position' \in Int \X Int
  BY <1>1, WalkedOnPoints
<1>4. ~M!isMoveBlocked(position, M!Walked(position, input))
  BY <1>1, <1>2, WalkedIsTried
<1>5. \A z \in closed : ~M!Hits(z, M!Feet(position), M!Feet(position'))
  BY <1>1, <1>4 DEF M!isMoveBlocked
<1>6. ASSUME NEW z \in closed, z.shape # "polygon",
             NEW p \in M!Way(M!Feet(position), M!Feet(position'))
      PROVE  ~M!Contains(z, p)
  <2>1. \/ z.shape = "rect" /\ z.lo \in Int \X Int /\ z.hi \in Int \X Int
        \/ z.shape = "circle" /\ z.center \in Int \X Int /\ z.radius \in Nat
    BY <1>6, LayoutsAssumption DEF Walking
  <2>2. M!Feet(position) \in Int \X Int /\ M!Feet(position') \in Int \X Int
    BY <1>2, <1>3, FeetAreWhole
  <2> QED BY <1>5, <1>6, <2>1, <2>2, RectanglesAreHit, CirclesAreHit
<1>7. M!FeetTile(position') = M!FeetTile(position)
        \/ ~M!IsBlocked(M!FeetTile(position')[1], M!FeetTile(position')[2])
  BY <1>1, WalkedOntoFreeTiles
<1> QED BY <1>5, <1>6, <1>7 DEF Avoids

\* On every map, wherever an avatar was put and whatever has closed or changed
\* around it: no tick takes the feet where they touch a closed zone, whatever its
\* shape, as MovementSystem tests it, nor to a point of a closed rectangle or
\* circle as the zone events see it, nor from one tile to another that is
\* blocked (isMoveBlocked, runMovement).
THEOREM FeetKeepOut ==
  M!Spec =>
    [][(\E input \in M!Inputs : M!Step(input)) /\ position' # position =>
         Avoids(position, position')]_(M!vars)
<1>1. Walking =>
        [(\E input \in M!Inputs : M!Step(input)) /\ position' # position =>
           Avoids(position, position')]_(M!vars)
  BY StepsAvoidWalls
<1> QED BY <1>1, WalkingHolds, PTL DEF M!Spec

\* Maps with no polygons for zones.
NoPolygons == \A layout \in Layouts : \A z \in layout.gates : z.shape # "polygon"

\* On such maps walls hold: what MovementSystem tests is all that the zone
\* events see.
THEOREM RectanglesAndCirclesHold == ASSUME NoPolygons PROVE M!Spec => WallsHold
<1>1. Walking =>
        [position' # position /\ M!Through(position, position') =>
           ~\E input \in M!Inputs : M!Step(input)]_(M!vars)
  <2>1. Walking => \A z \in closed : z.shape # "polygon"
    BY DEF NoPolygons, Walking
  <2>2. Walking /\ M!Through(position, position') => ~Avoids(position, position')
    BY <2>1 DEF M!Through, Avoids
  <2> QED BY <2>2, StepsAvoidWalls
<1> QED BY <1>1, WalkingHolds, PTL DEF M!Spec, WallsHold, M!WallsHold

-----------------------------------------------------------------------------
(* The three together.                                                     *)

\* A behaviour of the parts is one of each.
LEMMA PartsAreSpecs == PartsSpec => Spec /\ C!Spec /\ M!Spec
<1>1. PartsInit => Init /\ C!Init /\ M!Init
  BY DEF PartsInit
<1>2. [PartsNext]_all => [Next]_vars /\ [C!Next]_(C!vars) /\ [M!Next]_(M!vars)
  <2> SUFFICES ASSUME [PartsNext]_all
               PROVE  [Next]_vars /\ [C!Next]_(C!vars) /\ [M!Next]_(M!vars)
    OBVIOUS
  <2>1. ASSUME UNCHANGED chatVars PROVE UNCHANGED C!vars
    BY <2>1 DEF chatVars, C!vars
  <2>2. ASSUME UNCHANGED movementVars PROVE UNCHANGED M!vars
    BY <2>2 DEF movementVars, M!vars
  <2>3. CASE Next /\ UNCHANGED chatVars /\ UNCHANGED movementVars
    BY <2>1, <2>2, <2>3
  <2>4. CASE C!Next /\ UNCHANGED vars /\ UNCHANGED movementVars
    BY <2>2, <2>4
  <2>5. CASE M!Next /\ UNCHANGED vars /\ UNCHANGED chatVars
    BY <2>1, <2>5
  <2>6. CASE UNCHANGED all
    BY <2>1, <2>2, <2>6 DEF all
  <2>7. \/ Next /\ UNCHANGED chatVars /\ UNCHANGED movementVars
        \/ C!Next /\ UNCHANGED vars /\ UNCHANGED movementVars
        \/ M!Next /\ UNCHANGED vars /\ UNCHANGED chatVars
        \/ UNCHANGED all
    BY DEF PartsNext
  <2> QED BY <2>3, <2>4, <2>5, <2>6, <2>7
<1> QED BY <1>1, <1>2, PTL DEF PartsSpec, Spec, C!Spec, M!Spec

LEMMA FirstOfFour ==
  ASSUME NEW a \in Nat, NEW b \in Nat, NEW c \in Nat, NEW d \in Nat, NEW n \in Nat,
         a + b + c + d <= n
  PROVE  a <= n
OBVIOUS

\* Every variable keeps its type, and no room has the name of one player.
THEOREM TypesAlwaysOK == PartsSpec => []TypesOK
<1>1. ChatInv => C!TypeOK
  <2> SUFFICES ASSUME ChatTypes PROVE C!TypeOK
    BY DEF ChatInv
  <2>1. \A s \in Sendings \cup {None} : s = None \/ s.to \subseteq Windows
    BY DEF Sendings
  <2>2. writing = None \/ writing.to \subseteq Windows
    BY <2>1 DEF ChatTypes
  <2>3. \A h \in C!Handlers : sending[h] = None \/ sending[h].to \subseteq Windows
    BY <2>1 DEF ChatTypes
  <2>4. lines = Len(meant) /\ lines <= MaxLines
    <3>1. \A h \in {"client.chat", "admin.chat", "client.ping"} : Len(asked[h]) \in Nat
      BY DEF ChatTypes, C!Handlers
    <3>2. /\ lines \in Nat /\ Len(asked["client.chat"]) \in Nat
          /\ Len(asked["admin.chat"]) \in Nat /\ Len(asked["client.ping"]) \in Nat
      BY <3>1 DEF ChatTypes
    <3>3. lines + Len(asked["client.chat"]) + Len(asked["admin.chat"]) + Len(asked["client.ping"]) <= MaxLines
      BY DEF ChatTypes
    <3>4. MaxLines \in Nat
      BY ChatAssumption
    <3>5. lines <= MaxLines
      BY <3>2, <3>3, <3>4, FirstOfFour
    <3> QED BY <3>5 DEF ChatTypes
  <2> QED BY <2>2, <2>3, <2>4 DEF ChatTypes, C!TypeOK
<1>2. Walking => M!TypeOK
  BY DEF Walking, M!TypeOK
<1>3. TypeOK /\ ChatInv /\ Walking => TypesOK
  BY <1>1, <1>2 DEF TypesOK
<1> QED BY <1>3, PartsAreSpecs, TypeCorrect, ChatInvHolds, WalkingHolds, PTL
=============================================================================
