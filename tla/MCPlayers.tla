----------------------------- MODULE MCPlayers -----------------------------
(***************************************************************************)
(* What players do with each other and with the map: they gather           *)
(* (Proximity), talk (Chat) and walk (Movement).  The three share no       *)
(* state, so that a behaviour runs one `part`.                             *)
(*                                                                         *)
(* Walking is on three maps: one with wall tiles, a gate thinner than a    *)
(* step and marks on a wall and off the map, one whose only gate is round  *)
(* and that has no spawn zone, and one with a slanted gate, a mark in it   *)
(* and a spawn zone that is a polygon.  Talking is between two windows.    *)
(***************************************************************************)
EXTENDS MCProximity

CONSTANTS Windows, MaxLines, Moods, Layouts

VARIABLES part,
  window, player, asked, sending, broadcast, writing, inbox, heard, lines, meant,
  map, position, closed

\* A player is in the circle or has asked not to be disturbed.
MCMoods == {[circle |-> "circle", dnd |-> FALSE], [circle |-> "", dnd |-> TRUE]}

Rect(lo, hi) == [shape |-> "rect", lo |-> lo, hi |-> hi]
Round(center, radius) == [shape |-> "circle", center |-> center, radius |-> radius]
Polygon(points) == [shape |-> "polygon", polygon |-> points]

MCLayouts ==
  {[width |-> 3, height |-> 4, walls |-> {<<1, 2>>, <<2, 1>>},
    gates |-> {Rect(<<61, 50>>, <<64, 127>>)}, spawns |-> {Rect(<<0, 0>>, <<50, 50>>)},
    marks |-> {<<78, 50>>, <<-20, 36>>}],
   [width |-> 3, height |-> 4, walls |-> {},
    gates |-> {Round(<<75, 125>>, 15)}, spawns |-> {}, marks |-> {}],
   [width |-> 3, height |-> 3, walls |-> {<<0, 1>>},
    gates |-> {Polygon(<< <<40, 60>>, <<100, 75>>, <<44, 110>> >>)},
    spawns |-> {Polygon(<< <<0, 0>>, <<150, 0>>, <<0, 100>> >>)}, marks |-> {<<94, 30>>}]}

C == INSTANCE Chat
M == INSTANCE Movement

\* A map has tiles, and a zone that is no polygon is a rectangle with corners or
\* a circle with a center and a radius (ParseTiledMapJSON).
ASSUME LayoutsAssumption ==
  \A layout \in Layouts :
    /\ layout.width \in Nat \ {0} /\ layout.height \in Nat \ {0}
    /\ layout.marks \subseteq Int \X Int
    /\ \A z \in layout.gates : z.shape # "polygon" =>
         \/ z.shape = "rect" /\ z.lo \in Int \X Int /\ z.hi \in Int \X Int
         \/ z.shape = "circle" /\ z.center \in Int \X Int /\ z.radius \in Nat

\* None is neither a player nor a line at work.
ASSUME ChatAssumption ==
  /\ MaxLines \in Nat /\ Moods \subseteq C!Mood
  /\ None \notin C!Mood
  /\ None \notin [line : [id : Nat, channel : {"global", "proximity", "ping"}, by : C!Handlers],
                 to : SUBSET Windows]

chatVars ==
  <<window, player, asked, sending, broadcast, writing, inbox, heard, lines, meant>>
movementVars == <<map, position, closed>>
all == <<vars, chatVars, movementVars, part>>

PartsInit ==
  /\ Init /\ C!Init /\ part \in {"gather", "talk", "walk"}
  /\ M!Init
  /\ part # "walk" => map.walls = {} /\ closed = {}
PartsNext ==
  \/ part = "gather" /\ Next /\ UNCHANGED <<chatVars, movementVars, part>>
  \/ part = "talk" /\ C!Next /\ UNCHANGED <<vars, movementVars, part>>
  \/ part = "walk" /\ M!Next /\ UNCHANGED <<vars, chatVars, part>>

PartsSpec == PartsInit /\ [][PartsNext]_all

\* Types of the variables of all three.
TypesOK == TypeOK /\ C!TypeOK /\ M!TypeOK

\* A conversation is the same for all who take part (see Chat).
ConversationsAgree == C!ConversationsAgree

\* No tick takes an avatar through a wall (see Movement).
WallsHold == M!WallsHold
=============================================================================
