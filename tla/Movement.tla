------------------------------ MODULE Movement ------------------------------
(***************************************************************************)
(* How an avatar walks: one tick of MovementSystem (movement.go) against   *)
(* the walls of a map, which are tiles of the Walls layer and the zones    *)
(* that ext-walls has closed; and the tiles on which avatars appear        *)
(* (mapdata.go).                                                           *)
(*                                                                         *)
(* Lengths are fiftieths of a tile, where the code has float32: a tick is  *)
(* 20 along an axis and 14 (of 14.14) on both.  A closest point on a       *)
(* segment is rounded down to a unit.  A map without data is left out.     *)
(***************************************************************************)
EXTENDS Integers, Sequences, FiniteSets

CONSTANT
  Layouts      \* the maps: [width, height, walls, gates, spawns, marks]

Tile == 50
Speed == 20
DiagonalSpeed == 14
avatarFeetYOffset == Tile
playerCollisionRadius == 5

VARIABLES
  map,         \* MapData of the avatar's map
  position,    \* Position.X, Position.Y
  closed       \* the zones with a gate trigger of ext-walls (IsZoneBlocked)

vars == <<map, position, closed>>

\* Input bits, as a direction on each axis.
Inputs == {<<dx, dy>> : dx \in {-1, 0, 1}, dy \in {-1, 0, 1}} \ {<<0, 0>>}

-----------------------------------------------------------------------------
(* Segments and shapes.  Points are <<x, y>>.                              *)

Clamp(v, lo, hi) == IF v < lo THEN lo ELSE IF v > hi THEN hi ELSE v

\* The part [from/of, to/of] of the segment that is in the slab lo..hi of one
\* axis, on which it starts at p and goes d.
Slab(p, d, lo, hi) ==
  CASE d > 0 -> [from |-> lo - p, to |-> hi - p, of |-> d]
    [] d < 0 -> [from |-> p - hi, to |-> p - lo, of |-> -d]
    [] d = 0 /\ lo <= p /\ p <= hi -> [from |-> 0, to |-> 1, of |-> 1]
    [] OTHER -> [from |-> 2, to |-> -1, of |-> 1]

Overlap(i, j) == i.from * j.of <= j.to * i.of /\ j.from * i.of <= i.to * j.of

segmentIntersectsRect(p, q, lo, hi) ==
  LET x == Slab(p[1], q[1] - p[1], lo[1], hi[1])
      y == Slab(p[2], q[2] - p[2], lo[2], hi[2])
      whole == [from |-> 0, to |-> 1, of |-> 1]
  IN  Overlap(x, whole) /\ Overlap(y, whole) /\ Overlap(x, y)

\* pointSegmentDistSq: from c to the closest point of the segment.
DistanceSq(c, p, q) ==
  LET d == <<q[1] - p[1], q[2] - p[2]>>
      length == d[1] * d[1] + d[2] * d[2]
      t == Clamp((c[1] - p[1]) * d[1] + (c[2] - p[2]) * d[2], 0, length)
      off(i) == p[i] - c[i] + IF length = 0 THEN 0 ELSE (t * d[i]) \div length
  IN  off(1) * off(1) + off(2) * off(2)

segmentIntersectsCircle(p, q, c, r) == DistanceSq(c, p, q) <= r * r

cross(c, d, p) == (d[1] - c[1]) * (p[2] - c[2]) - (d[2] - c[2]) * (p[1] - c[1])

segmentsIntersect(a, b, c, d) ==
  /\ (cross(c, d, a) > 0) # (cross(c, d, b) > 0)
  /\ (cross(a, b, c) > 0) # (cross(a, b, d) > 0)

Edges(polygon) == {<<polygon[i], polygon[(i % Len(polygon)) + 1]>> : i \in DOMAIN polygon}

\* An odd number of edges is to the right of p.
pointInPolygon(p, polygon) ==
  LET Right(a, b) == IF b[2] > a[2] THEN cross(a, b, p) > 0 ELSE cross(a, b, p) < 0
  IN  Cardinality({e \in Edges(polygon) :
        (e[1][2] > p[2]) # (e[2][2] > p[2]) /\ Right(e[1], e[2])}) % 2 = 1

segmentSegmentDistLE(p, q, a, b, r) ==
  \/ segmentsIntersect(p, q, a, b)
  \/ \E x \in {p, q} : DistanceSq(x, a, b) <= r * r
  \/ \E x \in {a, b} : DistanceSq(x, p, q) <= r * r

\* The polygon itself, and its edges and vertices widened by r.
segmentIntersectsPolygonExpanded(p, q, polygon, r) ==
  \/ pointInPolygon(p, polygon) \/ pointInPolygon(q, polygon)
  \/ \E e \in Edges(polygon) : segmentSegmentDistLE(p, q, e[1], e[2], r)

-----------------------------------------------------------------------------
(* Zones and tiles.                                                        *)

\* Zone.Contains.
Contains(z, p) ==
  CASE z.shape = "rect" -> /\ z.lo[1] <= p[1] /\ p[1] <= z.hi[1]
                           /\ z.lo[2] <= p[2] /\ p[2] <= z.hi[2]
    [] z.shape = "circle" -> DistanceSq(z.center, p, p) <= z.radius * z.radius
    [] z.shape = "polygon" -> pointInPolygon(p, z.polygon)

\* The segment touches the zone, widened by playerCollisionRadius.
Hits(z, p, q) ==
  LET r == playerCollisionRadius IN
  CASE z.shape = "rect" ->
         segmentIntersectsRect(p, q, <<z.lo[1] - r, z.lo[2] - r>>, <<z.hi[1] + r, z.hi[2] + r>>)
    [] z.shape = "circle" -> segmentIntersectsCircle(p, q, z.center, z.radius + r)
    [] z.shape = "polygon" -> segmentIntersectsPolygonExpanded(p, q, z.polygon, r)

\* int() of a coordinate: towards zero.
TileOf(v) == IF v < 0 THEN -((-v) \div Tile) ELSE v \div Tile

\* MapData.IsBlocked.
IsBlocked(tx, ty) ==
  tx \notin 0..(map.width - 1) \/ ty \notin 0..(map.height - 1) \/ <<tx, ty>> \in map.walls

Feet(p) == <<p[1], p[2] + avatarFeetYOffset>>

\* The edge of the sprite that leads on the way from p to q is tested on the
\* tiles, at both ends.
isMoveBlocked(p, q) ==
  LET edge == IF q[1] > p[1] THEN Tile \div 2 ELSE IF q[1] < p[1] THEN -(Tile \div 2) ELSE 0
  IN  \/ \E z \in closed : Hits(z, Feet(p), Feet(q))
      \/ \E x \in {p, q} : IsBlocked(TileOf(x[1] + edge), TileOf(Feet(x)[2]))

-----------------------------------------------------------------------------
(* A tick.                                                                 *)

\* Where the input leads from p, inside the map.
Wanted(p, input) ==
  LET step == IF input[1] # 0 /\ input[2] # 0 THEN DiagonalSpeed ELSE Speed
  IN  <<Clamp(p[1] + input[1] * step, 0, (map.width - 1) * Tile),
        Clamp(p[2] + input[2] * step, 0, (map.height - 1) * Tile)>>

\* Mutant: each axis is tried, and not the way as a whole.
WalkedByAxis(p, input) ==
  LET new == Wanted(p, input)
      x == IF isMoveBlocked(p, <<new[1], p[2]>>) THEN p[1] ELSE new[1]
  IN  <<x, IF isMoveBlocked(<<x, p[2]>>, <<x, new[2]>>) THEN p[2] ELSE new[2]>>

\* runMovement: along x, then along y from there, so that the avatar slides on
\* walls; and no further than x if the way as a whole is blocked.
Walked(p, input) ==
  LET new == Wanted(p, input)
      alongX == <<IF isMoveBlocked(p, <<new[1], p[2]>>) THEN p[1] ELSE new[1],
                  p[2]>>
      alongY == <<alongX[1],
                  IF isMoveBlocked(alongX, <<alongX[1], new[2]>>) THEN p[2] ELSE new[2]>>
  IN  IF alongY[1] # p[1] /\ alongY[2] # p[2] /\ isMoveBlocked(p, alongY)
      THEN alongX ELSE alongY

-----------------------------------------------------------------------------
(* Where avatars appear.                                                   *)

Tiles == (0..(map.width - 1)) \X (0..(map.height - 1))
Free == {t \in Tiles : ~IsBlocked(t[1], t[2])}
Corner(t) == <<t[1] * Tile, t[2] * Tile>>

\* FindSpawn: the first free tile of the smallest square around the center.
Center == <<map.width \div 2, map.height \div 2>>
Away(n) == IF n < 0 THEN -n ELSE n
Ring(t) ==
  LET x == Away(t[1] - Center[1])
      y == Away(t[2] - Center[2])
  IN  IF x > y THEN x ELSE y
Before(s, t) ==
  \/ Ring(s) < Ring(t)
  \/ Ring(s) = Ring(t) /\ (s[2] < t[2] \/ (s[2] = t[2] /\ s[1] < t[1]))
FindSpawn == IF Free = {} THEN Center ELSE CHOOSE t \in Free : \A s \in Free \ {t} : Before(t, s)

\* X, Y, W and H of a zone: a polygon has no size in Tiled, and its place is
\* that of its first point.
Box(z) ==
  CASE z.shape = "rect" -> [lo |-> z.lo, hi |-> z.hi]
    [] z.shape = "circle" -> [lo |-> [i \in {1, 2} |-> z.center[i] - z.radius],
                              hi |-> [i \in {1, 2} |-> z.center[i] + z.radius]]
    [] z.shape = "polygon" -> [lo |-> z.polygon[1], hi |-> z.polygon[1]]

\* FindSpawnPoint: a free tile of a spawn zone, if there is one.
walkableTilesInZone(z) ==
  {t \in Free : /\ \A i \in {1, 2} : t[i] \in TileOf(Box(z).lo[i])..TileOf(Box(z).hi[i])
                /\ Contains(z, Corner(t))}
FindSpawnPoint ==
  LET tiles == UNION {walkableTilesInZone(z) : z \in map.spawns}
  IN  {Corner(t) : t \in IF tiles = {} THEN {FindSpawn} ELSE tiles}

-----------------------------------------------------------------------------

\* Where avatars are put: on a spawn point, or on a mark.  A mark is a saved
\* position, a beacon or a point that an admin or another player has chosen: any
\* part of a tile, walls and closed zones included.
Arrivals == FindSpawnPoint \cup map.marks

Init ==
  /\ map \in Layouts
  /\ closed \in SUBSET map.gates
  /\ position \in Arrivals

\* provisionClient, PortalSystem.transition or a teleport.
Arrive(m) ==
  /\ map' = m
  /\ closed' \in SUBSET m.gates
  /\ position' \in Arrivals'

\* checkMapReload: the map changes, and its avatars stay where they are.
Reload(m) ==
  /\ map' = m
  /\ closed' \in SUBSET m.gates
  /\ UNCHANGED position

\* A tick with some input.
Step(input) ==
  /\ position' = Walked(position, input)
  /\ UNCHANGED <<map, closed>>

\* ext-walls registers other gate triggers, wherever the avatar stands.
Toggle(z) ==
  /\ closed' = IF z \in closed THEN closed \ {z} ELSE closed \cup {z}
  /\ UNCHANGED <<map, position>>

Next ==
  \/ \E input \in Inputs : Step(input)
  \/ \E z \in map.gates : Toggle(z)
  \/ \E m \in Layouts : Arrive(m) \/ Reload(m)

Spec == Init /\ [][Next]_vars

-----------------------------------------------------------------------------
(* Properties.                                                             *)

TypeOK ==
  /\ map \in Layouts
  /\ position \in Int \X Int
  /\ closed \subseteq map.gates

\* Points of the way from p to q.
Way(p, q) ==
  {<<p[1] + (i * (q[1] - p[1])) \div 10, p[2] + (i * (q[2] - p[2])) \div 10>> : i \in 0..10}

\* From p to q the feet enter or cross a closed zone, as the zone events see it,
\* or come onto another tile that is a wall.
FeetTile(p) == <<TileOf(Feet(p)[1]), TileOf(Feet(p)[2])>>
Through(p, q) ==
  \/ \E z \in closed : \E x \in Way(Feet(p), Feet(q)) : Contains(z, x)
  \/ FeetTile(q) # FeetTile(p) /\ IsBlocked(FeetTile(q)[1], FeetTile(q)[2])

\* No tick takes an avatar through a wall, wherever it was put and whatever has
\* closed or changed around it, however thin the wall is and whatever the shape
\* and the angle.
WallsHold ==
  [][position' # position /\ Through(position, position') => ~\E input \in Inputs : Step(input)]_vars
=============================================================================
