---------------------------- MODULE MCProximity ----------------------------
(***************************************************************************)
(* Proximity on strips of cells with radii 0 and 1 for 2 and 3 tiles.      *)
(* Safety: three players, one of whom may choose do-not-disturb, on a map  *)
(* of two cells, near each other or in the band between the radii; players *)
(* get out of range by disconnecting.  Do-not-disturb is what lets players *)
(* of different rooms meet with so few of them.                            *)
(* Liveness: two players on two maps of three cells, whose portals lead to *)
(* both ends of each, and where one end of the first map is an av_enabled  *)
(* meeting room.                                                           *)
(***************************************************************************)
EXTENDS Proximity

CONSTANTS m1, m2

Everywhere == Place
Ends == {q \in Place : q.cell \in {0, LastCell}}
MeetingRoom == {[map |-> m1, cell |-> LastCell]}
=============================================================================
