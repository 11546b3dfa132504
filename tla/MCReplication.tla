--------------------------- MODULE MCReplication ---------------------------
(***************************************************************************)
(* Replication with two players on two maps of three AOI cells, radii 0    *)
(* and 1 for the 3 and 4 of the code: a cell is near, in the band, or out  *)
(* of range.  Ticks fall in all four windows.                              *)
(***************************************************************************)
EXTENDS Replication, TLC

CONSTANTS p1, p2, m1, m2

Symmetric == Permutations(Players) \cup Permutations(Maps)
=============================================================================
