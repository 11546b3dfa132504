---------------------------- MODULE MCRecording ----------------------------
(* Recording in one room, two recordings of which the first has a file. *)
EXTENDS Recording

CONSTANT r1

Target == {1}

=============================================================================
