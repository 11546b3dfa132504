----------------------------- MODULE MCAvClient -----------------------------
(* AvClient with two rooms. *)
EXTENDS AvClient, TLC

CONSTANTS r1, r2, o1, o2

Mic == <<"mic">>

=============================================================================
