----------------------------- MODULE MCSession -----------------------------
(***************************************************************************)
(* Session on small sets: c1 and c2 are two windows of one logged-in user. *)
(***************************************************************************)
EXTENDS Session, TLC

CONSTANTS c1, c2, u1, g, m1, m2

MCUserOf == (c1 :> u1) @@ (c2 :> u1)

\* The windows are on two devices, which can be banned one by one ...
DeviceBan == {[matches |-> {c1}, kicks |-> {c1}], [matches |-> {c2}, kicks |-> {c2}]}
\* ... or on one device.
SharedDeviceBan == {[matches |-> {c1, c2}, kicks |-> {c1, c2}]}
=============================================================================
