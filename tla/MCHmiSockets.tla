----------------------------- MODULE MCHmiSockets -----------------------------
(* Clients, tags and bounds for HmiSockets. *)
EXTENDS HmiSockets

CONSTANTS c1, c2, level, nobody

TwoOfOne(c) == IF c = c1 THEN 2 ELSE 1
=============================================================================
