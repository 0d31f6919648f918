----------------------------- MODULE MCHeartbeat ------------------------------
(* Flags for Heartbeat. *)
EXTENDS Heartbeat

AllFlags == Flags
=============================================================================
