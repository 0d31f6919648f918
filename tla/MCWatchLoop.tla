------------------------------ MODULE MCWatchLoop ------------------------------
(* Two variables for WatchLoop.                                               *)
EXTENDS WatchLoop

CONSTANTS a, b

MCVars == <<a, b>>
================================================================================
