------------------------------ MODULE MCHmiState ------------------------------
(* Tags, values and viewers for HmiState. *)
EXTENDS HmiState

CONSTANTS valve, level

TwoTags == <<valve, level>>
OnePage == {{valve}}
=============================================================================
