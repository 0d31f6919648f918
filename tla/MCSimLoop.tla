------------------------------ MODULE MCSimLoop -------------------------------
(* Scripts and a PLC for SimLoop.  In the PLC, Lamp shares its byte with     *)
(* Door, which the scripts do not use.                                       *)
EXTENDS SimLoop

MCNames == {"Start", "Lamp", "Ready"}
MCTags == MCNames \cup {"Door"}
MCWritable == {"Lamp"}
MCByteOf(n) == IF n \in {"Lamp", "Door"} THEN 0 ELSE IF n = "Start" THEN 1 ELSE 2

MCExprs == {"Start", "divide"}

MCOutcomes(e, m) ==
  IF e = "Start" THEN {IF m["Start"] THEN "true" ELSE "false"}
  ELSE {"true", "false", "error"}

Ins(op, n, e, once, width, to) ==
  [op |-> op, name |-> n, expr |-> e, once |-> once, width |-> width, to |-> to]

(* if Start then once pulse Lamp, 2; else Ready := Start; end;               *)
(* on rising Start do Ready := a comparison that may fail; end; and another. *)
LampAndReady ==
  << Ins("if", "Start", "Start", FALSE, 1, 4),
     Ins("pulse", "Lamp", "Start", TRUE, 2, 3),
     Ins("jump", "Start", "Start", FALSE, 1, 5),
     Ins("assign", "Ready", "Start", FALSE, 1, 5),
     Ins("rising", "Start", "Start", FALSE, 1, 7),
     Ins("assign", "Ready", "divide", FALSE, 1, 7),
     Ins("analog", "Ready", "divide", FALSE, 1, 8) >>
=============================================================================
