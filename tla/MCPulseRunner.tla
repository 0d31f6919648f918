---------------------------- MODULE MCPulseRunner ----------------------------
(* Scripts for PulseRunner. *)
EXTENDS PulseRunner

MCNames == {"A", "B", "Lamp", "Horn", "Bell", "Ready"}
MCInputs == {"A", "B"}

(* "A", "B": the name's value; "notA"; "fault": a comparison on a name that  *)
(* is not BOOL; "divide": a comparison whose evaluation may fail.            *)
MCExprs == {"A", "B", "notA", "fault", "divide"}

Truth(b) == IF b THEN {"true"} ELSE {"false"}

MCOutcomes(e, m) ==
  CASE e = "A" -> Truth(m["A"])
    [] e = "B" -> Truth(m["B"])
    [] e = "notA" -> Truth(~m["A"])
    [] e = "fault" -> {"true", "false"}
    [] e = "divide" -> {"true", "false", "error"}

Ins(op, n, e, once, width, to) ==
  [op |-> op, name |-> n, expr |-> e, once |-> once, width |-> width, to |-> to]

If(e, to) == Ins("if", "A", e, FALSE, 1, to)
Rising(n, to) == Ins("rising", n, "A", FALSE, 1, to)
Falling(n, to) == Ins("falling", n, "A", FALSE, 1, to)
Jump(to) == Ins("jump", "A", "A", FALSE, 1, to)
Assign(n, e, to) == Ins("assign", n, e, FALSE, 1, to)
Analog(e, to) == Ins("analog", "A", e, FALSE, 1, to)
Pulse(n, w, to) == Ins("pulse", n, "A", FALSE, w, to)
OncePulse(n, w, to) == Ins("pulse", n, "A", TRUE, w, to)

(* Every statement form: an if with else, an edge on a name the script      *)
(* assigns, level pulses on a tag it also assigns, a `once` pulse alone on  *)
(* its tag (Horn), two latched sites on one tag (Bell), and statements that *)
(* may fail at run time while pulses are active.                            *)
Script ==
  << If("A", 4), Pulse("Lamp", 2, 3), Jump(5), Pulse("Lamp", 1, 5),
     Assign("Ready", "fault", 6), Falling("Ready", 8), Assign("Lamp", "B", 8),
     Rising("B", 10), OncePulse("Horn", 3, 10),
     If("A", 12), OncePulse("Bell", 2, 12), If("divide", 14), OncePulse("Bell", 3, 14),
     Analog("divide", 15) >>
=============================================================================
