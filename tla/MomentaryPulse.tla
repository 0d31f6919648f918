---------------------------- MODULE MomentaryPulse ----------------------------
(***************************************************************************)
(* What the simulator's pulses promise to the outputs they drive, with no  *)
(* script, image or latch: an output has at most one driver, taken only    *)
(* when it is free; a driver lets go after as many ticks as its width, or  *)
(* earlier when it is cancelled; and nothing makes a pulse longer.         *)
(***************************************************************************)
EXTENDS Integers

CONSTANTS
  Outputs,       \* BOOL tags
  Drivers,       \* pulse statements
  None,          \* no driver
  OutputOf(_),   \* the output a driver pulses
  WidthOf(_)     \* its width in ticks

VARIABLES
  driver,   \* who drives an output, or None
  left      \* the ticks its pulse has left, 0 when it is free

Init ==
  /\ driver = [o \in Outputs |-> None]
  /\ left = [o \in Outputs |-> 0]

Fire(d) ==
  /\ driver[OutputOf(d)] = None
  /\ driver' = [driver EXCEPT ![OutputOf(d)] = d]
  /\ left' = [left EXCEPT ![OutputOf(d)] = WidthOf(d)]

Driven(o) == driver[o] # None

(* One tick of the clock reaches every pulse at once. *)
Tick ==
  /\ left' = [o \in Outputs |-> IF Driven(o) THEN left[o] - 1 ELSE left[o]]
  /\ driver' = [o \in Outputs |-> IF left[o] = 1 THEN None ELSE driver[o]]

Cancel(R) ==
  /\ driver' = [o \in Outputs |-> IF o \in R THEN None ELSE driver[o]]
  /\ left' = [o \in Outputs |-> IF o \in R THEN 0 ELSE left[o]]

Next ==
  \/ \E d \in Drivers : Fire(d)
  \/ Tick
  \/ \E R \in SUBSET Outputs : Cancel(R)

Spec == Init /\ [][Next]_<<driver, left>>
=============================================================================
