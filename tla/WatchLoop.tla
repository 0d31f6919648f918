------------------------------ MODULE WatchLoop -------------------------------
(***************************************************************************)
(* `s7db watch`: WatchCmd.Run and printSample (cmd/s7db/main.go).  A sample *)
(* reads every variable twice, as bytes and as the value the PLC library   *)
(* makes of its address, and prints those that changed, or all without     *)
(* --diff.  When a call fails, the command ends, or with --reconnect       *)
(* pauses and calls Connect, which dials only if no dial worked before     *)
(* (internal/plc/plc.go): whether calls on a lost connection work again is *)
(* up to the library, which is external here and may fail at any call.     *)
(***************************************************************************)
EXTENDS Integers, Sequences

CONSTANTS
  Vars,        \* the operands, in their order
  Opaque,      \* those decode.Decode has no type for
  MaxLimit,    \* bound of the model: --count
  MaxChanges   \* bound of the model: changes by the PLC

Names == {Vars[i] : i \in DOMAIN Vars}

ASSUME OperandsAssumption ==
  /\ Vars \in Seq(Names) /\ Len(Vars) > 0
  /\ Opaque \subseteq Names
ASSUME BoundsAssumption == MaxLimit \in Nat /\ MaxChanges \in Nat

VARIABLES
  reconnect, diff, limit,   \* flags; limit: 1 with --once, 0 without end
  at,         \* "dial", "raw", "value", "print", "wait", "pause", "redial", "ended"
  handler,    \* plc.Client has a handler: a dial worked
  signal,
  plc,        \* of a variable: its value
  next,       \* the variable being read
  got,        \* [raw, value]: what was last read of a variable
  prev,       \* of a variable: what was last kept for comparison, or NotYet
  out,        \* variables to print
  count,      \* samples, counted with a limit only
  screen,     \* history: what was last printed of a variable, or NotYet
  lost        \* history: kept for comparison by a sample that failed, and not printed since

flags == <<reconnect, diff, limit>>
memory == <<got, prev, out, screen, lost>>
watchVars == <<flags, at, handler, signal, plc, next, memory, count>>

NotYet == [raw |-> -1, value |-> -1]

WatchInit ==
  /\ reconnect \in BOOLEAN /\ diff \in BOOLEAN /\ limit \in 0 .. MaxLimit
  /\ at = "dial" /\ handler = FALSE /\ signal = FALSE
  /\ plc = [v \in Names |-> 0]
  /\ next = 1
  /\ got = [v \in Names |-> NotYet]
  /\ prev = [v \in Names |-> NotYet]
  /\ out = {} /\ count = 0
  /\ screen = [v \in Names |-> NotYet]
  /\ lost = {}

(* Mutated forms of definitions below, named for the slip each makes.        *)
ChangedByBytes(v, old, new) == old.raw # new.raw
SignalOverlooked ==
  /\ at = "redial" /\ ~handler
  /\ at' = "pause"
  /\ UNCHANGED <<flags, handler, signal, plc, next, memory, count>>
CountedIfPrinted == IF limit = 0 \/ out = {} THEN count ELSE count + 1

----------------------------------------------------------------------------
(* The environment: the PLC and the user *)

Change(v) ==
  /\ plc[v] < MaxChanges
  /\ plc' = [plc EXCEPT ![v] = @ + 1]
  /\ UNCHANGED <<flags, at, handler, signal, next, memory, count>>

(* Before NotifyContext a signal ends the process.                           *)
Interrupt ==
  /\ ~signal /\ at # "ended"
  /\ signal' = TRUE
  /\ at' = IF at = "dial" THEN "ended" ELSE at
  /\ UNCHANGED <<flags, handler, plc, next, memory, count>>

----------------------------------------------------------------------------
(* printSample *)

StartSample == at' = "raw" /\ next' = 1 /\ out' = {}

(* changedWatchValue: decoded values by what they print as, others by bytes. *)
Changed(v, old, new) == IF v \in Opaque THEN old.raw # new.raw ELSE old.value # new.value

ReadRaw ==
  /\ at = "raw" /\ handler
  /\ got' = [got EXCEPT ![Vars[next]].raw = plc[Vars[next]]]
  /\ at' = "value"
  /\ UNCHANGED <<flags, handler, signal, plc, next, prev, out, screen, lost, count>>

(* The second read; the variable is kept for comparison, and to be printed.  *)
ReadValue ==
  LET v == Vars[next]
      state == [got[v] EXCEPT !.value = plc[v]]
      printed == ~diff \/ prev[v] = NotYet \/ Changed(v, prev[v], state)
  IN
  /\ at = "value"
  /\ got' = [got EXCEPT ![v] = state]
  /\ prev' = IF printed THEN [prev EXCEPT ![v] = state] ELSE prev
  /\ out' = IF printed THEN out \cup {v} ELSE out
  /\ IF next < Len(Vars) THEN at' = "raw" /\ next' = next + 1
                         ELSE at' = "print" /\ UNCHANGED next
  /\ UNCHANGED <<flags, handler, signal, plc, screen, lost, count>>

(* A read fails: what is kept stays, what was to be printed is dropped.      *)
SampleFails ==
  /\ at \in {"raw", "value"}
  /\ at' = IF reconnect THEN "pause" ELSE "ended"
  /\ out' = {}
  /\ lost' = lost \cup out
  /\ UNCHANGED <<flags, handler, signal, plc, next, got, prev, screen, count>>

Counted == IF limit = 0 THEN count ELSE count + 1

Report ==
  /\ at = "print"
  /\ screen' = [v \in Names |-> IF v \in out THEN got[v] ELSE screen[v]]
  /\ lost' = lost \ out
  /\ count' = Counted
  /\ at' = IF limit > 0 /\ count' >= limit THEN "ended" ELSE "wait"
  /\ UNCHANGED <<flags, handler, signal, plc, next, got, prev, out>>

----------------------------------------------------------------------------
(* WatchCmd.Run *)

FirstDial ==
  /\ at = "dial"
  /\ \/ handler' = TRUE /\ StartSample
     \/ /\ UNCHANGED handler
        /\ IF reconnect THEN StartSample ELSE at' = "ended" /\ UNCHANGED <<next, out>>
  /\ UNCHANGED <<flags, signal, plc, got, prev, screen, lost, count>>

(* select between the signal and the ticker, which may both be ready         *)
TickWait ==
  /\ at = "wait"
  /\ StartSample
  /\ UNCHANGED <<flags, handler, signal, plc, got, prev, screen, lost, count>>

SignalSeen ==
  /\ at = "wait" /\ signal
  /\ at' = "ended"
  /\ UNCHANGED <<flags, handler, signal, plc, next, memory, count>>

(* One second and up to 32: lengths make no difference to the properties.    *)
Pause ==
  /\ at = "pause"
  /\ at' = "redial"
  /\ UNCHANGED <<flags, handler, signal, plc, next, memory, count>>

(* Connect: no dial if there is a handler.  After a signal its context is    *)
(* done, but the dial may be quicker.                                        *)
Redial ==
  /\ at = "redial"
  /\ handler' = TRUE
  /\ StartSample
  /\ UNCHANGED <<flags, signal, plc, got, prev, screen, lost, count>>

RedialFails ==
  /\ at = "redial" /\ ~handler
  /\ at' = IF signal THEN "ended" ELSE "pause"
  /\ UNCHANGED <<flags, handler, signal, plc, next, memory, count>>

Loop ==
  \/ FirstDial
  \/ ReadRaw \/ ReadValue \/ SampleFails \/ Report
  \/ TickWait \/ SignalSeen
  \/ Pause \/ Redial \/ RedialFails

WatchNext == Interrupt \/ (\E v \in Names : Change(v)) \/ Loop

WatchSpec == WatchInit /\ [][WatchNext]_watchVars

(* Calls and pauses end, and select, which chooses at random, does not pass  *)
(* over the signal for ever.                                                 *)
WatchFairSpec == WatchSpec /\ WF_watchVars(Loop) /\ SF_watchVars(SignalSeen)
----------------------------------------------------------------------------
Reading == [raw : -1 .. MaxChanges, value : -1 .. MaxChanges]

WatchTypeOK ==
  /\ reconnect \in BOOLEAN /\ diff \in BOOLEAN /\ limit \in 0 .. MaxLimit
  /\ at \in {"dial", "raw", "value", "print", "wait", "pause", "redial", "ended"}
  /\ handler \in BOOLEAN /\ signal \in BOOLEAN
  /\ plc \in [Names -> 0 .. MaxChanges]
  /\ next \in 1 .. Len(Vars)
  /\ got \in [Names -> Reading] /\ prev \in [Names -> Reading] /\ screen \in [Names -> Reading]
  /\ out \subseteq Names /\ lost \subseteq Names
  /\ count \in 0 .. MaxLimit

Shows(v) ==
  IF v \in Opaque THEN screen[v].raw = got[v].raw ELSE screen[v].value = got[v].value

(* After a sample the screen shows of every variable what was just read, but *)
(* for one whose change a failed sample kept and did not print: --diff       *)
(* compares with what it read, not with what it printed (main.go:1381).      *)
ScreenOrLost ==
  at = "wait" => \A v \in Names : v \in lost \/ Shows(v)

WatchInv == WatchTypeOK /\ ScreenOrLost

(* With --count or --once the command ends, if samples fail no more from     *)
(* some time on: those that print nothing count, the failed ones do not.     *)
CountIsReached == <>[](at # "pause") => (limit > 0 ~> at = "ended")

(* A signal ends the command, also while dials fail; not while calls fail on *)
(* a connection made before: Connect returns at once, and nothing else looks *)
(* at the signal (main.go:1171).                                             *)
SignalEnds == <>[]~(at = "pause" /\ handler) => (signal ~> at = "ended")
=============================================================================
