------------------------------ MODULE Heartbeat -------------------------------
(***************************************************************************)
(* heartbeat.Run with a client of its own, as `s7db heartbeat` runs it:    *)
(* beat after beat it writes the bit, reads it back and, when asked to,    *)
(* checks that the PLC has cleared it; after a failed call it closes the   *)
(* connection and dials again, with growing pauses, for as long as the     *)
(* heartbeat timeout allows.  (internal/heartbeat/heartbeat.go, plc.go)    *)
(*                                                                         *)
(* A call may fail at any time, a write also after it took effect; the     *)
(* signal that ends the command may come at any time, the PLC's program    *)
(* may change the bit at any time.  Time is counted in seconds.            *)
(***************************************************************************)
EXTENDS Naturals

CONSTANTS
  Options,       \* the flags the command may be given
  Count,         \* --count
  Timeout,       \* --heartbeat-timeout
  DialTimes      \* seconds a failing dial may take

Flags == [mode : {"set-true", "toggle", "set-false"},
          once : BOOLEAN, readback : BOOLEAN, clear : BOOLEAN, strict : BOOLEAN,
          reconnect : BOOLEAN]

ASSUME OptionsAssumption == Options \subseteq Flags
ASSUME TimeAssumption == Count \in Nat /\ Timeout \in Nat /\ DialTimes \subseteq Nat
ASSUME DialEnds == \E d \in DialTimes : \A e \in DialTimes : e <= d   \* --timeout

VARIABLES
  options,   \* the flags, which do not change
  at,        \* "dial", "wait", "head", "read", "write", "readback", "clear", "count", "sleep", "exit"
  exit,      \* how Run returned: "none", "nil", "error"
  cancelled, \* ctx is done
  socket,    \* "none"; "good"; "suspect", a call on it failed
  bit,       \* the heartbeat bit in the PLC
  wrote,     \* the value of this beat's write
  last,      \* lastToggle, "none" without haveLastToggle
  beat,      \* the beat's number, which counts no further than Count
  backoff, elapsed,  \* the next pause, the time since the first failed dial
  beats, acked   \* history: beats gone through, the last value written with success

vars == <<options, at, exit, cancelled, socket, bit, wrote, last, beat, backoff, elapsed, beats, acked>>
dial == <<backoff, elapsed>>

Mode == options.mode

Init ==
  /\ options \in Options
  /\ at = "dial" /\ exit = "none" /\ cancelled = FALSE
  /\ socket = "none"
  /\ bit \in BOOLEAN
  /\ wrote = FALSE /\ last = "none"
  /\ beat = 1
  /\ backoff = 1 /\ elapsed = 0
  /\ beats = 0 /\ acked = "none"

UpTo(n, max) == IF n < max THEN n + 1 ELSE n

(* Mutated forms of definitions below, named for the slip each makes.        *)
KeepSocket == socket' = "suspect"
ClockRestarts(d) == 0
TogglesFromPlc == last
HeadIgnoresCancel ==
  /\ at = "head"
  /\ at' = "write" /\ wrote' = (last = "FALSE")
  /\ UNCHANGED <<exit, cancelled, socket, bit, last, beat, dial, beats, acked>>
PausesTripled == 3 * backoff

-----------------------------------------------------------------------------
(* The environment *)

Cancel ==
  /\ ~cancelled /\ at # "exit"
  /\ cancelled' = TRUE
  /\ UNCHANGED <<at, exit, socket, bit, wrote, last, beat, dial, beats, acked>>

PlcProgram ==
  /\ at # "exit"
  /\ bit' = ~bit
  /\ UNCHANGED <<at, exit, cancelled, socket, wrote, last, beat, dial, beats, acked>>

-----------------------------------------------------------------------------
(* connectOrRetry *)

(* Run returns; the deferred Close runs. *)
Return(how) == at' = "exit" /\ exit' = how /\ socket' = "none"

FirstPause == backoff' = 1 /\ elapsed' = 0

(* Connect of a client that still has a handler does not dial. *)
Dial ==
  /\ at = "dial"
  /\ at' = "head"
  /\ socket' = IF socket = "none" THEN "good" ELSE socket
  /\ FirstPause
  /\ UNCHANGED <<exit, cancelled, bit, wrote, last, beat, beats, acked>>

(* The clock starts with the first failure, before the first pause. *)
Since(d) == IF backoff = 1 THEN 0 ELSE elapsed + d

DialFails(d) ==
  /\ at = "dial" /\ socket = "none"
  /\ options.reconnect /\ Since(d) <= Timeout
  /\ at' = "wait"
  /\ elapsed' = Since(d)
  /\ UNCHANGED <<exit, cancelled, socket, bit, wrote, last, beat, backoff, beats, acked>>

GiveUp(d) ==
  /\ at = "dial" /\ socket = "none"
  /\ ~options.reconnect \/ Since(d) > Timeout
  /\ Return("error")
  /\ elapsed' = Since(d)
  /\ UNCHANGED <<cancelled, bit, wrote, last, beat, backoff, beats, acked>>

Doubled == IF backoff < 30 THEN 2 * backoff ELSE backoff

Wait ==
  /\ at = "wait"
  /\ at' = "dial"
  /\ elapsed' = elapsed + backoff
  /\ backoff' = Doubled
  /\ UNCHANGED <<exit, cancelled, socket, bit, wrote, last, beat, beats, acked>>

WaitCancelled ==
  /\ at = "wait" /\ cancelled
  /\ Return("error")
  /\ UNCHANGED <<cancelled, bit, wrote, last, beat, dial, beats, acked>>

-----------------------------------------------------------------------------
(* A beat *)

Head ==
  /\ at = "head" /\ ~cancelled
  /\ at' = IF Mode = "set-false" \/ (Mode = "toggle" /\ last = "none") THEN "read" ELSE "write"
  /\ wrote' = (Mode = "set-true" \/ (Mode = "toggle" /\ last = "FALSE"))
  /\ UNCHANGED <<exit, cancelled, socket, bit, last, beat, dial, beats, acked>>

HeadCancelled ==
  /\ at = "head" /\ cancelled
  /\ Return("nil")
  /\ UNCHANGED <<cancelled, bit, wrote, last, beat, dial, beats, acked>>

Read ==
  /\ at = "read" /\ ~cancelled
  /\ wrote' = (Mode = "toggle" /\ ~bit)
  /\ at' = IF Mode = "toggle" \/ bit THEN "write" ELSE "readback"
  /\ UNCHANGED <<exit, cancelled, socket, bit, last, beat, dial, beats, acked>>

Name(b) == IF b THEN "TRUE" ELSE "FALSE"

Toggled == IF Mode = "toggle" THEN Name(wrote) ELSE last

Write ==
  /\ at = "write" /\ ~cancelled
  /\ bit' = wrote
  /\ last' = Toggled
  /\ acked' = Name(wrote)
  /\ at' = "readback"
  /\ UNCHANGED <<exit, cancelled, socket, wrote, beat, dial, beats>>

ReadBack ==
  /\ at = "readback"
  /\ ~options.readback \/ ~cancelled
  /\ at' = IF options.clear /\ Mode # "toggle" THEN "clear" ELSE "count"
  /\ UNCHANGED <<exit, cancelled, socket, bit, wrote, last, beat, dial, beats, acked>>

(* A call failed, or ctx was done before it: Close, then connectOrRetry for  *)
(* the next beat.                                                           *)
CloseFailed == socket' = "none"

CallFails ==
  /\ \/ at \in {"read", "write"}
     \/ at = "readback" /\ options.readback
  /\ (at = "write" /\ ~cancelled /\ bit' = wrote) \/ UNCHANGED bit
  /\ CloseFailed
  /\ at' = "dial"
  /\ FirstPause
  /\ beat' = UpTo(beat, Count)
  /\ UNCHANGED <<exit, cancelled, wrote, last, beats, acked>>

(* The check after --clear-within, whose read may fail. *)
Clear ==
  /\ at = "clear"
  /\ \E failed \in BOOLEAN :
       /\ IF options.strict /\ (failed \/ bit)
          THEN Return("error")
          ELSE /\ at' = "count"
               /\ socket' = IF failed THEN "suspect" ELSE socket
               /\ UNCHANGED exit
  /\ UNCHANGED <<cancelled, bit, wrote, last, beat, dial, beats, acked>>

ClearCancelled ==
  /\ at = "clear" /\ cancelled
  /\ Return("nil")
  /\ UNCHANGED <<cancelled, bit, wrote, last, beat, dial, beats, acked>>

LastBeat == options.once \/ (Count > 0 /\ beat >= Count)

BeatDone ==
  /\ at = "count"
  /\ beats' = UpTo(beats, Count)
  /\ IF LastBeat THEN Return("nil") ELSE at' = "sleep" /\ UNCHANGED <<exit, socket>>
  /\ UNCHANGED <<cancelled, bit, wrote, last, beat, dial, acked>>

Sleep ==
  /\ at = "sleep"
  /\ at' = "head"
  /\ beat' = UpTo(beat, Count)
  /\ UNCHANGED <<exit, cancelled, socket, bit, wrote, last, dial, beats, acked>>

SleepCancelled ==
  /\ at = "sleep" /\ cancelled
  /\ Return("nil")
  /\ UNCHANGED <<cancelled, bit, wrote, last, beat, dial, beats, acked>>

Run ==
  /\ UNCHANGED options
  /\ \/ Dial \/ (\E d \in DialTimes : DialFails(d) \/ GiveUp(d)) \/ Wait \/ WaitCancelled
     \/ Head \/ HeadCancelled \/ Read \/ Write \/ ReadBack \/ CallFails
     \/ Clear \/ ClearCancelled \/ BeatDone \/ Sleep \/ SleepCancelled

Next == Run \/ ((Cancel \/ PlcProgram) /\ UNCHANGED options)

Spec == Init /\ [][Next]_vars

(* Run's goroutine goes on; its calls and its pauses end. *)
FairSpec == Spec /\ WF_vars(Run)
-----------------------------------------------------------------------------
TypeOK ==
  /\ options \in Options
  /\ at \in {"dial", "wait", "head", "read", "write", "readback", "clear", "count", "sleep", "exit"}
  /\ exit \in {"none", "nil", "error"} /\ (at = "exit" <=> exit # "none")
  /\ cancelled \in BOOLEAN
  /\ socket \in {"none", "good", "suspect"}
  /\ bit \in BOOLEAN /\ wrote \in BOOLEAN
  /\ last \in {"none", "TRUE", "FALSE"}
  /\ beat \in Nat /\ beats \in 0 .. Count
  /\ backoff \in {1, 2, 4, 8, 16, 32}
  /\ elapsed \in Nat
  /\ acked \in {"none", "TRUE", "FALSE"}

(* The values the PLC acknowledged in mode toggle alternate, whatever calls  *)
(* failed, and wherever, between them.                                      *)
Alternates == [][Mode = "toggle" /\ Write => acked' # acked]_vars

(* A beat never begins on a connection a call has failed on, but for the     *)
(* call of the clear check, whose failure is only reported; and no call is  *)
(* made without a connection.                                               *)
CallsOnFreshConnection ==
  /\ at \in {"head", "read", "write", "readback", "clear", "count", "sleep"} => socket # "none"
  /\ socket = "suspect" => options.clear
  /\ at = "exit" => socket = "none"

(* The PLC is given up no later than a pause and a dial after the heartbeat  *)
(* timeout, and the pauses are no longer than what has been waited.         *)
GivesUpInTime ==
  /\ at \in {"wait", "dial"} => backoff <= elapsed + 1
  /\ \E d \in DialTimes : \A e \in DialTimes : e <= d /\ elapsed <= 2 * Timeout + 1 + d

(* The variables have their types (no pause but those of the doubling);      *)
(* CallsOnFreshConnection and GivesUpInTime.                                *)
Inv == TypeOK /\ CallsOnFreshConnection /\ GivesUpInTime

(* A signal ends the command, in whatever call or pause it finds it.        *)
CancelEnds == cancelled ~> at = "exit"

(* A command that can reach its PLC from some time on, or gives up, beats.   *)
BeatsOrGivesUp ==
  <>[][~CallFails]_vars /\ []~cancelled => <>(beats = Count \/ at = "exit")
=============================================================================
