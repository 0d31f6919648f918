------------------------------- MODULE SimLoop --------------------------------
(***************************************************************************)
(* `s7db sim --plc --write`: the loop of SimCmd.Run (cmd/s7db/main.go)     *)
(* around the Runner, with PLCSink of internal/sim/sink.go and the plc     *)
(* client.  Every cycle reads the script's tags from the PLC one by one,   *)
(* runs Step, and writes what changed, tag by tag.                         *)
(*                                                                         *)
(* Meanwhile the PLC's own program and its other clients change tags, and  *)
(* any call to the PLC may fail, a write also after it took effect.  Only  *)
(* BOOL tags are kept: their writes read a byte and write it back.         *)
(***************************************************************************)
EXTENDS PulseRunner

CONSTANTS
  Tags,        \* BOOL tags of the schema; Inputs are those the script uses
  Writable,    \* the tags filterPushes lets through (--allow-write, roles)
  Field,       \* the tags the PLC's program or another client changes
  ByteOf(_),   \* the byte a tag is in
  Reconnect,   \* --reconnect
  Signals      \* TRUE: SIGINT or SIGTERM may arrive

ASSUME TagsAssumption == Inputs \subseteq Tags /\ Writable \subseteq Tags

VARIABLES
  at,         \* "head", "pull", "step", "push", "write", "sleep", "exit"
  signalled,  \* sigCtx is done
  linked,     \* the plc client has a handler
  plc,        \* the tags in the PLC's memory
  toPull,     \* the tags Pull has yet to read
  toPush,     \* the changes Push has yet to write
  byte,       \* the tags of one byte as Push read them
  dropped     \* history: a Push has failed, and with it changes were dropped

loopVars == <<at, signalled, linked, plc, toPull, toPush, byte, dropped>>
simVars == <<vars, loopVars>>

SameByte(n) == {m \in Tags : ByteOf(m) = ByteOf(n)}

SimInit ==
  /\ Init
  /\ img = [n \in Names |-> FALSE]
  /\ at = "head"
  /\ signalled = FALSE
  /\ linked = TRUE
  /\ plc \in [Tags -> BOOLEAN]
  /\ toPull = {}
  /\ toPush = {}
  /\ byte = <<>>
  /\ dropped = FALSE

(* Mutated forms of the definitions below, named for the slip each makes.   *)
PushOnlyTrue == {c \in changes : c[1] \in Writable /\ c[2]}
PullWithoutOutputs == Inputs \ Writable
SignalUnchecked ==
  /\ at = "head"
  /\ at' = "pull"
  /\ toPull' = Inputs
  /\ UNCHANGED <<vars, signalled, linked, plc, toPush, byte, dropped>>
StepErrorRetried ==
  /\ at = "step"
  /\ RuntimeError
  /\ at' = "head"
  /\ UNCHANGED <<signalled, linked, plc, toPull, toPush, byte, dropped>>

-----------------------------------------------------------------------------
(* The environment *)

PlcProgram(n) ==
  /\ at # "exit"
  /\ plc' = [plc EXCEPT ![n] = ~@]
  /\ UNCHANGED <<vars, at, signalled, linked, toPull, toPush, byte, dropped>>

Signal ==
  /\ Signals /\ ~signalled /\ at # "exit"
  /\ signalled' = TRUE
  /\ UNCHANGED <<vars, at, linked, plc, toPull, toPush, byte, dropped>>

-----------------------------------------------------------------------------
(* The loop *)

PullList == Inputs

StartCycle ==
  /\ at = "head" /\ ~signalled
  /\ at' = "pull"
  /\ toPull' = PullList
  /\ UNCHANGED <<vars, signalled, linked, plc, toPush, byte, dropped>>

(* A signal, and --cycles or --duration reached. *)
Stop ==
  /\ at = "head" /\ signalled
  /\ at' = "exit"
  /\ UNCHANGED <<vars, signalled, linked, plc, toPull, toPush, byte, dropped>>

(* PLCSink.Reconnect: Close, then Connect, which may fail; `continue`.      *)
RetryAt == "head"
Redial == linked' \in BOOLEAN
Failed ==
  IF Reconnect THEN at' = RetryAt /\ Redial ELSE at' = "exit" /\ UNCHANGED linked

PullTag(n) ==
  /\ at = "pull" /\ n \in toPull /\ linked
  /\ img' = [img EXCEPT ![n] = plc[n]]
  /\ toPull' = toPull \ {n}
  /\ UNCHANGED <<phase, pc, lastBools, armed, active, executed, remaining, tagOwner,
                 changes, startImg, execLast, age>>
  /\ UNCHANGED <<at, signalled, linked, plc, toPush, byte, dropped>>

PullFails ==
  /\ at = "pull" /\ toPull # {}
  /\ Failed
  /\ toPull' = {}
  /\ UNCHANGED <<vars, signalled, plc, toPush, byte, dropped>>

(* runner.Step starts from the image as Pull left it. *)
Pulled ==
  /\ at = "pull" /\ toPull = {}
  /\ at' = "step"
  /\ phase' = "idle"
  /\ UNCHANGED <<pc, img, lastBools, armed, active, executed, remaining, tagOwner,
                 changes, startImg, execLast, age>>
  /\ UNCHANGED <<signalled, linked, plc, toPull, toPush, byte, dropped>>

Step ==
  /\ at = "step"
  /\ \/ StepBegin
     \/ ExecIf \/ ExecOn \/ SkipElse
     \/ ExecAssign \/ ExecAnalog
     \/ PulseFires \/ PulseQuiet \/ StepEnd
  /\ UNCHANGED loopVars

(* A run-time error of the script ends the command. *)
StepFails ==
  /\ at = "step"
  /\ RuntimeError
  /\ at' = "exit"
  /\ UNCHANGED <<signalled, linked, plc, toPull, toPush, byte, dropped>>

(* filterPushes. *)
Pushes == {c \in changes : c[1] \in Writable}

Filter ==
  /\ at = "step" /\ phase = "done"
  /\ at' = "push"
  /\ toPush' = Pushes
  /\ UNCHANGED <<vars, signalled, linked, plc, toPull, byte, dropped>>

(* Push of a BOOL: read its byte, ... *)
PushRead(c) ==
  /\ at = "push" /\ c \in toPush /\ linked
  /\ at' = "write"
  /\ byte' = [m \in SameByte(c[1]) |-> IF m = c[1] THEN c[2] ELSE plc[m]]
  /\ toPush' = toPush \ {c}
  /\ UNCHANGED <<vars, signalled, linked, plc, toPull, dropped>>

Store == plc' = [m \in Tags |-> IF m \in DOMAIN byte THEN byte[m] ELSE plc[m]]

(* ... set or clear the bit and write the byte back. *)
PushWrite ==
  /\ at = "write" /\ linked
  /\ at' = "push"
  /\ Store
  /\ byte' = <<>>
  /\ UNCHANGED <<vars, signalled, linked, toPull, toPush, dropped>>

(* A call of Push fails: what was not yet written is dropped. *)
PushFails ==
  /\ (at = "push" /\ toPush # {}) \/ at = "write"
  /\ Failed
  /\ (at = "write" /\ linked /\ Store) \/ UNCHANGED plc
  /\ toPush' = {}
  /\ byte' = <<>>
  /\ dropped' = TRUE
  /\ UNCHANGED <<vars, signalled, toPull>>

Pushed ==
  /\ at = "push" /\ toPush = {}
  /\ at' = "sleep"
  /\ UNCHANGED <<vars, signalled, linked, plc, toPull, toPush, byte, dropped>>

(* cycle++ and the wait for the next tick. *)
Sleep ==
  /\ at = "sleep"
  /\ at' = "head"
  /\ UNCHANGED <<vars, signalled, linked, plc, toPull, toPush, byte, dropped>>

Loop ==
  \/ StartCycle \/ Stop
  \/ \E n \in Inputs : PullTag(n)
  \/ PullFails \/ Pulled
  \/ Step \/ StepFails \/ Filter
  \/ \E c \in Names \X BOOLEAN : PushRead(c)
  \/ PushWrite \/ PushFails \/ Pushed \/ Sleep

SimNext ==
  \/ \E n \in Field : PlcProgram(n)
  \/ Signal
  \/ Loop

SimSpec == SimInit /\ [][SimNext]_simVars

(* The command's goroutine runs on. *)
SimFairSpec == SimSpec /\ WF_simVars(Loop)
-----------------------------------------------------------------------------
SimTypeOK ==
  /\ TypeOK
  /\ at \in {"head", "pull", "step", "push", "write", "sleep", "exit"}
  /\ signalled \in BOOLEAN
  /\ linked \in BOOLEAN
  /\ plc \in [Tags -> BOOLEAN]
  /\ toPull \subseteq Inputs
  /\ toPush \subseteq Writable \X BOOLEAN
  /\ dropped \in BOOLEAN
  /\ at = "write" => \E n \in Writable : byte \in [SameByte(n) -> BOOLEAN]

Own == (Writable \cap Inputs) \ Field

(* When a cycle has succeeded, the tags that only the script writes are in  *)
(* the PLC as they are in the image, whatever cycles failed before and     *)
(* wherever they failed.                                                   *)
CycleDelivers == at = "sleep" => \A n \in Own : plc[n] = img[n]

(* The variables have their types (what is to be pushed is in the filter,   *)
(* and the Runner's own types hold inside the loop), and CycleDelivers.     *)
SimInv == SimTypeOK /\ CycleDelivers

(* A signal ends the command, also while calls keep failing.                *)
SignalStops == signalled ~> at = "exit"

(* s7db/README.md:337: the pulsed tag goes TRUE, remains TRUE for N         *)
(* evaluations of Step, and then returns FALSE: in the PLC, for a tag only  *)
(* a `once` pulse drives, when no push fails.  A push that fails may be the *)
(* one of the FALSE, which no later cycle repeats (main.go:1085).           *)
PulseReturnsFalse ==
  <>[][~PullFails]_simVars =>
    \A s \in Sites :
      active[s] /\ plc[Tag(s)] ~> ~plc[Tag(s)] \/ dropped \/ at = "exit"

(* To the Runner, Pull is one step that gives its inputs any values, however *)
(* many calls it takes and however many of them fail: between two Steps the *)
(* Runner's image is the one its last Step left.                           *)
Simulated == INSTANCE PulseRunner WITH
  img <- IF phase = "done" THEN lastBools ELSE img

RunsTheRunner == Simulated!Spec
=============================================================================
