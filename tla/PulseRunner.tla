----------------------------- MODULE PulseRunner -----------------------------
(***************************************************************************)
(* One evaluation of a simulator script: Runner.Step of                    *)
(* s7db/internal/sim/runner.go, with the pulse sites, the owner table, the *)
(* `once` latches, edge triggers and the list of changes Step returns.     *)
(*                                                                         *)
(* The script is a constant: its AST flattened into instructions with      *)
(* forward jumps, one pulse instruction per pulse site.  Step is           *)
(* sequential; the model gives each statement its own action so that what  *)
(* one statement sees of the statements above it is visible.               *)
(*                                                                         *)
(* Data: only BOOL names are kept.  An expression over other names is an   *)
(* expression with several possible outcomes, "error" among them when its  *)
(* evaluation may fail (division by zero).                                 *)
(***************************************************************************)
EXTENDS Integers, Sequences

CONSTANTS
  Names,           \* BOOL symbols of the program: schema tags and variables
  Inputs,          \* the names Sink.Pull overwrites before a Step
  Exprs,           \* expressions of the script
  Code,            \* the script's statements, flattened
  Outcomes(_, _)   \* results an expression may have on an image

Ops == {"if", "rising", "falling", "jump", "assign", "analog", "pulse"}

Instr == [op : Ops, name : Names, expr : Exprs, once : BOOLEAN,
          width : Nat \ {0}, to : Nat]

Results == {"true", "false", "error"}

ASSUME CodeAssumption ==
  /\ Code \in Seq(Instr)
  /\ \A i \in DOMAIN Code : Code[i].to \in (i + 1) .. (Len(Code) + 1)

ASSUME OutcomesAssumption ==
  \A e \in Exprs : \A m \in [Names -> BOOLEAN] : Outcomes(e, m) \subseteq Results

ASSUME InputsAssumption == Inputs \subseteq Names

(* A pulse site is a statement location (pulseSiteKey). *)
Sites == {i \in DOMAIN Code : Code[i].op = "pulse"}
NoSite == 0
Tag(s) == Code[s].name
Once(s) == Code[s].once
Width(s) == Code[s].width
TagsOf(S) == {Tag(s) : s \in S}

VARIABLES
  phase,      \* "done": Pull is next; "idle": Step is next; "run": in Step; "failed"
  pc,         \* the statement Step executes next
  img,        \* Image.values
  lastBools,  \* Runner.lastBools
  armed, active, executed, remaining,  \* pulseSiteState, by site
  tagOwner,   \* Runner.tagOwner
  changes     \* what Step will return, after mergeChanges: last value by name

(* History, read by no action: the image the Step started from, the sites  *)
(* the previous Step executed, and the Steps since a site fired.           *)
VARIABLES startImg, execLast, age

siteVars == <<armed, active, executed, remaining, tagOwner>>
history == <<startImg, execLast, age>>
vars == <<phase, pc, img, lastBools, siteVars, changes, history>>

(* The first Pull comes before the first Step. *)
Init ==
  /\ phase = "done"
  /\ pc = 1
  /\ img \in [Names -> BOOLEAN]
  /\ lastBools = [n \in Names |-> FALSE]
  /\ armed = [s \in Sites |-> TRUE]
  /\ active = [s \in Sites |-> FALSE]
  /\ executed = [s \in Sites |-> FALSE]
  /\ remaining = [s \in Sites |-> 0]
  /\ tagOwner = [n \in Names |-> NoSite]
  /\ changes = {}
  /\ startImg = img
  /\ execLast = [s \in Sites |-> FALSE]
  /\ age = [s \in Sites |-> 0]

(* Mutated forms of the definitions below, named for the slip each makes.   *)
MergeKeepsFirst(C, N, v) ==
  C \cup {<<n, v>> : n \in {k \in N : \A c \in C : c[1] # k}}
TickDownIdleToo(s) == remaining[s] - 1
TagBusyIgnored(s) == FALSE
SkippedOnceOnly == {s \in Sites : Once(s) /\ active[s] /\ ~executed[s]}
RetriggerActive(s) == tagOwner[Code[s].name] \in {NoSite, s} /\ (Code[s].once => armed[s])
RearmForgotten(s) == armed[s]
RearmWhenPulseOver(s) == armed[s] \/ (Once(s) /\ ~active[s])

(* mergeChanges: the last value reported for a name replaces earlier ones. *)
Merge(C, N, v) == {c \in C : c[1] \notin N} \cup (N \X {v})

(* endPulse for the sites S, whose tags change to FALSE on top of C. *)
EndPulse(S, C) ==
  /\ active' = [s \in Sites |-> active[s] /\ s \notin S]
  /\ tagOwner' = [n \in Names |-> IF n \in TagsOf(S) THEN NoSite ELSE tagOwner[n]]
  /\ img' = [n \in Names |-> img[n] /\ n \notin TagsOf(S)]
  /\ changes' = Merge(C, TagsOf(S), FALSE)

TickDown(s) == IF active[s] THEN remaining[s] - 1 ELSE remaining[s]

(* Step, before the statements: count the active pulses down and end the   *)
(* ones that have had their width.                                         *)
StepBegin ==
  LET over == {s \in Sites : active[s] /\ TickDown(s) <= 0}
  IN  /\ phase = "idle"
      /\ phase' = "run"
      /\ pc' = 1
      /\ remaining' = [s \in Sites |-> IF s \in over THEN 0 ELSE TickDown(s)]
      /\ executed' = [s \in Sites |-> FALSE]
      /\ EndPulse(over, {})
      /\ startImg' = img
      /\ execLast' = executed
      /\ age' = [s \in Sites |-> IF active[s] /\ s \notin over THEN age[s] + 1 ELSE 0]
      /\ UNCHANGED <<lastBools, armed>>

AtOp(ops) == phase = "run" /\ pc \in DOMAIN Code /\ Code[pc].op \in ops

Goto(taken) == pc' = IF taken THEN pc + 1 ELSE Code[pc].to

(* `if` and `on <expr>`: run the body, or go to the else branch or past it. *)
ExecIf ==
  /\ AtOp({"if"})
  /\ \E b \in BOOLEAN :
       /\ (IF b THEN "true" ELSE "false") \in Outcomes(Code[pc].expr, img)
       /\ Goto(b)
  /\ UNCHANGED <<phase, img, lastBools, siteVars, changes, history>>

EdgeSeen(n, rising) ==
  IF rising THEN ~lastBools[n] /\ img[n] ELSE lastBools[n] /\ ~img[n]

(* `on rising X` / `on falling X`: X now against X at the end of the last Step. *)
ExecOn ==
  /\ AtOp({"rising", "falling"})
  /\ Goto(EdgeSeen(Code[pc].name, Code[pc].op = "rising"))
  /\ UNCHANGED <<phase, img, lastBools, siteVars, changes, history>>

(* The end of a `then` list, with an else list to skip. *)
SkipElse ==
  /\ AtOp({"jump"})
  /\ Goto(FALSE)
  /\ UNCHANGED <<phase, img, lastBools, siteVars, changes, history>>

(* An assignment reports a change only when the stored value differs. *)
ExecAssign ==
  /\ AtOp({"assign"})
  /\ LET n == Code[pc].name
     IN  \E b \in BOOLEAN :
           /\ (IF b THEN "true" ELSE "false") \in Outcomes(Code[pc].expr, img)
           /\ img' = [img EXCEPT ![n] = b]
           /\ changes' = IF img[n] = b THEN changes ELSE Merge(changes, {n}, b)
  /\ Goto(TRUE)
  /\ UNCHANGED <<phase, lastBools, siteVars, history>>

(* An assignment to a name that is not BOOL: only its failure matters here. *)
ExecAnalog ==
  /\ AtOp({"analog"})
  /\ Outcomes(Code[pc].expr, img) # {"error"}
  /\ Goto(TRUE)
  /\ UNCHANGED <<phase, img, lastBools, siteVars, changes, history>>

(* A runtime error leaves Step at once; sim then exits (SimCmd.Run). *)
RuntimeError ==
  /\ AtOp({"if", "assign", "analog"})
  /\ "error" \in Outcomes(Code[pc].expr, img)
  /\ phase' = "failed"
  /\ UNCHANGED <<pc, img, lastBools, siteVars, changes, history>>

Latched(s) == Once(s) /\ ~armed[s]

TagBusy(s) == tagOwner[Tag(s)] \notin {NoSite, s}

(* A pulse is not retriggered while it is active. *)
CanFire(s) == ~Latched(s) /\ ~active[s] /\ ~TagBusy(s)

(* A pulse statement that is reached is executed, and a `once` latch that  *)
(* was armed is spent, whether or not the pulse then fires.                *)
ReachPulse ==
  /\ AtOp({"pulse"})
  /\ executed' = [executed EXCEPT ![pc] = TRUE]
  /\ armed' = [armed EXCEPT ![pc] = @ /\ ~Once(pc)]
  /\ Goto(TRUE)

PulseFires ==
  /\ ReachPulse
  /\ CanFire(pc)
  /\ img' = [img EXCEPT ![Tag(pc)] = TRUE]
  /\ active' = [active EXCEPT ![pc] = TRUE]
  /\ remaining' = [remaining EXCEPT ![pc] = Width(pc)]
  /\ tagOwner' = [tagOwner EXCEPT ![Tag(pc)] = pc]
  /\ changes' = Merge(changes, {Tag(pc)}, TRUE)
  /\ age' = [age EXCEPT ![pc] = 0]
  /\ UNCHANGED <<phase, lastBools, startImg, execLast>>

PulseQuiet ==
  /\ ReachPulse
  /\ ~CanFire(pc)
  /\ UNCHANGED <<phase, img, lastBools, active, remaining, tagOwner, changes, history>>

(* A `once` site that this Step skipped is armed again. *)
Rearmed(s) == armed[s] \/ (Once(s) /\ ~executed[s])

Skipped == {s \in Sites : active[s] /\ ~executed[s]}

(* Step, after the statements: cancel the pulses whose statement was not    *)
(* reached, re-arm the latches of skipped `once` sites, take the snapshot  *)
(* the next Step's edges compare with, return the changes.                 *)
StepEnd ==
  /\ phase = "run" /\ pc = Len(Code) + 1
  /\ phase' = "done"
  /\ remaining' = [s \in Sites |-> IF s \in Skipped THEN 0 ELSE remaining[s]]
  /\ EndPulse(Skipped, changes)
  /\ armed' = [s \in Sites |-> Rearmed(s)]
  /\ lastBools' = img'
  /\ UNCHANGED <<pc, executed, history>>

(* Sink.Pull refreshes the image before the next Step. *)
Pull ==
  /\ phase = "done"
  /\ phase' = "idle"
  /\ img' \in [Names -> BOOLEAN]
  /\ \A n \in Names \ Inputs : img'[n] = img[n]
  /\ UNCHANGED <<pc, lastBools, siteVars, changes, history>>

Next ==
  \/ StepBegin
  \/ ExecIf \/ ExecOn \/ SkipElse \/ ExecAssign \/ ExecAnalog \/ RuntimeError
  \/ PulseFires \/ PulseQuiet
  \/ StepEnd
  \/ Pull

Spec == Init /\ [][Next]_vars

(* The command's loop keeps evaluating the script (no --cycles limit). *)
FairSpec == Spec /\ WF_vars(Next)
-----------------------------------------------------------------------------
TypeOK ==
  /\ phase \in {"idle", "run", "done", "failed"}
  /\ pc \in 1 .. (Len(Code) + 1)
  /\ img \in [Names -> BOOLEAN]
  /\ lastBools \in [Names -> BOOLEAN]
  /\ armed \in [Sites -> BOOLEAN]
  /\ active \in [Sites -> BOOLEAN]
  /\ executed \in [Sites -> BOOLEAN]
  /\ remaining \in [Sites -> Nat]
  /\ tagOwner \in [Names -> Sites \cup {NoSite}]
  /\ changes \subseteq Names \X BOOLEAN
  /\ startImg \in [Names -> BOOLEAN]
  /\ execLast \in [Sites -> BOOLEAN]
  /\ age \in [Sites -> Nat]

(* The owner table and the active flags agree in both directions, so that  *)
(* endPulse, which deletes the tag's entry whoever owns it, never frees    *)
(* another site's pulse (runner.go:204, 213, 221).                         *)
OwnerIsActive ==
  /\ \A s \in Sites : active[s] => tagOwner[Tag(s)] = s
  /\ \A n \in Names : tagOwner[n] # NoSite =>
       active[tagOwner[n]] /\ Tag(tagOwner[n]) = n

(* Two statements that pulse one tag never drive it at the same time.      *)
OnePulsePerTag ==
  \A s, t \in Sites : active[s] /\ active[t] /\ Tag(s) = Tag(t) => s = t

(* A pulse is not stretched by its statement being executed again: Steps   *)
(* since it fired and Steps left always add up to its width.               *)
NotRetriggered ==
  \A s \in Sites : active[s] =>
    /\ age[s] + remaining[s] = Width(s)
    /\ remaining[s] > 0

(* When Step returns, every active pulse is one whose statement was        *)
(* reached in this Step: leaving the body cancels it in the same cycle.    *)
SkippedIsCancelled ==
  phase = "done" => \A s \in Sites : active[s] => executed[s]

(* A `once` site fires in a Step only if the Step before did not execute   *)
(* it: the latch is open only after a cycle that skipped the statement.    *)
OnceAfterIdleCycle ==
  \A s \in Sites :
    Once(s) /\ active[s] /\ age[s] = 0 /\ executed[s] => ~execLast[s]

(* What Step returns is exactly the difference it made: a name reported    *)
(* has the reported value, and one not reported is as the Step found it.   *)
(* Nothing else tells the caller what to write to the PLC.                 *)
ChangesAreTheDifference ==
  phase \in {"run", "done"} =>
    \A n \in Names :
      /\ \A v \in BOOLEAN : <<n, v>> \in changes => img[n] = v
      /\ img[n] # startImg[n] => <<n, img[n]>> \in changes

Assigned == {Code[i].name : i \in {j \in DOMAIN Code : Code[j].op = "assign"}}

(* While a pulse is active its tag is TRUE, unless the script assigns the  *)
(* tag or Pull overwrites it.                                              *)
ActivePulseHoldsTag ==
  \A s \in Sites :
    active[s] /\ Tag(s) \notin Assigned \cup Inputs => img[Tag(s)]

(* The variables have their types; OwnerIsActive, ActivePulseHoldsTag and    *)
(* SkippedIsCancelled.                                                     *)
Inv == TypeOK /\ OwnerIsActive /\ ActivePulseHoldsTag /\ SkippedIsCancelled

Sole(s) == \A t \in Sites : Tag(t) = Tag(s) => t = s

FirstExecution(s) == Once(s) /\ executed[s] /\ ~execLast[s]

(* The `once` site that no other statement shares its tag with fires on    *)
(* the first execution after an idle cycle.                                *)
SoleOnceFires ==
  phase = "done" =>
    \A s \in Sites : Sole(s) /\ FirstExecution(s) => active[s] /\ age[s] = 0

(* A `once` site fires after an idle cycle only, and does fire then if it is  *)
(* alone on its tag: OnceAfterIdleCycle and SoleOnceFires.                  *)
OnceContract == OnceAfterIdleCycle /\ SoleOnceFires

(* The pulse each tag carries, as MomentaryPulse sees it.                   *)
TicksLeft ==
  [n \in Names |-> IF tagOwner[n] = NoSite THEN 0 ELSE remaining[tagOwner[n]]]

Pulses == INSTANCE MomentaryPulse WITH
  Outputs <- Names, Drivers <- Sites, None <- NoSite,
  OutputOf <- Tag, WidthOf <- Width, driver <- tagOwner, left <- TicksLeft

(* The runner implements the contract: ticks, fires and cancellations of    *)
(* the tags are those of MomentaryPulse.                                    *)
PulseContract == Pulses!Spec

(* Every pulse ends, unless the script fails first.                        *)
PulseEnds ==
  \A s \in Sites : active[s] ~> (~active[s] \/ phase = "failed")
=============================================================================
