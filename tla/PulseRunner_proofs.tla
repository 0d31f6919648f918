-------------------------- MODULE PulseRunner_proofs --------------------------
(* Theorems about PulseRunner, for every script, every set of names and     *)
(* every meaning of the expressions, and then about SimLoop, whose loop     *)
(* takes the runner's steps, for every PLC around it.                       *)
EXTENDS SimLoop, TLAPS

(* What the assumption on the script says of one instruction, and of a site. *)
LEMMA CodeFacts ==
  /\ Len(Code) \in Nat
  /\ DOMAIN Code = 1 .. Len(Code)
  /\ \A i \in DOMAIN Code :
       /\ Code[i] \in Instr
       /\ Code[i].name \in Names
       /\ Code[i].to \in 1 .. (Len(Code) + 1)
       /\ i + 1 \in 1 .. (Len(Code) + 1)
<1>1. Code \in Seq(Instr) /\ \A i \in DOMAIN Code : Code[i].to \in (i + 1) .. (Len(Code) + 1)
  BY CodeAssumption
<1>2. Len(Code) \in Nat /\ DOMAIN Code = 1 .. Len(Code)
  BY <1>1
<1>3. ASSUME NEW i \in DOMAIN Code
      PROVE  /\ Code[i] \in Instr
             /\ Code[i].name \in Names
             /\ Code[i].to \in 1 .. (Len(Code) + 1)
             /\ i + 1 \in 1 .. (Len(Code) + 1)
  <2>1. Code[i] \in Instr
    BY <1>1
  <2>2. Code[i].name \in Names
    BY <2>1 DEF Instr
  <2>3. i \in 1 .. Len(Code)
    BY <1>2
  <2>4. Code[i].to \in (i + 1) .. (Len(Code) + 1)
    BY <1>1
  <2>5. Code[i].to \in 1 .. (Len(Code) + 1)
    BY <2>3, <2>4, <1>2
  <2> QED
    BY <2>1, <2>2, <2>3, <2>5, <1>2
<1> QED
  BY <1>2, <1>3

LEMMA SiteFacts ==
  \A s \in Sites :
    /\ s \in DOMAIN Code
    /\ s \in Nat \ {0}
    /\ Tag(s) \in Names
    /\ Width(s) \in Nat \ {0}
    /\ Once(s) \in BOOLEAN
<1> SUFFICES ASSUME NEW s \in Sites
             PROVE  /\ s \in DOMAIN Code
                    /\ s \in Nat \ {0}
                    /\ Tag(s) \in Names
                    /\ Width(s) \in Nat \ {0}
                    /\ Once(s) \in BOOLEAN
  OBVIOUS
<1>1. s \in DOMAIN Code
  BY DEF Sites
<1>2. Code[s] \in Instr
  BY <1>1, CodeFacts
<1>3. s \in Nat \ {0}
  BY <1>1, CodeFacts
<1> QED
  BY <1>1, <1>2, <1>3 DEF Instr, Tag, Width, Once

(* The statement under the program counter, and the counter's next value. *)
LEMMA GotoFacts ==
  ASSUME NEW ops, AtOp(ops), NEW b \in BOOLEAN, Goto(b)
  PROVE  pc' \in 1 .. (Len(Code) + 1)
BY CodeFacts DEF AtOp, Goto

LEMMA EndPulseType ==
  ASSUME TypeOK, NEW S \in SUBSET Sites, NEW C \in SUBSET (Names \X BOOLEAN),
         EndPulse(S, C)
  PROVE  /\ active' \in [Sites -> BOOLEAN]
         /\ tagOwner' \in [Names -> Sites \cup {NoSite}]
         /\ img' \in [Names -> BOOLEAN]
         /\ changes' \subseteq Names \X BOOLEAN
<1>1. TagsOf(S) \subseteq Names
  BY SiteFacts DEF TagsOf
<1>2. changes' \subseteq Names \X BOOLEAN
  BY <1>1 DEF EndPulse, Merge
<1>3. active' \in [Sites -> BOOLEAN]
  BY Zenon DEF TypeOK, EndPulse
<1>4. tagOwner' \in [Names -> Sites \cup {NoSite}]
  BY DEF TypeOK, EndPulse
<1>5. img' \in [Names -> BOOLEAN]
  BY Zenon DEF TypeOK, EndPulse
<1> QED
  BY <1>2, <1>3, <1>4, <1>5
-----------------------------------------------------------------------------
(* Each statement of a Step, and Pull, keeps the types.                      *)
LEMMA TypeKept == TypeOK /\ [Next]_vars => TypeOK'
<1> SUFFICES ASSUME TypeOK, [Next]_vars PROVE TypeOK'
  OBVIOUS
<1> USE DEF TypeOK
<1>1. CASE StepBegin
  <2> DEFINE over == {s \in Sites : active[s] /\ TickDown(s) <= 0}
  <2>1. over \in SUBSET Sites /\ {} \in SUBSET (Names \X BOOLEAN)
    OBVIOUS
  <2>2. EndPulse(over, {})
    BY <1>1 DEF StepBegin
  <2> HIDE DEF TypeOK
  <2>3. /\ active' \in [Sites -> BOOLEAN]
        /\ tagOwner' \in [Names -> Sites \cup {NoSite}]
        /\ img' \in [Names -> BOOLEAN]
        /\ changes' \subseteq Names \X BOOLEAN
    <3> HIDE DEF over
    <3> QED
      BY <2>1, <2>2, EndPulseType
  <2> USE DEF TypeOK
  <2>4. remaining' = [s \in Sites |-> IF s \in over THEN 0 ELSE TickDown(s)]
    BY <1>1 DEF StepBegin
  <2>5. remaining' \in [Sites -> Nat]
    <3> SUFFICES ASSUME NEW s \in Sites
                 PROVE  (IF s \in over THEN 0 ELSE TickDown(s)) \in Nat
      BY <2>4
    <3> QED
      BY DEF TickDown
  <2>6. age' \in [Sites -> Nat]
    BY <1>1 DEF StepBegin
  <2>7. pc' \in 1 .. (Len(Code) + 1)
    BY <1>1, CodeFacts DEF StepBegin
  <2>8. executed' \in [Sites -> BOOLEAN]
    BY <1>1 DEF StepBegin
  <2> QED
    BY <1>1, <2>3, <2>5, <2>6, <2>7, <2>8 DEF StepBegin
<1>2. CASE ExecIf
  <2>1. pc' \in 1 .. (Len(Code) + 1)
    BY <1>2, GotoFacts DEF ExecIf
  <2> QED
    BY <1>2, <2>1 DEF ExecIf, siteVars, history
<1>3. CASE ExecOn
  <2>0. EdgeSeen(Code[pc].name, Code[pc].op = "rising") \in BOOLEAN
    BY DEF EdgeSeen
  <2>1. pc' \in 1 .. (Len(Code) + 1)
    BY <1>3, <2>0, GotoFacts DEF ExecOn
  <2> QED
    BY <1>3, <2>1 DEF ExecOn, siteVars, history
<1>4. CASE SkipElse
  <2>1. pc' \in 1 .. (Len(Code) + 1)
    BY <1>4, GotoFacts DEF SkipElse
  <2> QED
    BY <1>4, <2>1 DEF SkipElse, siteVars, history
<1>5. CASE ExecAssign
  <2>1. pc' \in 1 .. (Len(Code) + 1)
    BY <1>5, GotoFacts DEF ExecAssign
  <2>2. Code[pc].name \in Names
    BY <1>5, CodeFacts DEF ExecAssign, AtOp
  <2>3. img' \in [Names -> BOOLEAN] /\ changes' \subseteq Names \X BOOLEAN
    BY <1>5, <2>2 DEF ExecAssign, Merge
  <2> QED
    BY <1>5, <2>1, <2>3 DEF ExecAssign, siteVars, history
<1>6. CASE ExecAnalog
  <2>1. pc' \in 1 .. (Len(Code) + 1)
    BY <1>6, GotoFacts DEF ExecAnalog
  <2> QED
    BY <1>6, <2>1 DEF ExecAnalog, siteVars, history
<1>7. CASE RuntimeError
  BY <1>7 DEF RuntimeError, siteVars, history
<1>8. CASE PulseFires
  <2>1. pc' \in 1 .. (Len(Code) + 1)
    BY <1>8, GotoFacts DEF PulseFires, CanFire, ReachPulse
  <2>2. pc \in Sites
    BY <1>8 DEF PulseFires, CanFire, ReachPulse, AtOp, Sites
  <2>3. executed' \in [Sites -> BOOLEAN]
    BY <1>8 DEF PulseFires, CanFire, ReachPulse
  <2>4. armed' \in [Sites -> BOOLEAN]
    BY <1>8, <2>2, SiteFacts, Zenon DEF PulseFires, CanFire, ReachPulse
  <2>5. changes' \subseteq Names \X BOOLEAN
    BY <1>8, <2>2, SiteFacts DEF PulseFires, CanFire, Merge
  <2>6. tagOwner' \in [Names -> Sites \cup {NoSite}]
    BY <1>8, <2>2 DEF PulseFires, CanFire
  <2>7. remaining' \in [Sites -> Nat]
    BY <1>8, <2>2, SiteFacts DEF PulseFires, CanFire
  <2> QED
    BY <1>8, <2>1, <2>2, <2>3, <2>4, <2>5, <2>6, <2>7 DEF PulseFires, CanFire
<1>9. CASE PulseQuiet
  <2>1. pc' \in 1 .. (Len(Code) + 1)
    BY <1>9, GotoFacts DEF PulseQuiet, CanFire, ReachPulse
  <2>2. pc \in Sites
    BY <1>9 DEF PulseQuiet, CanFire, ReachPulse, AtOp, Sites
  <2>3. executed' \in [Sites -> BOOLEAN]
    BY <1>9 DEF PulseQuiet, CanFire, ReachPulse
  <2>4. armed' \in [Sites -> BOOLEAN]
    BY <1>9, <2>2, SiteFacts, Zenon DEF PulseQuiet, CanFire, ReachPulse
  <2> QED
    BY <1>9, <2>1, <2>3, <2>4 DEF PulseQuiet, CanFire, history
<1>10. CASE StepEnd
  <2>1. Skipped \in SUBSET Sites /\ changes \in SUBSET (Names \X BOOLEAN)
    BY DEF Skipped
  <2>2. EndPulse(Skipped, changes)
    BY <1>10 DEF StepEnd
  <2> HIDE DEF TypeOK
  <2>3. /\ active' \in [Sites -> BOOLEAN]
        /\ tagOwner' \in [Names -> Sites \cup {NoSite}]
        /\ img' \in [Names -> BOOLEAN]
        /\ changes' \subseteq Names \X BOOLEAN
    BY <2>1, <2>2, EndPulseType
  <2> USE DEF TypeOK
  <2>4. remaining' \in [Sites -> Nat]
    BY <1>10 DEF StepEnd
  <2>5. armed' \in [Sites -> BOOLEAN]
    BY <1>10, Zenon DEF StepEnd, Rearmed
  <2>6. lastBools' \in [Names -> BOOLEAN]
    BY <1>10, <2>3 DEF StepEnd
  <2> QED
    BY <1>10, <2>3, <2>4, <2>5, <2>6 DEF StepEnd, history
<1>11. CASE Pull
  BY <1>11 DEF Pull, siteVars, history
<1>12. CASE UNCHANGED vars
  BY <1>12 DEF vars, siteVars, history
<1> QED
  BY <1>1, <1>2, <1>3, <1>4, <1>5, <1>6, <1>7, <1>8, <1>9, <1>10, <1>11, <1>12 DEF Next

(* Type correctness: every variable keeps its type in every behaviour of    *)
(* Runner.Step and Sink.Pull.                                               *)
THEOREM TypeCorrect == Spec => []TypeOK
<1>1. Init => TypeOK
  <2> SUFFICES ASSUME Init PROVE TypeOK
    OBVIOUS
  <2>1. 1 \in 1 .. (Len(Code) + 1)
    BY CodeFacts
  <2> QED
    BY <2>1 DEF Init, TypeOK
<1> QED
  BY <1>1, TypeKept, PTL DEF Spec
-----------------------------------------------------------------------------
(* Only four actions touch the pulse sites; the others leave them, and the   *)
(* history about them, as they are.                                         *)
LEMMA SiteSteps ==
  ASSUME [Next]_vars
  PROVE  \/ StepBegin \/ PulseFires \/ PulseQuiet \/ StepEnd
         \/ /\ UNCHANGED siteVars /\ UNCHANGED history
            /\ phase' = "run" => phase = "run"
BY DEF Next, vars, ExecIf, ExecOn, SkipElse, ExecAssign, ExecAnalog, RuntimeError, Pull, AtOp

LEMMA PulseStepSite ==
  /\ PulseFires => pc \in Sites
  /\ PulseQuiet => pc \in Sites
BY DEF PulseFires, CanFire, PulseQuiet, ReachPulse, AtOp, Sites

(* Ending sites that are active, with the owner table in agreement, frees    *)
(* exactly their own tags.                                                  *)
LEMMA EndPulseOwner ==
  ASSUME TypeOK, OwnerIsActive, NEW S \in SUBSET Sites,
         \A s \in S : active[s], NEW C, EndPulse(S, C)
  PROVE  OwnerIsActive'
<1>1. ASSUME NEW s \in Sites, active'[s]
      PROVE  tagOwner'[Tag(s)] = s
  <2>1. active[s] /\ s \notin S
    BY <1>1 DEF EndPulse, TypeOK
  <2>2. tagOwner[Tag(s)] = s
    BY <2>1 DEF OwnerIsActive
  <2>3. Tag(s) \notin TagsOf(S)
    BY <2>1, <2>2 DEF OwnerIsActive, TagsOf
  <2> QED
    BY <2>2, <2>3, SiteFacts DEF EndPulse
<1>2. ASSUME NEW n \in Names, tagOwner'[n] # NoSite
      PROVE  active'[tagOwner'[n]] /\ Tag(tagOwner'[n]) = n
  <2>1. n \notin TagsOf(S) /\ tagOwner'[n] = tagOwner[n]
    BY <1>2 DEF EndPulse
  <2>2. active[tagOwner[n]] /\ Tag(tagOwner[n]) = n /\ tagOwner[n] \in Sites
    BY <1>2, <2>1 DEF OwnerIsActive, TypeOK
  <2>3. tagOwner[n] \notin S
    BY <2>1, <2>2 DEF TagsOf
  <2> QED
    BY <2>1, <2>2, <2>3 DEF EndPulse, TypeOK
<1> QED
  BY <1>1, <1>2, Zenon DEF OwnerIsActive

(* The owner table and the active flags always agree.                       *)
THEOREM OwnerCorrect == Spec => []OwnerIsActive
<1>1. Init => OwnerIsActive
  BY SiteFacts DEF Init, OwnerIsActive
<1>2. TypeOK /\ OwnerIsActive /\ [Next]_vars => OwnerIsActive'
  <2> SUFFICES ASSUME TypeOK, OwnerIsActive, [Next]_vars
               PROVE  OwnerIsActive'
    OBVIOUS
  <2>1. CASE StepBegin
    <3> DEFINE over == {s \in Sites : active[s] /\ TickDown(s) <= 0}
    <3>1. EndPulse(over, {})
      BY <2>1 DEF StepBegin
    <3>2. over \in SUBSET Sites /\ \A s \in over : active[s]
      OBVIOUS
    <3> HIDE DEF over
    <3> QED
      BY <3>1, <3>2, EndPulseOwner
  <2>2. CASE StepEnd
    <3>1. EndPulse(Skipped, changes)
      BY <2>2 DEF StepEnd
    <3>2. Skipped \in SUBSET Sites /\ \A s \in Skipped : active[s]
      BY DEF Skipped
    <3> QED
      BY <3>1, <3>2, EndPulseOwner
  <2>3. CASE PulseFires
    <3>1. pc \in Sites /\ Tag(pc) \in Names /\ pc # NoSite
      BY <2>3, PulseStepSite, SiteFacts DEF NoSite
    <3>2. tagOwner[Tag(pc)] = NoSite
      BY <2>3, <3>1 DEF PulseFires, CanFire, TagBusy, OwnerIsActive
    <3>3. ASSUME NEW s \in Sites, active'[s]
          PROVE  tagOwner'[Tag(s)] = s
      <4>1. CASE s = pc
        BY <4>1, <2>3, <3>1 DEF PulseFires, CanFire, TypeOK
      <4>2. CASE s # pc
        <5>1. active[s] /\ tagOwner[Tag(s)] = s
          BY <4>2, <3>3, <2>3 DEF PulseFires, CanFire, TypeOK, OwnerIsActive
        <5>2. Tag(s) # Tag(pc)
          BY <5>1, <3>2, SiteFacts DEF NoSite
        <5> QED
          BY <5>1, <5>2, <2>3, SiteFacts DEF PulseFires, CanFire, TypeOK
      <4> QED
        BY <4>1, <4>2
    <3>4. ASSUME NEW n \in Names, tagOwner'[n] # NoSite
          PROVE  active'[tagOwner'[n]] /\ Tag(tagOwner'[n]) = n
      BY <3>1, <3>4, <2>3 DEF PulseFires, CanFire, TypeOK, OwnerIsActive
    <3> QED
      BY <3>3, <3>4, Zenon DEF OwnerIsActive
  <2>4. CASE PulseQuiet
    BY <2>4 DEF PulseQuiet, CanFire, OwnerIsActive
  <2>5. CASE UNCHANGED siteVars
    BY <2>5 DEF siteVars, OwnerIsActive
  <2> QED
    BY <2>1, <2>2, <2>3, <2>4, <2>5, SiteSteps
<1> QED
  BY <1>1, <1>2, TypeCorrect, PTL DEF Spec

(* Two statements never drive one tag at the same time.                      *)
THEOREM ExclusivePulse == Spec => []OnePulsePerTag
<1>1. OwnerIsActive => OnePulsePerTag
  BY DEF OwnerIsActive, OnePulsePerTag
<1> QED
  BY <1>1, OwnerCorrect, PTL

(* A pulse lasts its width: it is never retriggered while active.           *)
THEOREM PulseWidth == Spec => []NotRetriggered
<1>1. Init => NotRetriggered
  BY DEF Init, NotRetriggered
<1>2. TypeOK /\ NotRetriggered /\ [Next]_vars => NotRetriggered'
  <2> SUFFICES ASSUME TypeOK, NotRetriggered, [Next]_vars,
                      NEW s \in Sites, active'[s]
               PROVE  age'[s] + remaining'[s] = Width(s) /\ remaining'[s] > 0
    BY DEF NotRetriggered
  <2>0. Width(s) \in Nat \ {0}
    BY SiteFacts
  <2>1. CASE StepBegin
    <3> DEFINE over == {t \in Sites : active[t] /\ TickDown(t) <= 0}
    <3>1. active[s] /\ s \notin over
      BY <2>1 DEF StepBegin, EndPulse
    <3>2. age'[s] = age[s] + 1 /\ remaining'[s] = remaining[s] - 1
      BY <2>1, <3>1 DEF StepBegin, TickDown
    <3>3. age[s] \in Nat /\ remaining[s] \in Nat
      BY DEF TypeOK
    <3>4. remaining[s] - 1 > 0
      BY <3>1, <3>3 DEF TickDown
    <3> QED
      BY <3>1, <3>2, <3>3, <3>4, <2>0 DEF NotRetriggered
  <2>2. CASE StepEnd
    <3>1. active[s] /\ s \notin Skipped
      BY <2>2 DEF StepEnd, EndPulse
    <3> QED
      BY <2>2, <3>1 DEF StepEnd, NotRetriggered, history
  <2>3. CASE PulseFires
    <3>1. CASE s = pc
      BY <2>0, <2>3, <3>1 DEF PulseFires, CanFire, TypeOK
    <3>2. CASE s # pc
      BY <2>3, <3>2 DEF PulseFires, CanFire, TypeOK, NotRetriggered
    <3> QED
      BY <3>1, <3>2
  <2>4. CASE PulseQuiet
    BY <2>4 DEF PulseQuiet, CanFire, NotRetriggered, history
  <2>5. CASE UNCHANGED siteVars /\ UNCHANGED history
    BY <2>5 DEF siteVars, history, NotRetriggered
  <2> QED
    BY <2>1, <2>2, <2>3, <2>4, <2>5, SiteSteps
<1> QED
  BY <1>1, <1>2, TypeCorrect, PTL DEF Spec
-----------------------------------------------------------------------------
(* What an armed latch says: the site has not been executed since the last   *)
(* cycle that skipped it; and a pulse of age 0 was fired by this Step.       *)
LatchMeaning ==
  \A s \in Sites :
    /\ Once(s) /\ armed[s] => ~executed[s]
    /\ phase = "run" /\ Once(s) /\ armed[s] => ~execLast[s]
    /\ active[s] /\ age[s] = 0 => executed[s]

(* A `once` pulse fires only after a cycle that skipped its statement.       *)
THEOREM OnceLatch == Spec => []OnceAfterIdleCycle
<1> DEFINE IInv == LatchMeaning /\ OnceAfterIdleCycle
<1>1. Init => IInv
  BY DEF Init, LatchMeaning, OnceAfterIdleCycle
<1>2. TypeOK /\ IInv /\ [Next]_vars => IInv'
  <2> SUFFICES ASSUME TypeOK, LatchMeaning, OnceAfterIdleCycle, [Next]_vars,
                      NEW s \in Sites
               PROVE  /\ Once(s) /\ armed'[s] => ~executed'[s]
                      /\ phase' = "run" /\ Once(s) /\ armed'[s] => ~execLast'[s]
                      /\ active'[s] /\ age'[s] = 0 => executed'[s]
                      /\ Once(s) /\ active'[s] /\ age'[s] = 0 /\ executed'[s]
                           => ~execLast'[s]
    BY DEF LatchMeaning, OnceAfterIdleCycle
  <2> USE DEF LatchMeaning, OnceAfterIdleCycle
  <2>1. CASE StepBegin
    <3>1. executed'[s] = FALSE /\ execLast'[s] = executed[s] /\ armed'[s] = armed[s]
      BY <2>1 DEF StepBegin
    <3>2. active'[s] => age'[s] = age[s] + 1 /\ age[s] \in Nat
      BY <2>1 DEF StepBegin, EndPulse, TypeOK
    <3> QED
      BY <3>1, <3>2
  <2>2. CASE StepEnd
    <3>1. /\ executed'[s] = executed[s] /\ execLast'[s] = execLast[s]
          /\ age'[s] = age[s] /\ phase' = "done"
          /\ armed'[s] => armed[s] \/ ~executed[s]
      BY <2>2 DEF StepEnd, Rearmed, history
    <3>2. active'[s] => active[s]
      BY <2>2 DEF StepEnd, EndPulse
    <3> QED
      BY <3>1, <3>2
  <2>3. CASE PulseFires \/ PulseQuiet
    <3>1. /\ pc \in Sites /\ phase = "run" /\ phase' = "run" /\ execLast' = execLast
          /\ executed' = [executed EXCEPT ![pc] = TRUE]
          /\ armed' = [armed EXCEPT ![pc] = @ /\ ~Once(pc)]
      BY <2>3, PulseStepSite DEF PulseFires, CanFire, PulseQuiet, ReachPulse, AtOp, history
    <3>2. CASE s # pc
      <4>1. executed'[s] = executed[s] /\ armed'[s] = armed[s]
        BY <3>1, <3>2 DEF TypeOK
      <4>2. active'[s] = active[s] /\ age'[s] = age[s]
        BY <2>3, <3>2 DEF PulseFires, CanFire, PulseQuiet, TypeOK, history
      <4> QED
        BY <3>1, <4>1, <4>2
    <3>3. CASE s = pc
      <4>1. executed'[s] = TRUE /\ (Once(s) => ~armed'[s])
        BY <3>1, <3>3 DEF TypeOK
      <4>2. CASE PulseFires
        <5>1. Once(s) => armed[s]
          BY <4>2, <3>3 DEF PulseFires, CanFire, Latched
        <5> QED
          BY <3>1, <4>1, <5>1
      <4>3. CASE PulseQuiet
        <5>1. active'[s] = active[s] /\ age'[s] = age[s]
          BY <4>3 DEF PulseQuiet, CanFire, history
        <5> QED
          BY <3>1, <4>1, <5>1
      <4> QED
        BY <2>3, <4>2, <4>3
    <3> QED
      BY <3>2, <3>3
  <2>4. CASE UNCHANGED siteVars /\ UNCHANGED history /\ (phase' = "run" => phase = "run")
    BY <2>4 DEF siteVars, history
  <2> QED
    BY <2>1, <2>2, <2>3, <2>4, SiteSteps
<1> QED
  BY <1>1, <1>2, TypeCorrect, PTL DEF Spec

(* When Step returns, every active pulse was reached in that Step.           *)
THEOREM SkippedCancelled == Spec => []SkippedIsCancelled
<1>1. Init => SkippedIsCancelled
  BY DEF Init, SkippedIsCancelled
<1>2. TypeOK /\ SkippedIsCancelled /\ [Next]_vars => SkippedIsCancelled'
  <2> SUFFICES ASSUME TypeOK, SkippedIsCancelled, [Next]_vars
               PROVE  SkippedIsCancelled'
    OBVIOUS
  <2>1. CASE StepEnd
    BY <2>1 DEF StepEnd, EndPulse, Skipped, SkippedIsCancelled
  <2>2. CASE phase' # "done"
    BY <2>2 DEF SkippedIsCancelled
  <2>3. CASE UNCHANGED <<phase, active, executed>>
    BY <2>3 DEF SkippedIsCancelled
  <2> QED
    BY <2>1, <2>2, <2>3 DEF Next, vars, siteVars, StepBegin, ExecIf, ExecOn, SkipElse, ExecAssign, ExecAnalog, RuntimeError, PulseFires, CanFire, PulseQuiet, ReachPulse, AtOp, Pull
<1> QED
  BY <1>1, <1>2, TypeCorrect, PTL DEF Spec
-----------------------------------------------------------------------------
(* Merging one value for a set of names into a set of changes that already   *)
(* describes an image describes the image with those names set.              *)
Describes(C, old, new) ==
  \A n \in Names :
    /\ \A v \in BOOLEAN : <<n, v>> \in C => new[n] = v
    /\ new[n] # old[n] => <<n, new[n]>> \in C

LEMMA MergeDescribes ==
  ASSUME NEW C, NEW old, NEW m, NEW N \in SUBSET Names, NEW v \in BOOLEAN, NEW new,
         Describes(C, old, m),
         \A n \in Names : new[n] = (IF n \in N THEN v ELSE m[n])
  PROVE  Describes(Merge(C, N, v), old, new)
<1> SUFFICES ASSUME NEW n \in Names
             PROVE  /\ \A w \in BOOLEAN : <<n, w>> \in Merge(C, N, v) => new[n] = w
                    /\ new[n] # old[n] => <<n, new[n]>> \in Merge(C, N, v)
  BY DEF Describes
<1>1. CASE n \in N
  <2>1. new[n] = v
    BY <1>1
  <2>2. ASSUME NEW w \in BOOLEAN, <<n, w>> \in Merge(C, N, v)
        PROVE  w = v
    BY <1>1, <2>2 DEF Merge
  <2>3. <<n, v>> \in Merge(C, N, v)
    BY <1>1 DEF Merge
  <2> QED
    BY <2>1, <2>2, <2>3
<1>2. CASE n \notin N
  <2>1. new[n] = m[n]
    BY <1>2
  <2>2. \A w : <<n, w>> \in Merge(C, N, v) <=> <<n, w>> \in C
    BY <1>2 DEF Merge
  <2> QED
    BY <2>1, <2>2 DEF Describes
<1> QED
  BY <1>1, <1>2

LEMMA EndPulseDescribes ==
  ASSUME TypeOK, NEW S \in SUBSET Sites, NEW C, NEW old,
         Describes(C, old, img), EndPulse(S, C)
  PROVE  Describes(changes', old, img')
<1>1. TagsOf(S) \in SUBSET Names
  BY SiteFacts DEF TagsOf
<1>2. \A n \in Names : img'[n] = (IF n \in TagsOf(S) THEN FALSE ELSE img[n])
  BY DEF EndPulse, TypeOK
<1>3. changes' = Merge(C, TagsOf(S), FALSE)
  BY DEF EndPulse
<1> HIDE DEF EndPulse
<1> QED
  BY <1>1, <1>2, <1>3, MergeDescribes, Zenon

(* One statement, or Pull, keeps the changes the difference to the image the *)
(* Step started from.                                                        *)
LEMMA ChangesKept ==
  TypeOK /\ ChangesAreTheDifference /\ [Next]_vars => ChangesAreTheDifference'
<1>0. ChangesAreTheDifference <=>
        (phase \in {"run", "done"} => Describes(changes, startImg, img))
  BY DEF ChangesAreTheDifference, Describes
<1> SUFFICES ASSUME TypeOK, ChangesAreTheDifference, [Next]_vars,
                    phase' \in {"run", "done"}
             PROVE  Describes(changes', startImg', img')
  BY DEF ChangesAreTheDifference, Describes
<1>1. CASE StepBegin
  <2> DEFINE over == {t \in Sites : active[t] /\ TickDown(t) <= 0}
  <2>1. EndPulse(over, {}) /\ startImg' = img
    BY <1>1 DEF StepBegin
  <2>2. Describes({}, img, img)
    BY DEF Describes
  <2>3. over \in SUBSET Sites
    OBVIOUS
  <2> HIDE DEF over
  <2> QED
    BY <2>1, <2>2, <2>3, EndPulseDescribes
<1>2. CASE StepEnd
  <2>1. EndPulse(Skipped, changes) /\ startImg' = startImg /\ phase = "run"
    BY <1>2 DEF StepEnd, history
  <2>2. Describes(changes, startImg, img) /\ Skipped \in SUBSET Sites
    BY <2>1, <1>0 DEF Skipped
  <2> QED
    BY <2>1, <2>2, EndPulseDescribes
<1>3. CASE PulseFires
  <2>1. /\ pc \in Sites /\ phase = "run" /\ startImg' = startImg
        /\ img' = [img EXCEPT ![Tag(pc)] = TRUE]
        /\ changes' = Merge(changes, {Tag(pc)}, TRUE)
    BY <1>3, PulseStepSite DEF PulseFires, CanFire, ReachPulse, AtOp
  <2>2. \A n \in Names : img'[n] = (IF n \in {Tag(pc)} THEN TRUE ELSE img[n])
    BY <2>1 DEF TypeOK
  <2>3. {Tag(pc)} \in SUBSET Names /\ Describes(changes, startImg, img)
    BY <2>1, <1>0, SiteFacts
  <2> QED
    BY <2>1, <2>2, <2>3, MergeDescribes
<1>4. CASE ExecAssign
  <2> DEFINE n == Code[pc].name
  <2>1. phase = "run" /\ startImg' = startImg /\ n \in Names
    BY <1>4, CodeFacts DEF ExecAssign, AtOp, history
  <2>2. PICK b \in BOOLEAN :
          /\ img' = [img EXCEPT ![n] = b]
          /\ changes' = IF img[n] = b THEN changes ELSE Merge(changes, {n}, b)
    BY <1>4 DEF ExecAssign
  <2>3. Describes(changes, startImg, img)
    BY <2>1, <1>0
  <2>4. \A k \in Names : img'[k] = (IF k \in {n} THEN b ELSE img[k])
    BY <2>2 DEF TypeOK
  <2> HIDE DEF n
  <2>5. CASE img[n] = b
    <3>1. img' = img
      BY <2>1, <2>2, <2>5 DEF TypeOK
    <3> QED
      BY <2>1, <2>2, <2>3, <2>5, <3>1
  <2>6. CASE img[n] # b
    BY <2>1, <2>2, <2>3, <2>4, <2>6, MergeDescribes
  <2> QED
    BY <2>5, <2>6
<1>5. CASE UNCHANGED <<changes, startImg, img>> /\ phase \in {"run", "done"}
  BY <1>5, <1>0
<1> QED
  BY <1>1, <1>2, <1>3, <1>4, <1>5 DEF Next, vars, history, ExecIf, ExecOn, SkipElse, ExecAnalog, RuntimeError, PulseQuiet, CanFire, ReachPulse, AtOp, Pull

(* The changes Step returns are exactly the difference it made.              *)
THEOREM ChangesExact == Spec => []ChangesAreTheDifference
<1>1. Init => ChangesAreTheDifference
  BY DEF Init, ChangesAreTheDifference
<1> QED
  BY <1>1, ChangesKept, TypeCorrect, PTL DEF Spec
-----------------------------------------------------------------------------
(* Ending other sites' pulses leaves the tag of an active pulse alone.       *)
LEMMA EndPulseSpares ==
  ASSUME TypeOK, OwnerIsActive, NEW S \in SUBSET Sites,
         \A t \in S : active[t], NEW C, EndPulse(S, C),
         NEW s \in Sites, active'[s]
  PROVE  active[s] /\ s \notin S /\ Tag(s) \notin TagsOf(S) /\ img'[Tag(s)] = img[Tag(s)]
<1>1. active[s] /\ s \notin S
  BY DEF EndPulse, TypeOK
<1>2. Tag(s) \notin TagsOf(S)
  BY <1>1 DEF OwnerIsActive, TagsOf
<1>3. img'[Tag(s)] = (img[Tag(s)] /\ Tag(s) \notin TagsOf(S))
  BY SiteFacts, Zenon DEF EndPulse
<1>4. img[Tag(s)] \in BOOLEAN
  BY SiteFacts DEF TypeOK
<1> QED
  BY <1>1, <1>2, <1>3, <1>4

(* While a pulse is active its tag is TRUE, if only pulses write the tag.    *)
THEOREM PulseHoldsTag == Spec => []ActivePulseHoldsTag
<1>1. Init => ActivePulseHoldsTag
  BY DEF Init, ActivePulseHoldsTag
<1>2. TypeOK /\ OwnerIsActive /\ ActivePulseHoldsTag /\ [Next]_vars => ActivePulseHoldsTag'
  <2> SUFFICES ASSUME TypeOK, OwnerIsActive, ActivePulseHoldsTag, [Next]_vars,
                      NEW s \in Sites, active'[s], Tag(s) \notin Assigned \cup Inputs
               PROVE  img'[Tag(s)]
    BY DEF ActivePulseHoldsTag
  <2>1. CASE StepBegin
    <3> DEFINE over == {t \in Sites : active[t] /\ TickDown(t) <= 0}
    <3>1. EndPulse(over, {}) /\ over \in SUBSET Sites /\ \A t \in over : active[t]
      BY <2>1 DEF StepBegin
    <3> HIDE DEF over
    <3> QED
      BY <3>1, EndPulseSpares DEF ActivePulseHoldsTag
  <2>2. CASE StepEnd
    <3>1. EndPulse(Skipped, changes) /\ Skipped \in SUBSET Sites /\ \A t \in Skipped : active[t]
      BY <2>2 DEF StepEnd, Skipped
    <3> QED
      BY <3>1, EndPulseSpares DEF ActivePulseHoldsTag
  <2>3. CASE PulseFires
    BY <2>3, SiteFacts, PulseStepSite DEF PulseFires, CanFire, TypeOK, ActivePulseHoldsTag
  <2>4. CASE ExecAssign
    <3>1. Code[pc].name \in Assigned
      BY <2>4 DEF ExecAssign, AtOp, Assigned
    <3>2. img'[Tag(s)] = img[Tag(s)]
      BY <2>4, <3>1, SiteFacts DEF ExecAssign, TypeOK
    <3> QED
      BY <2>4, <3>2 DEF ExecAssign, siteVars, ActivePulseHoldsTag
  <2>5. CASE Pull
    BY <2>5, SiteFacts DEF Pull, siteVars, ActivePulseHoldsTag
  <2>6. CASE UNCHANGED <<img, active>>
    BY <2>6 DEF ActivePulseHoldsTag
  <2> QED
    BY <2>1, <2>2, <2>3, <2>4, <2>5, <2>6 DEF Next, vars, siteVars, ExecIf, ExecOn, SkipElse, ExecAnalog, RuntimeError, PulseQuiet, CanFire, ReachPulse
<1> QED
  BY <1>1, <1>2, TypeCorrect, OwnerCorrect, PTL DEF Spec

(* The invariant of the runner holds, for every script.                      *)
THEOREM RunnerInvariant == Spec => []Inv
<1>1. TypeOK /\ OwnerIsActive /\ ActivePulseHoldsTag /\ SkippedIsCancelled <=> Inv
  BY DEF Inv
<1> QED
  BY <1>1, TypeCorrect, OwnerCorrect, PulseHoldsTag, SkippedCancelled, PTL

(* A site that was skipped is armed and idle, and one executed for the first *)
(* time since has fired in this Step.                                       *)
FreshSite(s) ==
  /\ phase \in {"idle", "done"} /\ ~executed[s] => armed[s] /\ ~active[s]
  /\ phase = "run" /\ ~executed[s] /\ ~execLast[s] => armed[s] /\ ~active[s]
  /\ phase \in {"run", "done"} /\ executed[s] /\ ~execLast[s] => active[s] /\ age[s] = 0

SoleSites == {s \in Sites : Once(s) /\ Sole(s)}

(* A `once` statement that alone pulses its tag fires on the first execution *)
(* after a cycle that skipped it.                                           *)
THEOREM SoleOnce == Spec => []SoleOnceFires
<1> DEFINE IInv == \A s \in SoleSites : FreshSite(s)
<1>1. Init => IInv
  BY DEF Init, SoleSites, FreshSite
<1>2. TypeOK /\ OwnerIsActive /\ IInv /\ [Next]_vars => IInv'
  <2> SUFFICES ASSUME TypeOK, OwnerIsActive, [Next]_vars, NEW s \in SoleSites, FreshSite(s)
               PROVE  FreshSite(s)'
    BY DEF SoleSites
  <2>0. s \in Sites /\ Once(s) /\ Sole(s)
    BY DEF SoleSites
  <2> USE DEF FreshSite
  <2>1. CASE StepBegin
    <3>1. /\ phase = "idle" /\ phase' = "run" /\ executed'[s] = FALSE
          /\ execLast'[s] = executed[s] /\ armed'[s] = armed[s]
      BY <2>0, <2>1 DEF StepBegin
    <3>2. active'[s] => active[s]
      BY <2>0, <2>1 DEF StepBegin, EndPulse
    <3> QED
      BY <3>1, <3>2
  <2>2. CASE StepEnd
    <3>1. /\ phase = "run" /\ phase' = "done" /\ executed'[s] = executed[s]
          /\ execLast'[s] = execLast[s] /\ age'[s] = age[s]
          /\ armed'[s] = (armed[s] \/ ~executed[s])
          /\ active'[s] = (active[s] /\ s \notin Skipped)
      BY <2>0, <2>2, Zenon DEF StepEnd, Rearmed, EndPulse, history
    <3>2. s \in Skipped <=> active[s] /\ ~executed[s]
      BY <2>0 DEF Skipped
    <3>3. active[s] \in BOOLEAN /\ executed[s] \in BOOLEAN /\ armed[s] \in BOOLEAN
      BY <2>0 DEF TypeOK
    <3> QED
      BY <3>1, <3>2, <3>3
  <2>3. CASE PulseFires \/ PulseQuiet
    <3>1. /\ pc \in Sites /\ phase = "run" /\ phase' = "run" /\ execLast' = execLast
          /\ executed' = [executed EXCEPT ![pc] = TRUE]
          /\ armed' = [armed EXCEPT ![pc] = @ /\ ~Once(pc)]
      BY <2>3, PulseStepSite DEF PulseFires, CanFire, PulseQuiet, ReachPulse, AtOp, history
    <3>2. CASE s # pc
      <4>1. executed'[s] = executed[s] /\ armed'[s] = armed[s]
        BY <2>0, <3>1, <3>2 DEF TypeOK
      <4>2. active'[s] = active[s] /\ age'[s] = age[s]
        BY <2>0, <2>3, <3>2 DEF PulseFires, CanFire, PulseQuiet, TypeOK, history
      <4> QED
        BY <3>1, <4>1, <4>2
    <3>3. CASE s = pc
      <4>1. executed'[s] = TRUE
        BY <2>0, <3>1, <3>3 DEF TypeOK
      <4>2. SUFFICES ASSUME ~execLast[s]
                     PROVE  active'[s] /\ age'[s] = 0
        BY <3>1, <4>1
      <4>3. CASE PulseFires
        BY <2>0, <3>3, <4>3 DEF PulseFires, CanFire, TypeOK
      <4>4. CASE PulseQuiet
        <5>1. active' = active /\ age' = age
          BY <4>4 DEF PulseQuiet, CanFire, history
        <5>2. ~TagBusy(s)
          BY <2>0, SiteFacts DEF TagBusy, OwnerIsActive, Sole, TypeOK, NoSite
        <5>3. executed[s]
          BY <3>1, <3>3, <4>2, <4>4, <5>2 DEF PulseQuiet, CanFire, Latched
        <5> QED
          BY <3>1, <4>2, <5>1, <5>3
      <4> QED
        BY <2>3, <4>3, <4>4
    <3> QED
      BY <3>2, <3>3
  <2>4. CASE UNCHANGED siteVars /\ UNCHANGED history
    <3>1. CASE UNCHANGED phase
      BY <2>4, <3>1 DEF siteVars, history
    <3>2. CASE phase' = "failed" \/ Pull
      BY <2>4, <3>2 DEF siteVars, history, Pull
    <3>3. CASE StepBegin \/ StepEnd
      BY <2>1, <2>2, <3>3
    <3> QED
      BY <3>1, <3>2, <3>3 DEF Next, vars, ExecIf, ExecOn, SkipElse, ExecAssign, ExecAnalog, RuntimeError, PulseFires, CanFire, PulseQuiet, ReachPulse
  <2> QED
    BY <2>1, <2>2, <2>3, <2>4, SiteSteps
<1>3. IInv => SoleOnceFires
  BY DEF SoleSites, FreshSite, SoleOnceFires, FirstExecution
<1> QED
  BY <1>1, <1>2, <1>3, TypeCorrect, OwnerCorrect, PTL DEF Spec

(* A once site fires after an idle cycle only, and a sole one does.         *)
THEOREM OnceFires == Spec => []OnceContract
<1>1. OnceAfterIdleCycle /\ SoleOnceFires <=> OnceContract
  BY DEF OnceContract
<1> QED
  BY OnceLatch, SoleOnce, <1>1, PTL
-----------------------------------------------------------------------------
(* Ending the pulses S clears what MomentaryPulse sees of their tags, and    *)
(* only of theirs.                                                          *)
LEMMA EndPulseLeft ==
  ASSUME TypeOK, OwnerIsActive, NEW S \in SUBSET Sites, NEW C, EndPulse(S, C),
         NEW n \in Names
  PROVE  /\ n \in TagsOf(S) => tagOwner'[n] = NoSite /\ TicksLeft'[n] = 0
         /\ n \notin TagsOf(S) => /\ tagOwner'[n] = tagOwner[n]
                                  /\ tagOwner[n] # NoSite => tagOwner[n] \in Sites \ S
<1>1. tagOwner'[n] = (IF n \in TagsOf(S) THEN NoSite ELSE tagOwner[n])
  BY DEF EndPulse
<1>2. tagOwner[n] # NoSite => tagOwner[n] \in Sites /\ Tag(tagOwner[n]) = n
  BY DEF OwnerIsActive, TypeOK
<1>3. TicksLeft'[n] = IF tagOwner'[n] = NoSite THEN 0 ELSE remaining'[tagOwner'[n]]
  BY DEF TicksLeft
<1> QED
  BY <1>1, <1>2, <1>3 DEF TagsOf

(* The runner implements the contract MomentaryPulse states.                 *)
THEOREM RunnerKeepsContract == Spec => PulseContract
<1> DEFINE IInv == TypeOK /\ OwnerIsActive /\ NotRetriggered
<1>1. Init => Pulses!Init
  BY DEF Init, Pulses!Init, TicksLeft
<1>2. IInv /\ [Next]_vars => [Pulses!Next]_<<tagOwner, TicksLeft>>
  <2> SUFFICES ASSUME TypeOK, OwnerIsActive, NotRetriggered, [Next]_vars
               PROVE  [Pulses!Next]_<<tagOwner, TicksLeft>>
    OBVIOUS
  <2>0. ASSUME NEW n \in Names
        PROVE  TicksLeft[n] = IF tagOwner[n] = NoSite THEN 0 ELSE remaining[tagOwner[n]]
    BY DEF TicksLeft
  <2>1. CASE StepBegin
    <3> DEFINE over == {t \in Sites : active[t] /\ TickDown(t) <= 0}
    <3>1. EndPulse(over, {}) /\ over \in SUBSET Sites
      BY <2>1 DEF StepBegin
    <3>2. /\ \A t \in over : active[t] /\ remaining[t] = 1
          /\ \A t \in Sites : active[t] /\ remaining[t] = 1 => t \in over
          /\ \A t \in Sites : active[t] => remaining[t] \in Nat
          /\ \A t \in Sites : active[t] /\ t \notin over => remaining'[t] = remaining[t] - 1
      BY <2>1 DEF StepBegin, TickDown, NotRetriggered, TypeOK
    <3> HIDE DEF over
    <3>3. ASSUME NEW n \in Names
          PROVE  /\ tagOwner'[n] = IF TicksLeft[n] = 1 THEN NoSite ELSE tagOwner[n]
                 /\ TicksLeft'[n] = IF tagOwner[n] # NoSite THEN TicksLeft[n] - 1
                                                            ELSE TicksLeft[n]
      <4>1. TicksLeft'[n] = IF tagOwner'[n] = NoSite THEN 0 ELSE remaining'[tagOwner'[n]]
        BY DEF TicksLeft
      <4>2. CASE tagOwner[n] = NoSite
        <5>1. n \notin TagsOf(over)
          <6> SUFFICES ASSUME NEW t \in over, n = Tag(t) PROVE FALSE
            BY DEF TagsOf
          <6>1. t \in Sites /\ active[t]
            BY <3>1, <3>2
          <6> QED
            BY <4>2, <6>1, SiteFacts DEF OwnerIsActive, NoSite
        <5> QED
          BY <2>0, <3>1, <4>1, <4>2, <5>1, EndPulseLeft
      <4>3. CASE tagOwner[n] # NoSite
        <5>1. tagOwner[n] \in Sites /\ active[tagOwner[n]] /\ Tag(tagOwner[n]) = n
          BY <4>3 DEF OwnerIsActive, TypeOK
        <5>2. n \in TagsOf(over) <=> tagOwner[n] \in over
          <6>1. ASSUME NEW t \in over, n = Tag(t) PROVE t = tagOwner[n]
            <7>1. t \in Sites /\ active[t]
              BY <3>1, <3>2
            <7> QED
              BY <6>1, <7>1 DEF OwnerIsActive
          <6> QED
            BY <5>1, <6>1 DEF TagsOf
        <5>3. tagOwner[n] \in over <=> remaining[tagOwner[n]] = 1
          BY <3>2, <5>1
        <5> QED
          BY <2>0, <3>1, <3>2, <4>1, <4>3, <5>1, <5>2, <5>3, EndPulseLeft
      <4> QED
        BY <4>2, <4>3
    <3>4. Pulses!Tick
      <4>1. tagOwner' = [n \in Names |-> tagOwner'[n]]
        BY <2>1 DEF StepBegin, EndPulse
      <4> QED
        BY <3>3, <4>1, Zenon DEF Pulses!Tick, Pulses!Driven, TicksLeft
    <3> QED
      BY <3>4 DEF Pulses!Next
  <2>2. CASE StepEnd
    <3> DEFINE R == TagsOf(Skipped)
    <3>1. EndPulse(Skipped, changes) /\ Skipped \in SUBSET Sites
      BY <2>2 DEF StepEnd, Skipped
    <3>2. R \in SUBSET Names
      BY <3>1, SiteFacts DEF TagsOf
    <3>3. ASSUME NEW n \in Names
          PROVE  /\ tagOwner'[n] = IF n \in R THEN NoSite ELSE tagOwner[n]
                 /\ TicksLeft'[n] = IF n \in R THEN 0 ELSE TicksLeft[n]
      <4>1. TicksLeft'[n] = IF tagOwner'[n] = NoSite THEN 0 ELSE remaining'[tagOwner'[n]]
        BY DEF TicksLeft
      <4>2. \A t \in Sites \ Skipped : remaining'[t] = remaining[t]
        BY <2>2 DEF StepEnd
      <4> QED
        BY <2>0, <3>1, <4>1, <4>2, EndPulseLeft
    <3>4. Pulses!Cancel(R)
      <4>1. tagOwner' = [n \in Names |-> tagOwner'[n]]
        BY <3>1 DEF EndPulse
      <4> HIDE DEF R
      <4> QED
        BY <3>3, <4>1, Zenon DEF Pulses!Cancel, TicksLeft
    <3> QED
      BY <3>2, <3>4 DEF Pulses!Next
  <2>3. CASE PulseFires
    <3>1. pc \in Sites /\ Tag(pc) \in Names /\ pc # NoSite
      BY <2>3, PulseStepSite, SiteFacts DEF NoSite
    <3>2. tagOwner[Tag(pc)] = NoSite
      BY <2>3, <3>1 DEF PulseFires, CanFire, TagBusy, OwnerIsActive
    <3>3. /\ tagOwner' = [tagOwner EXCEPT ![Tag(pc)] = pc]
          /\ remaining' = [remaining EXCEPT ![pc] = Width(pc)]
      BY <2>3 DEF PulseFires, CanFire
    <3>4. ASSUME NEW n \in Names
          PROVE  TicksLeft'[n] = IF n = Tag(pc) THEN Width(pc) ELSE TicksLeft[n]
      <4>1. TicksLeft'[n] = IF tagOwner'[n] = NoSite THEN 0 ELSE remaining'[tagOwner'[n]]
        BY DEF TicksLeft
      <4>2. tagOwner[n] # NoSite => tagOwner[n] \in Sites /\ Tag(tagOwner[n]) = n
        BY DEF OwnerIsActive, TypeOK
      <4> QED
        BY <2>0, <3>1, <3>3, <4>1, <4>2 DEF TypeOK
    <3>5. TicksLeft' = [TicksLeft EXCEPT ![Tag(pc)] = Width(pc)]
      BY <3>4, Zenon DEF TicksLeft
    <3> QED
      BY <3>1, <3>2, <3>3, <3>5 DEF Pulses!Next, Pulses!Fire
  <2>4. CASE PulseQuiet
    BY <2>4 DEF PulseQuiet, CanFire, TicksLeft
  <2>5. CASE UNCHANGED siteVars
    BY <2>5 DEF siteVars, TicksLeft
  <2> QED
    BY <2>1, <2>2, <2>3, <2>4, <2>5, SiteSteps
<1> QED
  BY <1>1, <1>2, TypeCorrect, OwnerCorrect, PulseWidth, PTL DEF Spec, PulseContract, Pulses!Spec
-----------------------------------------------------------------------------
(* SimLoop.  Around the Runner, between two Steps, its image is the one its *)
(* last Step left, but for the tags that Pull has read since.               *)
Between ==
  /\ at \notin {"step", "exit"} => phase = "done"
  /\ phase = "done" => \A n \in Names \ Inputs : img[n] = lastBools[n]

(* Pull leaves the tags that only the script writes as the PLC has them,    *)
(* and while Step runs its history says what the PLC still has.             *)
Read ==
  \A n \in Own :
    /\ at = "pull" /\ n \notin toPull => img[n] = plc[n]
    /\ at = "step" /\ phase = "idle" => img[n] = plc[n]
    /\ at = "step" /\ phase \in {"run", "done"} => startImg[n] = plc[n]

(* Step runs on the changes it has made so far; Push has them to write.      *)
StillDue ==
  /\ at \in {"step", "push", "write", "sleep"} => ChangesAreTheDifference
  /\ at \in {"push", "write"} => toPush \subseteq changes
  /\ at = "sleep" => toPush = {}

(* Where a tag that only the script writes differs in the PLC, its change is *)
(* still to be pushed, or in the byte about to be written.                   *)
Underway ==
  \A n \in Own :
    /\ at \in {"push", "write", "sleep"} =>
         \/ plc[n] = img[n]
         \/ <<n, img[n]>> \in toPush
         \/ at = "write" /\ n \in DOMAIN byte /\ byte[n] = img[n]
    /\ at = "write" /\ n \in DOMAIN byte => byte[n] = plc[n] \/ byte[n] = img[n]

SimIInv == SimTypeOK /\ Between /\ Read /\ StillDue /\ Underway
LEMMA OwnFacts ==
  \A n \in Own : /\ n \in Names /\ n \in Tags /\ n \in Inputs
                 /\ n \in Writable /\ n \notin Field
BY InputsAssumption, TagsAssumption DEF Own

LEMMA SimInitial == SimInit => SimIInv
<1> SUFFICES ASSUME SimInit PROVE SimIInv
  OBVIOUS
<1>1. TypeOK
  <2>1. 1 \in 1 .. (Len(Code) + 1)
    BY CodeFacts
  <2> QED
    BY <2>1 DEF SimInit, Init, TypeOK
<1>2. SimTypeOK
  BY <1>1 DEF SimInit, SimTypeOK
<1>3. Between
  BY DEF SimInit, Init, Between
<1> QED
  BY <1>2, <1>3 DEF SimInit, SimIInv, Read, StillDue, Underway

(* The PLC's program leaves alone what only the script writes.               *)
LEMMA SimField ==
  ASSUME SimIInv, NEW n \in Field, PlcProgram(n)
  PROVE  SimIInv'
<1> USE DEF SimIInv, PlcProgram
<1>1. UNCHANGED <<phase, pc, img, lastBools, armed, active, executed, remaining,
                  tagOwner, changes, startImg, execLast, age>>
  BY DEF vars, siteVars, history
<1>2. plc' \in [Tags -> BOOLEAN] /\ \A k \in Own : plc'[k] = plc[k]
  BY OwnFacts DEF SimTypeOK
<1>3. TypeOK' /\ (ChangesAreTheDifference <=> ChangesAreTheDifference')
  BY <1>1 DEF SimTypeOK, TypeOK, ChangesAreTheDifference
<1>4. SimTypeOK'
  BY <1>2, <1>3 DEF SimTypeOK
<1>5. Between' /\ Read' /\ StillDue'
  BY <1>1, <1>2, <1>3 DEF Between, Read, StillDue
<1>6. Underway'
  BY <1>1, <1>2 DEF Underway
<1> QED
  BY <1>4, <1>5, <1>6

(* Steps of the loop that leave the runner and the PLC as they are.          *)
LEMMA SimMoves ==
  ASSUME SimIInv,
         Signal \/ StartCycle \/ Stop \/ PullFails \/ Pushed \/ Sleep
  PROVE  SimIInv'
<1> USE DEF SimIInv
<1>1. UNCHANGED <<phase, pc, img, lastBools, armed, active, executed, remaining,
                  tagOwner, changes, startImg, execLast, age, plc>>
  BY DEF Signal, StartCycle, Stop, PullFails, Pushed, Sleep, vars, siteVars, history
<1>2. TypeOK' /\ (ChangesAreTheDifference <=> ChangesAreTheDifference')
  BY <1>1 DEF SimTypeOK, TypeOK, ChangesAreTheDifference
<1>3. CASE Signal
  BY <1>1, <1>2, <1>3 DEF Signal, SimTypeOK, Between, Read, StillDue, Underway
<1>4. CASE StartCycle
  BY <1>1, <1>2, <1>4, OwnFacts DEF StartCycle, PullList, SimTypeOK, Between, Read, StillDue, Underway
<1>5. CASE Stop
  BY <1>1, <1>2, <1>5 DEF Stop, SimTypeOK, Between, Read, StillDue, Underway
<1>6. CASE PullFails
  <2>1. /\ at = "pull" /\ at' \in {"head", "exit"}
        /\ linked' \in BOOLEAN /\ toPull' = {}
        /\ UNCHANGED <<signalled, toPush, byte, dropped>>
    BY <1>6 DEF PullFails, Failed, RetryAt, Redial, SimTypeOK
  <2> QED
    BY <1>1, <1>2, <2>1 DEF SimTypeOK, Between, Read, StillDue, Underway
<1>7. CASE Pushed
  BY <1>1, <1>2, <1>7 DEF Pushed, SimTypeOK, Between, Read, StillDue, Underway
<1>8. CASE Sleep
  BY <1>1, <1>2, <1>8 DEF Sleep, SimTypeOK, Between, Read, StillDue, Underway
<1> QED
  BY <1>3, <1>4, <1>5, <1>6, <1>7, <1>8

LEMMA SimPulls ==
  ASSUME SimIInv, (\E n \in Inputs : PullTag(n)) \/ Pulled
  PROVE  SimIInv'
<1> USE DEF SimIInv
<1>1. CASE \E n \in Inputs : PullTag(n)
  <2> PICK n \in Inputs : PullTag(n)
    BY <1>1
  <2> USE DEF PullTag
  <2>1. n \in Tags /\ n \in Names /\ phase = "done"
    BY TagsAssumption, InputsAssumption DEF Between
  <2>2. img' \in [Names -> BOOLEAN]
    BY <2>1 DEF SimTypeOK, TypeOK
  <2>3. TypeOK'
    BY <2>2 DEF SimTypeOK, TypeOK
  <2>4. SimTypeOK'
    BY <2>3 DEF SimTypeOK
  <2>5. Between'
    BY DEF Between, SimTypeOK, TypeOK
  <2>6. Read'
    BY <2>1 DEF Read, SimTypeOK, TypeOK
  <2> QED
    BY <2>4, <2>5, <2>6 DEF StillDue, Underway
<1>2. CASE Pulled
  <2> USE <1>2 DEF Pulled
  <2>1. SimTypeOK'
    BY DEF SimTypeOK, TypeOK
  <2>2. ChangesAreTheDifference'
    BY DEF ChangesAreTheDifference
  <2> QED
    BY <2>1, <2>2 DEF Between, Read, StillDue, Underway
<1> QED
  BY <1>1, <1>2

(* A statement of the script: the runner's own lemmas, and the image that    *)
(* the history keeps from the start of the Step.                             *)
LEMMA SimSteps ==
  ASSUME SimIInv, Step \/ StepFails
  PROVE  SimIInv'
<1> USE DEF SimIInv
<1>1. [Next]_vars /\ at = "step" /\ UNCHANGED <<signalled, linked, plc, toPull, toPush, byte, dropped>>
  BY DEF Step, StepFails, Next, loopVars
<1>2. TypeOK' /\ ChangesAreTheDifference'
  BY <1>1, TypeKept, ChangesKept DEF SimTypeOK, StillDue
<1>3. at' \in {"step", "exit"}
  BY <1>1 DEF Step, StepFails, loopVars
<1>4. SimTypeOK'
  BY <1>1, <1>2, <1>3 DEF SimTypeOK
<1>5. CASE StepFails
  <2>1. at' = "exit" /\ phase' = "failed"
    BY <1>5 DEF StepFails, RuntimeError
  <2> QED
    BY <1>4, <2>1 DEF Between, Read, StillDue, Underway
<1>6. CASE Step
  <2>1. at' = "step"
    BY <1>1, <1>6 DEF Step, loopVars
  <2>2. Between'
    <3>1. phase' = "done" => lastBools' = img'
      BY <1>6 DEF Step, StepBegin, ExecIf, ExecOn, SkipElse, ExecAssign, ExecAnalog,
                  PulseFires, PulseQuiet, ReachPulse, AtOp, StepEnd
    <3> QED
      BY <2>1, <3>1 DEF Between
  <2>3. /\ StepBegin => phase = "idle" /\ phase' = "run" /\ startImg' = img
        /\ ~StepBegin => phase = "run" /\ startImg' = startImg
    BY <1>6 DEF Step, StepBegin, ExecIf, ExecOn, SkipElse, ExecAssign, ExecAnalog,
                PulseFires, PulseQuiet, ReachPulse, AtOp, StepEnd, history
  <2>4. phase' # "idle"
    BY <1>6 DEF Step, StepBegin, ExecIf, ExecOn, SkipElse, ExecAssign, ExecAnalog,
                PulseFires, PulseQuiet, ReachPulse, AtOp, StepEnd
  <2>5. Read'
    BY <1>1, <2>1, <2>3, <2>4 DEF Read
  <2> QED
    BY <1>2, <1>4, <2>1, <2>2, <2>5 DEF StillDue, Underway
<1> QED
  BY <1>5, <1>6

LEMMA SimFilter ==
  ASSUME SimIInv, Filter
  PROVE  SimIInv'
<1> USE DEF SimIInv, Filter
<1>1. UNCHANGED <<phase, pc, img, lastBools, armed, active, executed, remaining,
                  tagOwner, changes, startImg, execLast, age, plc>>
  BY DEF vars, siteVars, history
<1>2. TypeOK' /\ ChangesAreTheDifference /\ ChangesAreTheDifference'
  BY <1>1 DEF SimTypeOK, TypeOK, StillDue, ChangesAreTheDifference
<1>3. SimTypeOK'
  BY <1>2 DEF SimTypeOK, TypeOK, Pushes
<1>4. ASSUME NEW n \in Own
      PROVE  plc[n] = img[n] \/ <<n, img[n]>> \in Pushes
  BY <1>2, OwnFacts DEF Read, ChangesAreTheDifference, Pushes
<1>5. Between' /\ Read' /\ StillDue'
  BY <1>1, <1>2 DEF Between, Read, StillDue, Pushes
<1>6. Underway'
  BY <1>1, <1>4 DEF Underway
<1> QED
  BY <1>3, <1>5, <1>6

(* A change that Push takes up has the image's value for its tag, and the    *)
(* other tags of the byte have the PLC's.                                    *)
LEMMA SimPushRead ==
  ASSUME SimIInv, NEW c \in Names \X BOOLEAN, PushRead(c)
  PROVE  SimIInv'
<1> USE DEF SimIInv, PushRead
<1>1. UNCHANGED <<phase, pc, img, lastBools, armed, active, executed, remaining,
                  tagOwner, changes, startImg, execLast, age, plc>>
  BY DEF vars, siteVars, history
<1>2. TypeOK' /\ ChangesAreTheDifference /\ ChangesAreTheDifference' /\ phase = "done"
  BY <1>1 DEF SimTypeOK, TypeOK, StillDue, Between, ChangesAreTheDifference
<1>3. c \in Writable \X BOOLEAN /\ c[1] \in Writable /\ c[2] \in BOOLEAN
  BY DEF SimTypeOK
<1>4. byte' \in [SameByte(c[1]) -> BOOLEAN]
  BY <1>3 DEF SimTypeOK, SameByte
<1>5. SimTypeOK'
  BY <1>2, <1>3, <1>4 DEF SimTypeOK
<1>6. img[c[1]] = c[2]
  <2>1. c = <<c[1], c[2]>> /\ c[1] \in Names /\ c \in changes
    BY DEF StillDue
  <2> QED
    BY <1>2, <1>3, <2>1 DEF ChangesAreTheDifference
<1>7. Between' /\ Read' /\ StillDue'
  BY <1>1, <1>2 DEF Between, Read, StillDue
<1>8. ASSUME NEW n \in Own
      PROVE  /\ n \in DOMAIN byte' => byte'[n] = plc[n] \/ byte'[n] = img[n]
             /\ \/ plc[n] = img[n]
                \/ <<n, img[n]>> \in toPush'
                \/ n \in DOMAIN byte' /\ byte'[n] = img[n]
  <2>1. CASE n = c[1]
    <3>1. n \in SameByte(c[1])
      BY <2>1, OwnFacts DEF SameByte
    <3> QED
      BY <1>6, <2>1, <3>1
  <2>2. CASE n # c[1]
    <3>1. <<n, img[n]>> # c
      BY <2>2
    <3> QED
      BY <2>2, <3>1 DEF Underway
  <2> QED
    BY <2>1, <2>2
<1>9. Underway'
  BY <1>1, <1>8 DEF Underway
<1> QED
  BY <1>5, <1>7, <1>9

(* Writing the byte back sets its tag, and no other tag of the script's own. *)
LEMMA SimStores ==
  ASSUME SimIInv, at = "write", Store
  PROVE  /\ plc' \in [Tags -> BOOLEAN]
         /\ \A n \in Own : \/ plc'[n] = img[n]
                           \/ <<n, img[n]>> \in toPush
<1>1. PICK w \in Writable : byte \in [SameByte(w) -> BOOLEAN]
  BY DEF SimIInv, SimTypeOK
<1>2. plc' \in [Tags -> BOOLEAN]
  BY <1>1 DEF Store, SimIInv, SimTypeOK
<1>3. ASSUME NEW n \in Own
      PROVE  plc'[n] = img[n] \/ <<n, img[n]>> \in toPush
  BY OwnFacts DEF Store, SimIInv, Underway
<1> QED
  BY <1>2, <1>3

LEMMA SimPushes ==
  ASSUME SimIInv, PushWrite \/ PushFails
  PROVE  SimIInv'
<1> USE DEF SimIInv
<1>1. UNCHANGED <<phase, pc, img, lastBools, armed, active, executed, remaining,
                  tagOwner, changes, startImg, execLast, age>>
  BY DEF PushWrite, PushFails, vars, siteVars, history
<1>2. TypeOK' /\ (ChangesAreTheDifference <=> ChangesAreTheDifference')
  BY <1>1 DEF SimTypeOK, TypeOK, ChangesAreTheDifference
<1>3. CASE PushWrite
  <2> USE <1>3 DEF PushWrite
  <2>1. /\ plc' \in [Tags -> BOOLEAN]
        /\ \A n \in Own : plc'[n] = img[n] \/ <<n, img[n]>> \in toPush
    BY SimStores
  <2>2. SimTypeOK'
    BY <1>2, <2>1 DEF SimTypeOK
  <2>3. Between' /\ Read' /\ StillDue'
    BY <1>1, <1>2 DEF Between, Read, StillDue
  <2>4. Underway'
    BY <1>1, <2>1 DEF Underway
  <2> QED
    BY <2>2, <2>3, <2>4
<1>4. CASE PushFails
  <2>1. /\ at \in {"push", "write"} /\ at' \in {"head", "exit"}
        /\ linked' \in BOOLEAN /\ toPush' = {} /\ dropped' = TRUE
        /\ UNCHANGED <<signalled, toPull>>
    BY <1>4 DEF PushFails, Failed, RetryAt, Redial, SimTypeOK
  <2>2. plc' \in [Tags -> BOOLEAN]
    BY <1>4, SimStores DEF PushFails, SimTypeOK
  <2>3. SimTypeOK'
    BY <1>2, <2>1, <2>2 DEF SimTypeOK
  <2> QED
    BY <1>1, <2>1, <2>3 DEF Between, Read, StillDue, Underway
<1> QED
  BY <1>3, <1>4

LEMMA SimKept == SimIInv /\ [SimNext]_simVars => SimIInv'
<1> SUFFICES ASSUME SimIInv, [SimNext]_simVars PROVE SimIInv'
  OBVIOUS
<1>1. CASE UNCHANGED simVars
  BY <1>1 DEF simVars, vars, siteVars, history, loopVars, SimIInv, SimTypeOK, TypeOK,
              Between, Read, StillDue, ChangesAreTheDifference, Underway
<1> QED
  BY <1>1, SimField, SimMoves, SimPulls, SimSteps, SimFilter, SimPushRead, SimPushes
  DEF SimNext, Loop

(* The types of the loop, and that a cycle which succeeded left the tags that *)
(* only the script writes in the PLC as they are in the image, whatever       *)
(* failed before: for every script, every PLC and every way calls fail.       *)
THEOREM CycleInvariant == SimSpec => []SimInv
<1>1. SimIInv => SimInv
  BY DEF SimIInv, SimInv, CycleDelivers, Underway, StillDue
<1> QED
  BY <1>1, SimInitial, SimKept, PTL DEF SimSpec
-----------------------------------------------------------------------------
(* The runner's image as RunsTheRunner sees it: while a Step runs it is the  *)
(* image, and between Steps what the last one left.                          *)
Image == IF phase = "done" THEN lastBools ELSE img

(* Statements that begin and end within a Step are the runner's, word by word. *)
LEMMA StatementsMapped ==
  ASSUME phase \in {"idle", "run"}, phase' \in {"run", "failed"}
  PROVE  /\ ExecIf => Simulated!ExecIf
         /\ ExecOn => Simulated!ExecOn
         /\ SkipElse => Simulated!SkipElse
         /\ ExecAssign => Simulated!ExecAssign
         /\ ExecAnalog => Simulated!ExecAnalog
         /\ RuntimeError => Simulated!RuntimeError
         /\ PulseFires => Simulated!PulseFires
         /\ PulseQuiet => Simulated!PulseQuiet
<1>1. Image = img /\ Image' = img'
  BY DEF Image
<1>2. /\ \A ops : Simulated!AtOp(ops) <=> AtOp(ops)
      /\ \A b : Simulated!Goto(b) <=> Goto(b)
  BY DEF Simulated!AtOp, AtOp, Simulated!Goto, Goto
<1>3. ExecIf => Simulated!ExecIf
  BY DEF ExecIf, Simulated!ExecIf, AtOp, Simulated!AtOp, Goto, Simulated!Goto,
         siteVars, Simulated!siteVars, history, Simulated!history
<1>4. ExecOn => Simulated!ExecOn
  BY DEF ExecOn, Simulated!ExecOn, AtOp, Simulated!AtOp, Goto, Simulated!Goto,
         EdgeSeen, Simulated!EdgeSeen,
         siteVars, Simulated!siteVars, history, Simulated!history
<1>5. SkipElse => Simulated!SkipElse
  BY DEF SkipElse, Simulated!SkipElse, AtOp, Simulated!AtOp, Goto, Simulated!Goto,
         siteVars, Simulated!siteVars, history, Simulated!history
<1>6. ExecAssign => Simulated!ExecAssign
  BY DEF ExecAssign, Simulated!ExecAssign, AtOp, Simulated!AtOp, Goto, Simulated!Goto,
         Merge, Simulated!Merge,
         siteVars, Simulated!siteVars, history, Simulated!history
<1>7. ExecAnalog => Simulated!ExecAnalog
  BY DEF ExecAnalog, Simulated!ExecAnalog, AtOp, Simulated!AtOp, Goto, Simulated!Goto,
         siteVars, Simulated!siteVars, history, Simulated!history
<1>8. RuntimeError => Simulated!RuntimeError
  BY DEF RuntimeError, Simulated!RuntimeError, AtOp, Simulated!AtOp,
         siteVars, Simulated!siteVars, history, Simulated!history
<1>9. ReachPulse => Simulated!ReachPulse
  BY DEF ReachPulse, Simulated!ReachPulse, AtOp, Simulated!AtOp, Goto, Simulated!Goto,
         Once, Simulated!Once
<1>10. \A s : CanFire(s) <=> Simulated!CanFire(s)
  BY DEF CanFire, Simulated!CanFire, Latched, Simulated!Latched, Once, Simulated!Once,
         TagBusy, Simulated!TagBusy, Tag, Simulated!Tag, NoSite, Simulated!NoSite
<1>11. PulseFires => Simulated!PulseFires
  BY <1>9, <1>10 DEF PulseFires, Simulated!PulseFires, Tag, Simulated!Tag,
         Width, Simulated!Width, Merge, Simulated!Merge
<1>12. PulseQuiet => Simulated!PulseQuiet
  BY <1>9, <1>10 DEF PulseQuiet, Simulated!PulseQuiet, history, Simulated!history
<1> QED
  BY <1>3, <1>4, <1>5, <1>6, <1>7, <1>8, <1>11, <1>12

(* So are the two ends of a Step: at its end the snapshot is the image.       *)
LEMMA EndsMapped ==
  /\ StepBegin => Simulated!StepBegin
  /\ StepEnd => Simulated!StepEnd
<1>1. Simulated!Sites = Sites
  BY DEF Simulated!Sites, Sites
<1>2. \A S : Simulated!TagsOf(S) = TagsOf(S)
  BY DEF Simulated!TagsOf, TagsOf, Simulated!Tag, Tag
<1>3. \A s : Simulated!TickDown(s) = TickDown(s)
  BY DEF Simulated!TickDown, TickDown
<1>4. StepBegin => Simulated!StepBegin
  <2> SUFFICES ASSUME StepBegin PROVE Simulated!StepBegin
    OBVIOUS
  <2>1. phase = "idle" /\ phase' = "run"
    BY DEF StepBegin
  <2>2. \A S, C : EndPulse(S, C) => Simulated!EndPulse(S, C)
    BY <1>1, <1>2, <2>1 DEF EndPulse, Simulated!EndPulse, Merge, Simulated!Merge,
                            NoSite, Simulated!NoSite
  <2>3. {s \in Simulated!Sites : active[s] /\ Simulated!TickDown(s) <= 0}
          = {s \in Sites : active[s] /\ TickDown(s) <= 0}
    BY <1>1, <1>3
  <2> QED
    BY <1>1, <1>3, <2>1, <2>2, <2>3 DEF StepBegin, Simulated!StepBegin
<1>5. StepEnd => Simulated!StepEnd
  <2> SUFFICES ASSUME StepEnd PROVE Simulated!StepEnd
    OBVIOUS
  <2>1. phase = "run" /\ phase' = "done" /\ lastBools' = img'
    BY DEF StepEnd
  <2>2. \A S, C : EndPulse(S, C) => Simulated!EndPulse(S, C)
    BY <1>1, <1>2, <2>1 DEF EndPulse, Simulated!EndPulse, Merge, Simulated!Merge,
                            NoSite, Simulated!NoSite
  <2>3. Simulated!Skipped = Skipped
    BY <1>1 DEF Simulated!Skipped, Skipped
  <2>4. \A s : Simulated!Rearmed(s) = Rearmed(s)
    BY DEF Simulated!Rearmed, Rearmed, Simulated!Once, Once
  <2> QED
    BY <1>1, <2>1, <2>2, <2>3, <2>4 DEF StepEnd, Simulated!StepEnd,
       history, Simulated!history
<1> QED
  BY <1>4, <1>5

(* However many calls Pull takes, the runner sees one, when it has ended; a   *)
(* cycle that fails in it is none.                                            *)
LEMMA LoopMapped ==
  ASSUME SimIInv, [SimNext]_simVars
  PROVE  [Simulated!Next]_(Simulated!vars)
<1>1. CASE Step
  <2>1. CASE StepBegin
    BY <2>1, EndsMapped DEF Simulated!Next
  <2>2. CASE StepEnd
    BY <2>2, EndsMapped DEF Simulated!Next
  <2>3. CASE ~StepBegin /\ ~StepEnd
    <3>1. phase = "run" /\ phase' = "run"
      BY <1>1, <2>3 DEF Step, ExecIf, ExecOn, SkipElse, ExecAssign, ExecAnalog,
                        PulseFires, PulseQuiet, ReachPulse, AtOp
    <3> QED
      BY <1>1, <2>3, <3>1, StatementsMapped DEF Step, Simulated!Next
  <2> QED
    BY <2>1, <2>2, <2>3
<1>2. CASE StepFails
  <2>1. RuntimeError /\ phase = "run" /\ phase' = "failed"
    BY <1>2 DEF StepFails, RuntimeError, AtOp
  <2> QED
    BY <2>1, StatementsMapped DEF Simulated!Next
<1>3. CASE Pulled
  <2>1. phase = "done" /\ phase' = "idle" /\ img' = img
    BY <1>3 DEF Pulled, SimIInv, Between
  <2>2. img \in [Names -> BOOLEAN] /\ \A n \in Names \ Inputs : img[n] = lastBools[n]
    BY <2>1 DEF SimIInv, SimTypeOK, TypeOK, Between
  <2>3. Simulated!Pull
    BY <1>3, <2>1, <2>2 DEF Pulled, Simulated!Pull, Simulated!siteVars, Simulated!history
  <2> QED
    BY <2>3 DEF Simulated!Next
<1>4. CASE \E n \in Inputs : PullTag(n)
  <2>1. phase = "done" /\ phase' = "done"
    BY <1>4 DEF PullTag, SimIInv, Between
  <2> QED
    BY <1>4, <2>1 DEF PullTag, Simulated!vars, Simulated!siteVars, Simulated!history
<1>5. CASE UNCHANGED vars
  BY <1>5 DEF vars, siteVars, history, Simulated!vars, Simulated!siteVars, Simulated!history
<1>6. SimNext => Step \/ StepFails \/ Pulled \/ (\E n \in Inputs : PullTag(n)) \/ UNCHANGED vars
  BY DEF SimNext, Loop, PlcProgram, Signal, StartCycle, Stop, PullFails, Filter,
         PushRead, PushWrite, PushFails, Pushed, Sleep
<1> QED
  BY <1>1, <1>2, <1>3, <1>4, <1>5, <1>6 DEF simVars

(* The loop, its failed cycles and its reconnects included, is the Runner of *)
(* PulseRunner with one Pull before each Step: what is proved of that holds  *)
(* of the script in the loop.                                                *)
THEOREM LoopIsRunner == SimSpec => RunsTheRunner
<1>1. SimInit => Simulated!Init
  BY DEF SimInit, Init, Simulated!Init, Sites, Simulated!Sites, NoSite, Simulated!NoSite
<1>2. SimSpec => Simulated!Init
  BY <1>1, PTL DEF SimSpec
<1>3. SimSpec => []SimIInv
  BY SimInitial, SimKept, PTL DEF SimSpec
<1>4. SimSpec => [][Simulated!Next]_(Simulated!vars)
  BY <1>3, LoopMapped, PTL DEF SimSpec
<1> QED
  BY <1>2, <1>4, PTL DEF RunsTheRunner, Simulated!Spec
=============================================================================
