------------------------- MODULE SchemaCommands_proofs -------------------------
(***************************************************************************)
(* What the commands rely on, for every schema, address and expression:    *)
(* the type checker's tables against the evaluator's, and the canonical    *)
(* form of addresses, which a file goes through each time it is saved or   *)
(* loaded; and of `s7db watch`, that its screen follows what it reads.     *)
(***************************************************************************)
EXTENDS SchemaCommands, WatchLoop, SequenceTheorems, WellFoundedInduction, TLAPS

----------------------------------------------------------------------------
(* Types of scripts *)

LEMMA Kind ==
  /\ KindOf["BOOL"] = "bool" /\ KindOf["INT"] = "int64" /\ KindOf["REAL"] = "float64"
  /\ KindOf["TIME"] = "duration" /\ KindOf["STRING"] = "string"
BY DEF KindOf, Types

LEMMA LogicSound ==
  ASSUME NEW op \in {"or", "and"}, NEW l \in Types, NEW r \in Types, Infer(op, l, r) # "error"
  PROVE  Result(op, KindOf[l], KindOf[r]) = {KindOf[Infer(op, l, r)]}
BY Kind DEF Infer, Result, Logic

LEMMA ComparisonSound ==
  ASSUME NEW op \in {"==", "<"}, NEW l \in Types, NEW r \in Types, Infer(op, l, r) # "error"
  PROVE  Result(op, KindOf[l], KindOf[r]) = {KindOf[Infer(op, l, r)]}
<1>1. Infer(op, l, r) = "BOOL" BY DEF Infer
<1>2. CASE {l, r} \subseteq Numeric
  <2>1. l \in {"INT", "REAL"} /\ r \in {"INT", "REAL"} BY <1>2 DEF Numeric
  <2>2. /\ KindOf[l] \in {"int64", "float64"} /\ KindOf[r] \in {"int64", "float64"}
    BY <2>1, Kind
  <2>3. \A ordering : Compared(ordering, KindOf[l], KindOf[r]) = {"bool"}
    BY <2>2 DEF Compared, Floats, IfParses
  <2>4. QED BY <1>1, <2>3, Kind DEF Result
<1>3. CASE ~({l, r} \subseteq Numeric)
  <2>1. l = r /\ (op = "<" => l = "TIME") BY <1>3 DEF Infer, Numeric
  <2>2. l \in {"BOOL", "TIME", "STRING"} BY <1>3, <2>1 DEF Numeric, Types
  <2>3. CASE l = "TIME"
    BY <1>1, <2>1, <2>3, Kind DEF Result, Compared, Floats, IfParses
  <2>4. CASE l \in {"BOOL", "STRING"}
    BY <1>1, <2>1, <2>4, Kind DEF Result, Compared
  <2>5. QED BY <2>2, <2>3, <2>4
<1>4. QED BY <1>2, <1>3

LEMMA ArithmeticSound ==
  ASSUME NEW op \in {"+", "*", "/"}, NEW l \in Types, NEW r \in Types, Infer(op, l, r) # "error"
  PROVE  Result(op, KindOf[l], KindOf[r]) \subseteq {KindOf[Infer(op, l, r)], "division by zero"}
<1>1. CASE {l, r} \subseteq Numeric
  <2>1. l \in {"INT", "REAL"} /\ r \in {"INT", "REAL"} BY <1>1 DEF Numeric
  <2>2. Infer(op, l, r) = Wider(l, r) BY <1>1 DEF Infer
  <2>3. Arithmetic(KindOf[l], KindOf[r]) = {KindOf[Wider(l, r)]}
    BY <2>1, Kind DEF Arithmetic, Floats, IfParses, Wider
  <2>4. AddSub(KindOf[l], KindOf[r]) = Arithmetic(KindOf[l], KindOf[r])
    BY <2>1, Kind DEF AddSub
  <2>5. Result(op, KindOf[l], KindOf[r])
          \subseteq Arithmetic(KindOf[l], KindOf[r]) \cup {"division by zero"}
    <3>1. CASE op = "+" BY <3>1, <2>4 DEF Result
    <3>2. CASE op \in {"*", "/"} BY <3>2 DEF Result
    <3>3. QED BY <3>1, <3>2
  <2>6. QED BY <2>2, <2>3, <2>5
<1>2. CASE ~({l, r} \subseteq Numeric)
  <2>1. op = "+" /\ l = "TIME" /\ r = "TIME" BY <1>2 DEF Infer
  <2>2. Infer("+", "TIME", "TIME") = "TIME" BY <1>2, <2>1 DEF Infer
  <2>3. Result("+", "duration", "duration") = {"duration"} BY DEF Result, AddSub
  <2>4. QED BY <2>1, <2>2, <2>3, Kind
<1>3. QED BY <1>1, <1>2

(* Whatever operands an operator is given whose types the checker accepts,   *)
(* the evaluator's result has the kind of the inferred type, and there is no *)
(* fault but a division by zero (compile.go:249 against runner.go:287).      *)
THEOREM OperatorsSound ==
  ASSUME NEW op \in Operators, NEW l \in Types, NEW r \in Types, Infer(op, l, r) # "error"
  PROVE  Result(op, KindOf[l], KindOf[r]) \subseteq {KindOf[Infer(op, l, r)], "division by zero"}
<1>1. op \in {"or", "and"} \/ op \in {"==", "<"} \/ op \in {"+", "*", "/"} BY DEF Operators
<1>2. CASE op \in {"or", "and"}
  <2>1. Result(op, KindOf[l], KindOf[r]) = {KindOf[Infer(op, l, r)]} BY <1>2, LogicSound
  <2>2. QED BY <2>1
<1>3. CASE op \in {"==", "<"}
  <2>1. Result(op, KindOf[l], KindOf[r]) = {KindOf[Infer(op, l, r)]} BY <1>3, ComparisonSound
  <2>2. QED BY <2>1
<1>4. CASE op \in {"+", "*", "/"} BY <1>4, ArithmeticSound
<1>5. QED BY <1>1, <1>2, <1>3, <1>4

(* The same of unary minus (compile.go:249, runner.go:287).                   *)
THEOREM NegationSound ==
  ASSUME NEW t \in Types, InferNeg(t) # "error"
  PROVE  Negated(KindOf[t]) = {KindOf[InferNeg(t)]}
BY Kind DEF InferNeg, Negated

(* A value of a type the checker lets a script assign is converted to the    *)
(* kind of the tag without an error (compile.go:495 against image.go:138).    *)
THEOREM AssignmentSound ==
  ASSUME NEW d \in Types, NEW t \in Types, Assignable(d, t)
  PROVE  Coerced(d, KindOf[t]) \subseteq {KindOf[d]}
<1>1. CASE d = "BOOL" BY <1>1, Kind DEF Assignable, Coerced
<1>2. CASE d = "INT" BY <1>2, Kind DEF Assignable, Coerced
<1>3. CASE d = "REAL" BY <1>3, Kind DEF Assignable, Coerced
<1>4. CASE d = "TIME" BY <1>4, Kind DEF Assignable, Coerced
<1>5. CASE d = "STRING" BY <1>5, Kind DEF Assignable, Coerced
<1>6. QED BY <1>1, <1>2, <1>3, <1>4, <1>5 DEF Types

----------------------------------------------------------------------------
(* Addresses and the files they are in *)

(* An address with a data block reads as itself from then on, whatever       *)
(* default data block a later command is given.                              *)
THEOREM CanonicalStays ==
  ASSUME NEW a \in Written, NEW db, Parses(a, db), a.db # Absent
  PROVE  LET c == Canonical(Parsed(a, db))
         IN  c \in Written /\ c.db # Absent
             /\ \A other : Parses(c, other) /\ Canonical(Parsed(c, other)) = c
<1> DEFINE p == Parsed(a, db)
<1> DEFINE c == Canonical(p)
<1>1. a.db \in Nat /\ a.area \in FullAreas /\ a.byte \in Nat /\ a.bit \in Nat \cup {Absent}
  BY DEF Parses, Written, Optional
<1>2. p = [db |-> a.db, area |-> a.area, byte |-> a.byte, bit |-> IF a.bit = Absent THEN 0 ELSE a.bit]
  BY DEF Parsed
<1>3. a.area \in BitAreas => a.area = "DBX"
  BY <1>1 DEF BitAreas, FullAreas, StringAreas
<1>4. /\ a.area \in StringAreas => a.bit \in 0 .. 254
      /\ a.area \in BitAreas => a.bit \in 0 .. 7
      /\ a.area \notin StringAreas \cup BitAreas => a.bit = Absent
  BY DEF Parses, BitFits, StringAreas, BitAreas
<1>5. c = [db |-> a.db, area |-> a.area, byte |-> a.byte, bit |-> a.bit]
  <2>1. CASE a.area \in BitAreas \cup StringAreas
    BY <1>2, <1>3, <1>4, <2>1 DEF Canonical, Absent
  <2>2. CASE a.area \notin BitAreas \cup StringAreas
    BY <1>2, <1>4, <2>2 DEF Canonical
  <2>3. QED BY <2>1, <2>2
<1> HIDE DEF p, c
<1>6. c \in Written /\ c.db # Absent
  BY <1>1, <1>5 DEF Written, Optional, Areas
<1>7. ASSUME NEW other PROVE Parses(c, other) /\ Canonical(Parsed(c, other)) = c
  <2>1. BitFits(c) BY <1>5 DEF BitFits, Parses
  <2>2. Parses(c, other) BY <1>1, <1>5, <2>1 DEF Parses
  <2>3. Parsed(c, other) = p BY <1>1, <1>2, <1>5 DEF Parsed
  <2>4. QED BY <2>2, <2>3 DEF c
<1>8. QED BY <1>6, <1>7 DEF p, c

(* The tags of a file that Save has written: each is the tag that was saved, *)
(* with its canonical address.                                               *)
LEMMA NormalTags ==
  ASSUME NEW s \in SchemaType
  PROVE  /\ Normal(s).tags = [i \in 1 .. Len(s.tags) |-> NormalTag(s.tags[i], s.db)]
         /\ Len(Normal(s).tags) = Len(s.tags)
         /\ \A i \in 1 .. Len(s.tags) :
              Normal(s).tags[i].addr = Canonical(Parsed(s.tags[i].addr, s.db))
<1>1. Normal(s).tags = [i \in 1 .. Len(s.tags) |-> NormalTag(s.tags[i], s.db)]
  BY DEF Normal
<1>2. Len(s.tags) \in Nat /\ \A i \in 1 .. Len(s.tags) : s.tags[i] \in TagType
  BY DEF SchemaType
<1>3. Len(Normal(s).tags) = Len(s.tags)
  BY <1>1, <1>2
<1>4. ASSUME NEW t \in TagType, NEW db PROVE NormalTag(t, db).addr = Canonical(Parsed(t.addr, db))
  BY DEF NormalTag, TagType
<1>5. QED BY <1>1, <1>2, <1>3, <1>4

----------------------------------------------------------------------------
(* WatchLoop *)

Alike(v, x, y) == ~Changed(v, x, y)

(* The variables that this sample has read, or the last one that succeeded.  *)
ReadSoFar ==
  CASE at = "raw" -> {Vars[i] : i \in 1 .. (next - 1)}
    [] at = "value" -> {Vars[i] : i \in 1 .. (next - 1)} \ {Vars[next]}
    [] at \in {"print", "wait"} -> Names
    [] OTHER -> {}

(* What --diff compares with is what was read, in all that it compares.       *)
KeptAsRead == \A v \in ReadSoFar : Alike(v, prev[v], got[v])

(* What it compares with is on the screen, about to be, or lost.              *)
KeptOnScreen ==
  \A v \in Names :
    \/ v \in out /\ at \in {"raw", "value", "print"}
    \/ v \in lost
    \/ Alike(v, screen[v], prev[v])

(* A command with a limit ends at it.                                         *)
Counting ==
  /\ limit = 0 => count = 0
  /\ limit > 0 /\ at # "ended" => count < limit
  /\ count <= limit

WatchIInv == WatchTypeOK /\ KeptAsRead /\ KeptOnScreen /\ Counting
LEMMA OperandFacts ==
  /\ Len(Vars) \in Nat /\ 1 <= Len(Vars)
  /\ \A i \in 1 .. Len(Vars) : Vars[i] \in Names
  /\ \A v \in Names : \E i \in 1 .. Len(Vars) : v = Vars[i]
  /\ MaxLimit \in Nat /\ MaxChanges \in Nat
<1>1. Vars \in Seq(Names) /\ Len(Vars) > 0
  BY OperandsAssumption
<1>2. Len(Vars) \in Nat /\ DOMAIN Vars = 1 .. Len(Vars)
  BY <1>1
<1> QED
  BY <1>1, <1>2, BoundsAssumption DEF Names

LEMMA AlikeFacts ==
  /\ \A v, x, y : Alike(v, x, y) <=>
       IF v \in Opaque THEN x.raw = y.raw ELSE x.value = y.value
  /\ \A v, x : Alike(v, x, x)
  /\ \A v, x, y, z : Alike(v, x, y) /\ Alike(v, y, z) => Alike(v, x, z)
BY DEF Alike, Changed

LEMMA WatchInitial == WatchInit => WatchIInv
<1> SUFFICES ASSUME WatchInit PROVE WatchIInv
  OBVIOUS
<1>1. /\ NotYet \in Reading /\ 0 \in 0 .. MaxChanges
      /\ 0 \in 0 .. MaxLimit /\ 1 \in 1 .. Len(Vars)
  BY OperandFacts DEF NotYet, Reading
<1>2. WatchTypeOK
  BY <1>1 DEF WatchInit, WatchTypeOK
<1>3. ReadSoFar = {}
  BY DEF WatchInit, ReadSoFar
<1>4. Counting
  BY OperandFacts DEF WatchInit, Counting
<1> QED
  BY <1>2, <1>3, <1>4, AlikeFacts DEF WatchInit, WatchIInv, KeptAsRead, KeptOnScreen

(* The environment, and steps that touch neither what is kept nor the screen. *)
LEMMA WatchMoves ==
  ASSUME WatchIInv,
         \/ Interrupt \/ FirstDial \/ TickWait \/ SignalSeen
         \/ Pause \/ Redial \/ RedialFails \/ \E v \in Names : Change(v)
  PROVE  WatchIInv'
<1> USE DEF WatchIInv
<1> DEFINE same == UNCHANGED <<reconnect, diff, limit, got, prev, screen, lost, count>>
<1>1. same
  BY DEF Interrupt, FirstDial, TickWait, SignalSeen, Pause, Redial, RedialFails, Change,
         flags, memory
<1>2. handler' \in BOOLEAN /\ signal' \in BOOLEAN
  BY DEF Interrupt, FirstDial, TickWait, SignalSeen, Pause, Redial, RedialFails, Change,
         WatchTypeOK
<1>3. plc' \in [Names -> 0 .. MaxChanges]
  <2>1. CASE \E v \in Names : Change(v)
    <3> PICK v \in Names : Change(v)
      BY <2>1
    <3>1. plc[v] \in 0 .. MaxChanges /\ plc[v] < MaxChanges
      BY DEF Change, WatchTypeOK
    <3>2. plc[v] + 1 \in 0 .. MaxChanges
      BY <3>1, OperandFacts
    <3> QED
      BY <3>2 DEF Change, WatchTypeOK
  <2>2. CASE plc' = plc
    BY <2>2 DEF WatchTypeOK
  <2> QED
    BY <2>1, <2>2 DEF Interrupt, FirstDial, TickWait, SignalSeen, Pause, Redial, RedialFails
<1>4. \/ StartSample /\ at \notin {"raw", "value", "print", "ended"}
      \/ UNCHANGED <<at, next, out>>
      \/ /\ at \notin {"raw", "value", "print"} /\ at' \in {"ended", "redial", "pause"}
         /\ at = "ended" => at' = "ended"
         /\ UNCHANGED <<next, out>>
  BY DEF Interrupt, FirstDial, TickWait, SignalSeen, Pause, Redial, RedialFails, Change,
         memory
<1>5. WatchTypeOK' /\ Counting'
  <2>1. 1 \in 1 .. Len(Vars)
    BY OperandFacts
  <2>2. /\ at' \in {"dial", "raw", "value", "print", "wait", "pause", "redial", "ended"}
        /\ next' \in 1 .. Len(Vars) /\ out' \subseteq Names
    BY <1>4, <2>1 DEF StartSample, WatchTypeOK
  <2>3. WatchTypeOK'
    BY <1>1, <1>2, <1>3, <2>2 DEF WatchTypeOK
  <2>4. at' # "ended" => at # "ended"
    BY <1>4
  <2> QED
    BY <1>1, <2>3, <2>4 DEF Counting
<1>6. KeptAsRead'
  <2>1. CASE StartSample
    <3>1. at' = "raw" /\ next' = 1
      BY <2>1 DEF StartSample
    <3>2. ReadSoFar' = {}
      BY <3>1 DEF ReadSoFar
    <3> QED
      BY <3>2 DEF KeptAsRead
  <2>2. CASE UNCHANGED <<at, next, out>>
    BY <1>1, <2>2 DEF KeptAsRead, ReadSoFar, Alike
  <2>3. CASE at' \in {"ended", "redial", "pause"}
    <3>1. ReadSoFar' = {}
      BY <2>3 DEF ReadSoFar
    <3> QED
      BY <3>1 DEF KeptAsRead
  <2> QED
    BY <1>4, <2>1, <2>2, <2>3
<1>7. KeptOnScreen'
  BY <1>1, <1>4 DEF KeptOnScreen, StartSample, Alike
<1> QED
  BY <1>5, <1>6, <1>7

LEMMA WatchReadRaw ==
  ASSUME WatchIInv, ReadRaw
  PROVE  WatchIInv'
<1> USE DEF WatchIInv
<1> DEFINE w == Vars[next]
<1>1. /\ UNCHANGED <<reconnect, diff, limit, handler, signal, plc, next, prev, out, screen,
                     lost, count>>
      /\ at = "raw" /\ at' = "value"
      /\ got' = [got EXCEPT ![w].raw = plc[w]]
  BY DEF ReadRaw, flags
<1>2. w \in Names
  BY OperandFacts DEF WatchTypeOK
<1>3. got' \in [Names -> Reading]
  <2>1. plc[w] \in 0 .. MaxChanges /\ got[w] \in Reading
    BY <1>2 DEF WatchTypeOK
  <2>2. plc[w] \in -1 .. MaxChanges
    BY <2>1, OperandFacts
  <2>3. [got[w] EXCEPT !.raw = plc[w]] \in Reading
    BY <2>1, <2>2 DEF Reading
  <2> QED
    BY <1>1, <2>3 DEF WatchTypeOK
<1>4. WatchTypeOK' /\ Counting'
  BY <1>1, <1>3 DEF WatchTypeOK, Counting
<1>5. KeptAsRead'
  <2> SUFFICES ASSUME NEW v \in ReadSoFar' PROVE Alike(v, prev'[v], got'[v])
    BY DEF KeptAsRead
  <2>1. v \in ReadSoFar /\ v # w
    BY <1>1 DEF ReadSoFar
  <2>2. v \in Names
    BY <1>1, <2>1, OperandFacts DEF ReadSoFar, WatchTypeOK
  <2>3. got'[v] = got[v]
    BY <1>1, <2>1, <2>2 DEF WatchTypeOK
  <2> QED
    BY <1>1, <2>1, <2>3 DEF KeptAsRead
<1>6. KeptOnScreen'
  BY <1>1 DEF KeptOnScreen, Alike
<1> QED
  BY <1>4, <1>5, <1>6

(* A variable that is not printed is still what it was compared with.         *)
LEMMA WatchReadValue ==
  ASSUME WatchIInv, ReadValue
  PROVE  WatchIInv'
<1> USE DEF WatchIInv
<1> DEFINE w == Vars[next]
           state == [got[w] EXCEPT !.value = plc[w]]
           printed == ~diff \/ prev[w] = NotYet \/ Changed(w, prev[w], state)
<1>1. /\ UNCHANGED <<reconnect, diff, limit, handler, signal, plc, screen, lost, count>>
      /\ at = "value"
      /\ got' = [got EXCEPT ![w] = state]
      /\ prev' = IF printed THEN [prev EXCEPT ![w] = state] ELSE prev
      /\ out' = IF printed THEN out \cup {w} ELSE out
      /\ \/ next < Len(Vars) /\ at' = "raw" /\ next' = next + 1
         \/ ~(next < Len(Vars)) /\ at' = "print" /\ next' = next
  BY DEF ReadValue, flags
<1>2. w \in Names /\ next \in 1 .. Len(Vars)
  BY OperandFacts DEF WatchTypeOK
<1>3. state \in Reading
  <2>1. plc[w] \in 0 .. MaxChanges /\ got[w] \in Reading
    BY <1>2 DEF WatchTypeOK
  <2>2. plc[w] \in -1 .. MaxChanges
    BY <2>1, OperandFacts
  <2> QED
    BY <2>1, <2>2 DEF Reading
<1>4. Alike(w, prev'[w], state) /\ got'[w] = state
  <2>1. got'[w] = state
    BY <1>1, <1>2 DEF WatchTypeOK
  <2>2. CASE printed
    <3>1. prev'[w] = state
      BY <1>1, <1>2, <2>2 DEF WatchTypeOK
    <3> QED
      BY <2>1, <3>1, AlikeFacts
  <2>3. CASE ~printed
    BY <1>1, <2>1, <2>3 DEF Alike
  <2> QED
    BY <2>2, <2>3
<1> HIDE DEF state
<1>5. \A v \in Names : v # w => prev'[v] = prev[v] /\ got'[v] = got[v]
  BY <1>1, <1>2 DEF WatchTypeOK
<1>6. WatchTypeOK'
  <2>1. got' \in [Names -> Reading] /\ prev' \in [Names -> Reading]
    BY <1>1, <1>3 DEF WatchTypeOK
  <2>2. next' \in 1 .. Len(Vars)
    BY <1>1, <1>2, OperandFacts
  <2>3. out' \subseteq Names /\ at' \in {"raw", "print"}
    BY <1>1, <1>2 DEF WatchTypeOK
  <2> QED
    BY <1>1, <2>1, <2>2, <2>3 DEF WatchTypeOK
<1>7. KeptAsRead'
  <2> SUFFICES ASSUME NEW v \in ReadSoFar' PROVE Alike(v, prev'[v], got'[v])
    BY DEF KeptAsRead
  <2>1. v \in Names /\ (v # w => v \in ReadSoFar)
    <3>1. PICK i \in 1 .. next : v = Vars[i]
      <4>1. CASE at' = "raw"
        <5>1. next' - 1 = next
          BY <1>1, <1>2, <4>1, OperandFacts
        <5> QED
          BY <4>1, <5>1 DEF ReadSoFar
      <4>2. CASE at' = "print"
        <5>1. v \in Names /\ next = Len(Vars)
          BY <1>1, <1>2, <4>2, OperandFacts DEF ReadSoFar
        <5> QED
          BY <5>1, OperandFacts
      <4> QED
        BY <1>1, <4>1, <4>2
    <3>2. i \in 1 .. Len(Vars) /\ (i # next => i \in 1 .. (next - 1))
      BY <1>2, OperandFacts
    <3> QED
      BY <1>1, <3>1, <3>2, OperandFacts DEF ReadSoFar
  <2>2. CASE v = w
    BY <1>4, <2>2
  <2>3. CASE v # w
    BY <1>5, <2>1, <2>3 DEF KeptAsRead
  <2> QED
    BY <2>2, <2>3
<1>8. KeptOnScreen'
  <2> SUFFICES ASSUME NEW v \in Names, v \notin out', v \notin lost
               PROVE  Alike(v, screen[v], prev'[v])
    BY <1>1 DEF KeptOnScreen
  <2>1. v \notin out /\ prev'[v] = prev[v]
    BY <1>1, <1>5
  <2> QED
    BY <2>1 DEF KeptOnScreen
<1>9. Counting'
  BY <1>1 DEF Counting
<1> QED
  BY <1>6, <1>7, <1>8, <1>9

(* What a failed sample would have printed is lost.                           *)
LEMMA WatchSampleFails ==
  ASSUME WatchIInv, SampleFails
  PROVE  WatchIInv'
<1> USE DEF WatchIInv, SampleFails, flags
<1>1. WatchTypeOK'
  BY DEF WatchTypeOK
<1>2. ReadSoFar' = {}
  BY DEF ReadSoFar
<1> QED
  BY <1>1, <1>2 DEF KeptAsRead, KeptOnScreen, Counting, Alike

LEMMA WatchReport ==
  ASSUME WatchIInv, Report
  PROVE  WatchIInv'
<1> USE DEF WatchIInv
<1>1. /\ UNCHANGED <<reconnect, diff, limit, handler, signal, plc, next, got, prev, out>>
      /\ at = "print" /\ at' \in {"ended", "wait"}
      /\ screen' = [v \in Names |-> IF v \in out THEN got[v] ELSE screen[v]]
      /\ lost' = lost \ out
  BY DEF Report, flags
<1>2. \A v \in Names : Alike(v, prev[v], got[v])
  BY <1>1 DEF KeptAsRead, ReadSoFar
<1>3. count' \in 0 .. MaxLimit /\ Counting'
  <2>1. /\ limit \in 0 .. MaxLimit /\ count \in 0 .. MaxLimit
        /\ limit = 0 => count = 0
        /\ limit > 0 => count < limit
    BY <1>1 DEF WatchTypeOK, Counting
  <2>2. CASE limit = 0
    BY <1>1, <2>1, <2>2 DEF Report, Counted, Counting
  <2>3. CASE limit > 0
    <3>1. count' = count + 1 /\ (at' # "ended" => count' < limit)
      BY <2>1, <2>3 DEF Report, Counted
    <3> QED
      BY <1>1, <2>1, <2>3, <3>1, OperandFacts DEF Counting
  <2> QED
    BY <2>1, <2>2, <2>3
<1>4. WatchTypeOK'
  BY <1>1, <1>3 DEF WatchTypeOK
<1>5. KeptAsRead'
  <2>1. ReadSoFar' \subseteq Names
    BY <1>1 DEF ReadSoFar
  <2> QED
    BY <1>1, <1>2, <2>1 DEF KeptAsRead, Alike
<1>6. KeptOnScreen'
  <2> SUFFICES ASSUME NEW v \in Names, v \notin lost'
               PROVE  Alike(v, screen'[v], prev[v])
    BY <1>1 DEF KeptOnScreen
  <2>1. CASE v \in out
    <3>1. screen'[v] = got[v]
      BY <1>1, <2>1
    <3> QED
      BY <1>2, <3>1, AlikeFacts
  <2>2. CASE v \notin out
    BY <1>1, <2>2 DEF KeptOnScreen
  <2> QED
    BY <2>1, <2>2
<1> QED
  BY <1>3, <1>4, <1>5, <1>6

LEMMA WatchKept == WatchIInv /\ [WatchNext]_watchVars => WatchIInv'
<1> SUFFICES ASSUME WatchIInv, [WatchNext]_watchVars PROVE WatchIInv'
  OBVIOUS
<1>1. CASE UNCHANGED watchVars
  BY <1>1 DEF watchVars, flags, memory, WatchIInv, WatchTypeOK, KeptAsRead, ReadSoFar,
              KeptOnScreen, Counting, Alike
<1> QED
  BY <1>1, WatchMoves, WatchReadRaw, WatchReadValue, WatchSampleFails, WatchReport
  DEF WatchNext, Loop

(* After a sample of `watch` the screen shows of every operand what was just  *)
(* read, but for those whose change a failed sample kept and did not print:   *)
(* for any operands, also repeated ones, with and without --diff.             *)
THEOREM ScreenFollows == WatchSpec => []WatchInv
<1>1. WatchIInv => ScreenOrLost
  <2> SUFFICES ASSUME WatchIInv, at = "wait", NEW v \in Names, v \notin lost
               PROVE  Shows(v)
    BY DEF ScreenOrLost
  <2>1. Alike(v, screen[v], prev[v]) /\ Alike(v, prev[v], got[v])
    BY DEF WatchIInv, KeptAsRead, KeptOnScreen, ReadSoFar
  <2> QED
    BY <2>1, AlikeFacts DEF Shows
<1>2. WatchIInv => WatchInv
  BY <1>1 DEF WatchIInv, WatchInv
<1> QED
  BY <1>2, WatchInitial, WatchKept, PTL DEF WatchSpec

----------------------------------------------------------------------------
(* Induction: a prover here takes no induction theorem with an operator for
   its parameter, so what recursive definitions compute goes through sets. *)

(* Induction, over sets instead of operators.                                 *)
Below == {p \in Nat \X Nat : p[1] < p[2]}

LEMMA Least ==
  ASSUME NEW S \in SUBSET Nat, S # {}
  PROVE  \E m \in S : \A k \in S : m <= k
<1>1. IsWellFoundedOn(Below, Nat)
  <2>1. IsWellFoundedOn(OpToRel(<, Nat), Nat)
    BY NatLessThanWellFounded
  <2>2. OpToRel(<, Nat) = Below
    BY DEF OpToRel, Below
  <2> QED
    BY <2>1, <2>2
<1>2. PICK m \in S : \A k \in S : <<k, m>> \notin Below
  BY <1>1, WFMin
<1>3. \A k \in S : ~(k < m)
  BY <1>2 DEF Below
<1> QED
  BY <1>3

LEMMA Climb ==
  ASSUME NEW n \in Nat, NEW T, 0 \in T, \A i \in 1 .. n : i - 1 \in T => i \in T
  PROVE  \A i \in 0 .. n : i \in T
<1> DEFINE missing == (0 .. n) \ T
<1> SUFFICES ASSUME missing # {} PROVE FALSE
  OBVIOUS
<1>1. missing \in SUBSET Nat
  OBVIOUS
<1>2. PICK m \in missing : \A k \in missing : m <= k
  <2> HIDE DEF missing
  <2> QED
    BY <1>1, Least
<1>3. m \in 1 .. n /\ m - 1 \in 0 .. n
  OBVIOUS
<1>4. m - 1 \in T
  BY <1>2, <1>3
<1> QED
  BY <1>3, <1>4

(* What holds where it holds before holds everywhere.                         *)
LEMMA Inherited ==
  ASSUME NEW lo \in {0, 1}, NEW hi \in Nat, NEW T,
         \A i \in lo .. hi : (\A j \in lo .. i - 1 : j \in T) => i \in T
  PROVE  \A i \in lo .. hi : i \in T
<1> DEFINE missing == (lo .. hi) \ T
<1> SUFFICES ASSUME missing # {} PROVE FALSE
  OBVIOUS
<1>1. missing \in SUBSET Nat
  OBVIOUS
<1>2. PICK m \in missing : \A k \in missing : m <= k
  <2> HIDE DEF missing
  <2> QED
    BY <1>1, Least
<1>3. \A j \in lo .. m - 1 : j \in T
  BY <1>2
<1> QED
  BY <1>3

(* A map of functions on lo .. hi whose value at a place depends on earlier   *)
(* places only has a fixed point: recursive definitions define something.     *)
Causal(F, lo, hi, S) ==
  /\ S # {} /\ lo \in {0, 1} /\ hi \in Nat
  /\ F \in [[lo .. hi -> S] -> [lo .. hi -> S]]
  /\ \A g, h \in [lo .. hi -> S], i \in lo .. hi :
       (\A j \in lo .. i - 1 : g[j] = h[j]) => F[g][i] = F[h][i]

LEMMA Definable ==
  ASSUME NEW F, NEW lo, NEW hi, NEW S, Causal(F, lo, hi, S)
  PROVE  \E g \in [lo .. hi -> S] : F[g] = g
<1> DEFINE D == lo .. hi
<1> USE DEF Causal
<1> DEFINE N == hi + 1 - lo
           Solves(g, m) == \A i \in lo .. lo + m - 1 : g[i] = F[g][i]
           Solved(m) == \E g \in [D -> S] : Solves(g, m)
           T == {m \in 0 .. N : Solved(m)}
<1>0. N \in Nat /\ \A m \in 0 .. N : m \in T <=> Solved(m)
  <2>1. N \in Nat
    OBVIOUS
  <2> HIDE DEF N, Solved
  <2> QED
    BY <2>1
<1>1. Solved(0)
  <2>1. PICK s \in S : TRUE
    OBVIOUS
  <2>2. [i \in D |-> s] \in [D -> S]
    OBVIOUS
  <2>3. \A i \in lo .. lo + 0 - 1 : FALSE
    OBVIOUS
  <2> QED
    BY <2>2, <2>3
<1>2. ASSUME NEW m \in 1 .. N, Solved(m - 1) PROVE Solved(m)
  <2> DEFINE k == lo + m - 1
  <2>1. PICK g \in [D -> S] : Solves(g, m - 1)
    BY <1>2
  <2>2. k \in D /\ \A i \in lo .. k : i # k => i \in lo .. lo + (m - 1) - 1
    OBVIOUS
  <2> DEFINE h == [g EXCEPT ![k] = F[g][k]]
  <2>3. F[g][k] \in S
    BY <2>2
  <2>4. h \in [D -> S] /\ h[k] = F[g][k] /\ \A i \in D : i # k => h[i] = g[i]
    BY <2>2, <2>3
  <2> HIDE DEF h
  <2>5. ASSUME NEW i \in lo .. k PROVE h[i] = F[h][i]
    <3>1. i \in D /\ \A j \in lo .. i - 1 : j \in D /\ j # k
      BY <2>2
    <3>2. F[g][i] = F[h][i]
      BY <2>4, <3>1
    <3>3. CASE i = k
      BY <2>4, <3>2, <3>3
    <3>4. CASE i # k
      <4>1. g[i] = F[g][i]
        BY <2>1, <2>2, <3>4
      <4> QED
        BY <2>4, <3>1, <3>2, <3>4, <4>1
    <3> QED
      BY <3>3, <3>4
  <2>6. Solves(h, m)
    BY <2>5
  <2> QED
    BY <2>4, <2>6
<1>3. Solved(N)
  <2> HIDE DEF T, Solved, N
  <2>1. 0 \in T /\ \A m \in 1 .. N : m - 1 \in T => m \in T
    <3>1. \A m \in 1 .. N : m \in 0 .. N /\ m - 1 \in 0 .. N
      BY <1>0
    <3> QED
      BY <1>0, <1>1, <1>2, <3>1
  <2>2. \A m \in 0 .. N : m \in T
    BY <1>0, <2>1, Climb
  <2> QED
    BY <1>0, <2>2
<1>4. PICK g \in [D -> S] : Solves(g, N)
  BY <1>3
<1>5. \A i \in D : g[i] = F[g][i]
  <2>1. \A i \in D : i \in lo .. lo + N - 1
    OBVIOUS
  <2> QED
    BY <1>4, <2>1
<1>6. F[g] \in [D -> S]
  OBVIOUS
<1> QED
  BY <1>5, <1>6

----------------------------------------------------------------------------
(* Scripts: what Infer says of an expression, against what Outcomes evaluates *)

(* The equations of the recursive definitions.                                *)
TypeOf(sc, sy, types, i) ==
  LET e == sc.exprs[i] IN
  CASE e.op = "lit" -> e.type
    [] e.op = "overlong" -> "INT"
    [] e.op = "name" -> IF e.name \in DOMAIN sy THEN sy[e.name].type ELSE "error"
    [] e.op = "neg" -> InferNeg(types[e.left])
    [] OTHER -> IF "error" \in {types[e.left], types[e.right]} THEN "error"
                ELSE Infer(e.op, types[e.left], types[e.right])

OutcomeOf(sc, sy, of, i) ==
  LET e == sc.exprs[i] IN
  CASE e.op = "lit" -> {KindOf[e.type]}
    [] e.op = "overlong" -> {"failure"}
    [] e.op = "name" -> IF e.name \in DOMAIN sy THEN {KindOf[sy[e.name].type]} ELSE {"failure"}
    [] e.op = "neg" -> (of[e.left] \cap Faults) \cup UNION {Negated(k) : k \in of[e.left] \ Faults}
    [] OTHER ->
         ((of[e.left] \cup of[e.right]) \cap Faults)
         \cup UNION {Result(e.op, l, r) : l \in of[e.left] \ Faults, r \in of[e.right] \ Faults}

(* Symbols have a type.                                                       *)
Typed(sy) == \A n \in DOMAIN sy : sy[n].type \in Types

LEMMA InferIsType ==
  ASSUME NEW op \in Operators, NEW l \in Types, NEW r \in Types
  PROVE  Infer(op, l, r) \in Types \cup {"error"} /\ InferNeg(l) \in Types \cup {"error"}
BY DEF Infer, InferNeg, Types, Numeric, Wider, Operators

LEMMA TypesAre ==
  ASSUME NEW sc, IsScript(sc), NEW sy, Typed(sy)
  PROVE  LET types == TypesIn(sc, sy)
         IN  \A i \in 1 .. Len(sc.exprs) :
               types[i] = TypeOf(sc, sy, types, i) /\ types[i] \in Types \cup {"error"}
<1> DEFINE D == 1 .. Len(sc.exprs)
           S == Types \cup {"error"}
           F == [g \in [D -> S] |-> [i \in D |-> TypeOf(sc, sy, g, i)]]
<1>1. Len(sc.exprs) \in Nat
  BY DEF IsScript
<1>2. ASSUME NEW types, NEW i \in D, \A j \in 1 .. i - 1 : types[j] \in S
      PROVE  TypeOf(sc, sy, types, i) \in S
  <2> DEFINE e == sc.exprs[i]
  <2>1. CASE e.op = "lit" /\ e.type \in Types
    BY <2>1 DEF TypeOf
  <2>2. CASE e.op \in {"overlong", "name"}
    BY <2>2 DEF TypeOf, Typed, Types
  <2>3. CASE e.op = "neg" /\ e.left \in 1 .. i - 1
    BY <1>2, <2>3 DEF TypeOf, InferNeg
  <2>4. CASE e.op \in Operators /\ {e.left, e.right} \subseteq 1 .. i - 1
    <3>1. types[e.left] \in S /\ types[e.right] \in S
      BY <1>2, <2>4
    <3> QED
      BY <2>4, <3>1, InferIsType DEF TypeOf, Operators
  <2> QED
    BY <2>1, <2>2, <2>3, <2>4 DEF IsScript
<1>3. F \in [[D -> S] -> [D -> S]]
  <2> SUFFICES ASSUME NEW g \in [D -> S], NEW i \in D PROVE TypeOf(sc, sy, g, i) \in S
    OBVIOUS
  <2> HIDE DEF S
  <2> QED
    BY <1>1, <1>2
<1>4. ASSUME NEW g, NEW h, NEW i \in D, \A j \in 1 .. i - 1 : g[j] = h[j]
      PROVE  TypeOf(sc, sy, g, i) = TypeOf(sc, sy, h, i)
  <2> DEFINE e == sc.exprs[i]
  <2>1. CASE e.op \in {"lit", "overlong", "name"}
    BY <2>1 DEF TypeOf
  <2>2. CASE e.op = "neg" /\ e.left \in 1 .. i - 1
    BY <1>4, <2>2 DEF TypeOf
  <2>3. CASE e.op \in Operators /\ {e.left, e.right} \subseteq 1 .. i - 1
    <3>1. g[e.left] = h[e.left] /\ g[e.right] = h[e.right]
      BY <1>4, <2>3
    <3> QED
      BY <2>3, <3>1 DEF TypeOf, Operators
  <2> QED
    BY <2>1, <2>2, <2>3 DEF IsScript
<1>5. PICK g \in [D -> S] : g = [i \in D |-> TypeOf(sc, sy, g, i)]
  <2>1. \A g \in [D -> S] : F[g] = [i \in D |-> TypeOf(sc, sy, g, i)]
    OBVIOUS
  <2>2. S # {} /\ D = 1 .. Len(sc.exprs)
    OBVIOUS
  <2> HIDE DEF F, S, D
  <2>3. ASSUME NEW g \in [D -> S], NEW h \in [D -> S], NEW i \in D,
               \A j \in 1 .. i - 1 : g[j] = h[j]
        PROVE  F[g][i] = F[h][i]
    <3>1. TypeOf(sc, sy, g, i) = TypeOf(sc, sy, h, i)
      BY <1>4, <2>2, <2>3
    <3>2. F[g][i] = TypeOf(sc, sy, g, i) /\ F[h][i] = TypeOf(sc, sy, h, i)
      BY <2>1
    <3> QED
      BY <3>1, <3>2
  <2>4. Causal(F, 1, Len(sc.exprs), S)
    BY <1>1, <1>3, <2>2, <2>3 DEF Causal
  <2>5. \E g \in [D -> S] : F[g] = g
    BY <2>2, <2>4, Definable
  <2> QED
    BY <2>1, <2>5
<1> DEFINE types == TypesIn(sc, sy)
<1>6. types = [i \in D |-> TypeOf(sc, sy, types, i)]
  <2>1. types = CHOOSE f : f = [i \in D |-> TypeOf(sc, sy, f, i)]
    BY DEF TypesIn, TypeOf
  <2> QED
    BY <2>1, <1>5
<1> HIDE DEF types
<1>7. \A i \in D : types[i] = TypeOf(sc, sy, types, i)
  BY <1>6
<1>8. \A i \in D : types[i] \in S
  <2> DEFINE T == {i \in D : types[i] \in S}
  <2>1. ASSUME NEW i \in D, \A j \in 1 .. i - 1 : j \in T PROVE i \in T
    <3>1. TypeOf(sc, sy, types, i) \in S
      BY <1>2, <2>1
    <3> QED
      BY <1>7, <3>1
  <2>2. \A i \in D : i \in T
    <3> HIDE DEF T
    <3> QED
      BY <1>1, <2>1, Inherited
  <2> QED
    BY <2>2
<1> QED
  BY <1>7, <1>8 DEF types

(* What each form of expression comes to.                                     *)
LEMMA OutcomeCases ==
  ASSUME NEW sc, NEW sy, NEW of, NEW i
  PROVE  LET e == sc.exprs[i] IN
         /\ e.op = "lit" => OutcomeOf(sc, sy, of, i) = {KindOf[e.type]}
         /\ e.op = "overlong" => OutcomeOf(sc, sy, of, i) = {"failure"}
         /\ e.op = "name" =>
              OutcomeOf(sc, sy, of, i) = IF e.name \in DOMAIN sy THEN {KindOf[sy[e.name].type]} ELSE {"failure"}
         /\ e.op = "neg" =>
              \A x \in OutcomeOf(sc, sy, of, i) :
                \/ x \in of[e.left] \cap Faults
                \/ \E k \in of[e.left] \ Faults : x \in Negated(k)
         /\ e.op \in Operators =>
              \A x \in OutcomeOf(sc, sy, of, i) :
                \/ x \in (of[e.left] \cup of[e.right]) \cap Faults
                \/ \E l \in of[e.left] \ Faults, r \in of[e.right] \ Faults : x \in Result(e.op, l, r)
<1> DEFINE e == sc.exprs[i]
<1>1. /\ e.op = "lit" => OutcomeOf(sc, sy, of, i) = {KindOf[e.type]}
      /\ e.op = "overlong" => OutcomeOf(sc, sy, of, i) = {"failure"}
  BY DEF OutcomeOf
<1>2. e.op = "name" =>
        OutcomeOf(sc, sy, of, i) = IF e.name \in DOMAIN sy THEN {KindOf[sy[e.name].type]} ELSE {"failure"}
  BY DEF OutcomeOf
<1> HIDE DEF e
<1>3. ASSUME e.op = "neg", NEW x \in OutcomeOf(sc, sy, of, i)
      PROVE  \/ x \in of[e.left] \cap Faults
             \/ \E k \in of[e.left] \ Faults : x \in Negated(k)
  <2>1. OutcomeOf(sc, sy, of, i)
          = (of[e.left] \cap Faults) \cup UNION {Negated(k) : k \in of[e.left] \ Faults}
    BY <1>3 DEF OutcomeOf, e
  <2> QED
    BY <1>3, <2>1
<1>4. ASSUME e.op \in Operators, NEW x \in OutcomeOf(sc, sy, of, i)
      PROVE  \/ x \in (of[e.left] \cup of[e.right]) \cap Faults
             \/ \E l \in of[e.left] \ Faults, r \in of[e.right] \ Faults : x \in Result(e.op, l, r)
  <2>1. OutcomeOf(sc, sy, of, i) =
          ((of[e.left] \cup of[e.right]) \cap Faults)
          \cup UNION {Result(e.op, l, r) : l \in of[e.left] \ Faults, r \in of[e.right] \ Faults}
    BY <1>4 DEF OutcomeOf, e, Operators
  <2> QED
    BY <1>4, <2>1
<1> QED
  BY <1>1, <1>2, <1>3, <1>4 DEF e

LEMMA OutcomesAre ==
  ASSUME NEW sc, IsScript(sc), NEW sy, Typed(sy)
  PROVE  LET of == OutcomesIn(sc, sy)
         IN  \A i \in 1 .. Len(sc.exprs) : of[i] = OutcomeOf(sc, sy, of, i)
<1> DEFINE D == 1 .. Len(sc.exprs)
           S == SUBSET (Kinds \cup Faults)
           F == [g \in [D -> S] |-> [i \in D |-> OutcomeOf(sc, sy, g, i)]]
<1>1. Len(sc.exprs) \in Nat
  BY DEF IsScript
<1>2. ASSUME NEW of \in [D -> S], NEW i \in D
      PROVE  OutcomeOf(sc, sy, of, i) \in S
  <2> DEFINE e == sc.exprs[i]
  <2>1. \A t \in Types : KindOf[t] \in Kinds
    BY Kind DEF Types, Kinds
  <2>2. CASE e.op = "lit" /\ e.type \in Types
    BY <2>1, <2>2 DEF OutcomeOf
  <2>3. CASE e.op = "overlong"
    <3>1. OutcomeOf(sc, sy, of, i) = {"failure"}
      BY <2>3, OutcomeCases
    <3> QED
      BY <3>1 DEF Faults
  <2>6. CASE e.op = "name"
    <3>1. e.name \in DOMAIN sy => KindOf[sy[e.name].type] \in Kinds
      BY <2>1 DEF Typed
    <3>2. OutcomeOf(sc, sy, of, i)
            = IF e.name \in DOMAIN sy THEN {KindOf[sy[e.name].type]} ELSE {"failure"}
      BY <2>6, OutcomeCases
    <3> QED
      BY <3>1, <3>2 DEF Faults
  <2>4. CASE e.op = "neg" /\ e.left \in 1 .. i - 1
    <3>1. \A k : Negated(k) \subseteq Kinds \cup Faults
      BY DEF Negated, Kinds, Faults
    <3> HIDE DEF e
    <3> QED
      BY <2>4, <3>1, OutcomeCases DEF e
  <2>5. CASE e.op \in Operators /\ {e.left, e.right} \subseteq 1 .. i - 1
    <3>1. \A op, l, r : Result(op, l, r) \subseteq Kinds \cup Faults
      <4>1. \A l, r : Logic(l, r) \subseteq Kinds \cup Faults /\ Arithmetic(l, r) \subseteq Kinds \cup Faults
        BY DEF Logic, Arithmetic, IfParses, Kinds, Faults
      <4>2. \A l, r, o : Compared(o, l, r) \subseteq Kinds \cup Faults
        BY DEF Compared, IfParses, Kinds, Faults
      <4>3. \A l, r : AddSub(l, r) \subseteq Kinds \cup Faults
        BY <4>1 DEF AddSub, Kinds, Faults
      <4>4. "division by zero" \in Faults
        BY DEF Faults
      <4> QED
        BY <4>1, <4>2, <4>3, <4>4 DEF Result
    <3> HIDE DEF e
    <3> QED
      BY <2>5, <3>1, OutcomeCases DEF e
  <2> QED
    BY <2>2, <2>3, <2>4, <2>5, <2>6 DEF IsScript
<1>3. F \in [[D -> S] -> [D -> S]]
  <2> HIDE DEF S
  <2> QED
    BY <1>1, <1>2
<1>4. ASSUME NEW g, NEW h, NEW i \in D, \A j \in 1 .. i - 1 : g[j] = h[j]
      PROVE  OutcomeOf(sc, sy, g, i) = OutcomeOf(sc, sy, h, i)
  <2> DEFINE e == sc.exprs[i]
  <2>1. CASE e.op \in {"lit", "overlong", "name"}
    BY <2>1 DEF OutcomeOf
  <2>2. CASE e.op = "neg" /\ e.left \in 1 .. i - 1
    BY <1>4, <2>2 DEF OutcomeOf
  <2>3. CASE e.op \in Operators /\ {e.left, e.right} \subseteq 1 .. i - 1
    <3>1. g[e.left] = h[e.left] /\ g[e.right] = h[e.right]
      BY <1>4, <2>3
    <3> QED
      BY <2>3, <3>1 DEF OutcomeOf, Operators
  <2> QED
    BY <2>1, <2>2, <2>3 DEF IsScript
<1>5. PICK g \in [D -> S] : g = [i \in D |-> OutcomeOf(sc, sy, g, i)]
  <2>1. \A g \in [D -> S] : F[g] = [i \in D |-> OutcomeOf(sc, sy, g, i)]
    OBVIOUS
  <2>2. S # {} /\ D = 1 .. Len(sc.exprs)
    OBVIOUS
  <2> HIDE DEF F, S, D
  <2>3. ASSUME NEW g \in [D -> S], NEW h \in [D -> S], NEW i \in D,
               \A j \in 1 .. i - 1 : g[j] = h[j]
        PROVE  F[g][i] = F[h][i]
    <3>1. OutcomeOf(sc, sy, g, i) = OutcomeOf(sc, sy, h, i)
      BY <1>4, <2>2, <2>3
    <3>2. F[g][i] = OutcomeOf(sc, sy, g, i) /\ F[h][i] = OutcomeOf(sc, sy, h, i)
      BY <2>1
    <3> QED
      BY <3>1, <3>2
  <2>4. Causal(F, 1, Len(sc.exprs), S)
    BY <1>1, <1>3, <2>2, <2>3 DEF Causal
  <2>5. \E g \in [D -> S] : F[g] = g
    BY <2>2, <2>4, Definable
  <2> QED
    BY <2>1, <2>5
<1> DEFINE of == OutcomesIn(sc, sy)
<1>6. of = [i \in D |-> OutcomeOf(sc, sy, of, i)]
  <2>1. of = CHOOSE f : f = [i \in D |-> OutcomeOf(sc, sy, f, i)]
    BY DEF OutcomesIn, OutcomeOf
  <2> QED
    BY <2>1, <1>5
<1> HIDE DEF of
<1>7. \A i \in D : of[i] = OutcomeOf(sc, sy, of, i)
  BY <1>6
<1> QED
  BY <1>7 DEF of

(* Of an expression that the checker gave a type, evaluation has the kind of  *)
(* that type, or divides by zero.                                             *)
LEMMA ExpressionsSound ==
  ASSUME NEW sc, IsScript(sc), LiteralsFit(sc), NEW sy, Typed(sy),
         NEW i \in 1 .. Len(sc.exprs), TypesIn(sc, sy)[i] # "error"
  PROVE  /\ TypesIn(sc, sy)[i] \in Types
         /\ OutcomesIn(sc, sy)[i] \subseteq {KindOf[TypesIn(sc, sy)[i]], "division by zero"}
<1> DEFINE D == 1 .. Len(sc.exprs)
           types == TypesIn(sc, sy)
           of == OutcomesIn(sc, sy)
           Sound(j) == types[j] # "error" => of[j] \subseteq {KindOf[types[j]], "division by zero"}
           T == {j \in D : Sound(j)}
<1>1. /\ \A j \in D : types[j] = TypeOf(sc, sy, types, j) /\ types[j] \in Types \cup {"error"}
      /\ \A j \in D : of[j] = OutcomeOf(sc, sy, of, j)
  BY TypesAre, OutcomesAre
<1> HIDE DEF types, of
<1>2. \A t \in Types : KindOf[t] \notin Faults
  BY Kind DEF Types, Faults
<1>3. ASSUME NEW j \in D, types[j] # "error", \A k \in 1 .. j - 1 : Sound(k)
      PROVE  Sound(j)
  <2> DEFINE e == sc.exprs[j]
  <2>1. types[j] = TypeOf(sc, sy, types, j) /\ of[j] = OutcomeOf(sc, sy, of, j)
    BY <1>1
  <2>2. e.op # "overlong"
    BY DEF LiteralsFit
  <2>3. CASE e.op = "lit"
    <3>1. types[j] = e.type
      BY <2>1, <2>3 DEF TypeOf
    <3>2. of[j] = {KindOf[e.type]}
      BY <2>1, <2>3, OutcomeCases
    <3> QED
      BY <3>1, <3>2
  <2>4. CASE e.op = "name"
    <3>1. e.name \in DOMAIN sy /\ types[j] = sy[e.name].type
      BY <1>3, <2>1, <2>4 DEF TypeOf
    <3>2. of[j] = {KindOf[sy[e.name].type]}
      BY <2>1, <2>4, <3>1, OutcomeCases
    <3> QED
      BY <3>1, <3>2
  <2>5. CASE e.op = "neg" /\ e.left \in 1 .. j - 1
    <3> DEFINE t == types[e.left]
    <3>1. e.left \in D
      BY <2>5 DEF IsScript
    <3>2. types[j] = InferNeg(t)
      BY <2>1, <2>5 DEF TypeOf
    <3>3. t # "error" /\ t \in Types
      BY <1>1, <1>3, <3>1, <3>2 DEF InferNeg
    <3>4. of[e.left] \subseteq {KindOf[t], "division by zero"}
      BY <1>3, <2>5, <3>3
    <3>5. Negated(KindOf[t]) = {KindOf[types[j]]}
      <4> HIDE DEF t
      <4> QED
        BY <1>3, <3>2, <3>3, NegationSound
    <3>6. \A x \in of[j] :
            \/ x \in of[e.left] \cap Faults
            \/ \E k \in of[e.left] \ Faults : x \in Negated(k)
      BY <2>1, <2>5, OutcomeCases
    <3>7. KindOf[t] \notin Faults /\ "division by zero" \in Faults
      BY <1>2, <3>3 DEF Faults
    <3> HIDE DEF t, e
    <3>8. ASSUME NEW x \in of[j] PROVE x \in {KindOf[types[j]], "division by zero"}
      <4>1. CASE x \in of[e.left] \cap Faults
        BY <3>4, <3>7, <4>1
      <4>2. CASE \E k \in of[e.left] \ Faults : x \in Negated(k)
        <5>1. PICK k \in of[e.left] \ Faults : x \in Negated(k)
          BY <4>2
        <5>2. k = KindOf[t]
          BY <3>4, <3>7
        <5> QED
          BY <3>5, <5>1, <5>2
      <4> QED
        BY <3>6, <4>1, <4>2
    <3> QED
      BY <3>8
  <2>6. CASE e.op \in Operators /\ {e.left, e.right} \subseteq 1 .. j - 1
    <3> DEFINE l == types[e.left]
               r == types[e.right]
    <3>1. e.left \in D /\ e.right \in D
      BY <2>6 DEF IsScript
    <3>2. types[j] = IF "error" \in {l, r} THEN "error" ELSE Infer(e.op, l, r)
      BY <2>1, <2>6 DEF TypeOf, Operators
    <3>3. l \in Types /\ r \in Types /\ types[j] = Infer(e.op, l, r)
      BY <1>1, <1>3, <3>1, <3>2
    <3>4. /\ of[e.left] \subseteq {KindOf[l], "division by zero"}
          /\ of[e.right] \subseteq {KindOf[r], "division by zero"}
      BY <1>3, <2>6, <3>2
    <3>5. Result(e.op, KindOf[l], KindOf[r]) \subseteq {KindOf[types[j]], "division by zero"}
      <4> HIDE DEF l, r
      <4> QED
        BY <1>3, <2>6, <3>3, OperatorsSound
    <3>6. \A x \in of[j] :
            \/ x \in (of[e.left] \cup of[e.right]) \cap Faults
            \/ \E a \in of[e.left] \ Faults, b \in of[e.right] \ Faults : x \in Result(e.op, a, b)
      BY <2>1, <2>6, OutcomeCases
    <3>7. KindOf[l] \notin Faults /\ KindOf[r] \notin Faults /\ "division by zero" \in Faults
      BY <1>2, <3>3 DEF Faults
    <3> HIDE DEF l, r, e
    <3>8. ASSUME NEW x \in of[j] PROVE x \in {KindOf[types[j]], "division by zero"}
      <4>1. CASE x \in (of[e.left] \cup of[e.right]) \cap Faults
        BY <3>4, <3>7, <4>1
      <4>2. CASE \E a \in of[e.left] \ Faults, b \in of[e.right] \ Faults : x \in Result(e.op, a, b)
        <5>1. PICK a \in of[e.left] \ Faults, b \in of[e.right] \ Faults : x \in Result(e.op, a, b)
          BY <4>2
        <5>2. a = KindOf[l] /\ b = KindOf[r]
          BY <3>4, <3>7
        <5> QED
          BY <3>5, <5>1, <5>2
      <4> QED
        BY <3>6, <4>1, <4>2
    <3> QED
      BY <3>8
  <2> QED
    BY <2>2, <2>3, <2>4, <2>5, <2>6 DEF IsScript
<1>4. \A j \in D : j \in T
  <2>1. Len(sc.exprs) \in Nat /\ 1 \in {0, 1}
    BY DEF IsScript
  <2>2. ASSUME NEW j \in D, \A k \in 1 .. j - 1 : k \in T PROVE j \in T
    BY <1>3, <2>2
  <2> HIDE DEF T
  <2> QED
    BY <2>1, <2>2, Inherited
<1> QED
  BY <1>1, <1>4 DEF types, of

----------------------------------------------------------------------------
(* Scripts of a schema *)

(* The symbols after i declarations, by the ones before.                      *)
Declared(sc, tags, after, i) ==
  IF i = 0 THEN TagSymbols(tags)
  ELSE LET v == sc.vars[i] IN
       [n \in DOMAIN after[i - 1] \cup {v.name} |->
          IF n = v.name /\ n \notin DOMAIN after[i - 1]
            THEN [type |-> TypeFromDecl(v), role |-> "", builtin |-> FALSE]
            ELSE after[i - 1][n]]

LEMMA SymbolsAre ==
  ASSUME NEW sc, IsScript(sc), NEW tags
  PROVE  LET after == SymbolsAfter(sc, tags)
         IN  \A i \in 0 .. Len(sc.vars) : after[i] = Declared(sc, tags, after, i)
<1> DEFINE N == Len(sc.vars)
           Solved(m) == \E g : g = [i \in 0 .. m |-> Declared(sc, tags, g, i)]
           T == {m \in 0 .. N : Solved(m)}
           after == SymbolsAfter(sc, tags)
<1>1. N \in Nat
  BY DEF IsScript
<1>2. Solved(0)
  <2> DEFINE g == [i \in 0 .. 0 |-> TagSymbols(tags)]
  <2>1. \A i \in 0 .. 0 : Declared(sc, tags, g, i) = TagSymbols(tags)
    BY DEF Declared
  <2> QED
    BY <2>1
<1>3. ASSUME NEW m \in 1 .. N, Solved(m - 1) PROVE Solved(m)
  <2>1. PICK g : g = [i \in 0 .. m - 1 |-> Declared(sc, tags, g, i)]
    BY <1>3
  <2> DEFINE h == [i \in 0 .. m |-> IF i = m THEN Declared(sc, tags, g, m) ELSE g[i]]
  <2>2. \A i \in 0 .. m - 1 : h[i] = g[i]
    OBVIOUS
  <2>3. h = [i \in 0 .. m |-> h[i]] /\ h[m] = Declared(sc, tags, g, m)
    OBVIOUS
  <2> HIDE DEF h
  <2>4. ASSUME NEW i \in 0 .. m PROVE Declared(sc, tags, h, i) = Declared(sc, tags, g, i)
    <3>1. i # 0 => h[i - 1] = g[i - 1]
      BY <1>1, <2>2
    <3> QED
      BY <3>1 DEF Declared
  <2>5. ASSUME NEW i \in 0 .. m PROVE h[i] = Declared(sc, tags, h, i)
    <3>1. i # m => i \in 0 .. m - 1 /\ g[i] = Declared(sc, tags, g, i)
      <4>1. i # m => i \in 0 .. m - 1
        BY <1>1
      <4> QED
        BY <2>1, <4>1
    <3> QED
      BY <2>2, <2>3, <2>4, <3>1
  <2>6. h = [i \in 0 .. m |-> Declared(sc, tags, h, i)]
    BY <2>3, <2>5
  <2> QED
    BY <2>6
<1>4. Solved(N)
  <2> HIDE DEF Solved, N
  <2>1. 0 \in T /\ \A m \in 1 .. N : m - 1 \in T => m \in T
    BY <1>1, <1>2, <1>3
  <2> HIDE DEF T
  <2>2. \A m \in 0 .. N : m \in T
    BY <1>1, <2>1, Climb
  <2> QED
    BY <1>1, <2>2 DEF T
<1>5. after = [i \in 0 .. N |-> Declared(sc, tags, after, i)]
  <2>1. after = CHOOSE f : f = [i \in 0 .. N |-> Declared(sc, tags, f, i)]
    BY DEF SymbolsAfter, Declared
  <2> QED
    BY <1>4, <2>1
<1> HIDE DEF after
<1>6. \A i \in 0 .. N : after[i] = Declared(sc, tags, after, i)
  BY <1>5
<1> QED
  BY <1>6 DEF after

LEMMA TagSymbolsTyped ==
  ASSUME NEW tags, Len(tags) \in Nat
  PROVE  Typed(TagSymbols(tags))
<1> DEFINE sy == TagSymbols(tags)
<1>1. "TIME" \in Types
  BY DEF Types
<1>2. ASSUME NEW n \in TagNames(tags) PROVE LastNamed(tags, n) \in Named(tags)
  <2> DEFINE S == {i \in Named(tags) : tags[i].name = n}
             M == {Len(tags) - i : i \in S}
  <2>1. S # {} /\ S \subseteq 1 .. Len(tags)
    BY <1>2 DEF TagNames, Named
  <2>2. M \in SUBSET Nat /\ M # {}
    BY <2>1
  <2>3. PICK m \in M : \A k \in M : m <= k
    <3> HIDE DEF M
    <3> QED
      BY <2>2, Least
  <2>4. PICK i \in S : m = Len(tags) - i
    BY <2>3
  <2>5. \A j \in S : j <= i
    <3> SUFFICES ASSUME NEW j \in S PROVE j <= i
      OBVIOUS
    <3>1. Len(tags) - i <= Len(tags) - j
      BY <2>3, <2>4
    <3>2. i \in 1 .. Len(tags) /\ j \in 1 .. Len(tags)
      BY <2>1
    <3> HIDE DEF S
    <3> QED
      BY <3>1, <3>2
  <2> QED
    BY <2>4, <2>5 DEF LastNamed
<1>3. \A t : TypeFromSchema(t) # "none" => TypeFromSchema(t) \in Types
  BY DEF TypeFromSchema, Types
<1>4. ASSUME NEW n \in DOMAIN sy PROVE sy[n].type \in Types
  <2>1. CASE n \in TagNames(tags)
    <3> DEFINE t == tags[LastNamed(tags, n)]
    <3>1. TypeFromSchema(t.type) # "none"
      BY <1>2, <2>1 DEF Named
    <3>2. sy[n].type = TypeFromSchema(t.type)
      BY <2>1 DEF TagSymbols
    <3> QED
      BY <1>3, <3>1, <3>2
  <2>2. CASE n \notin TagNames(tags)
    BY <1>1, <2>2 DEF TagSymbols
  <2> QED
    BY <2>1, <2>2
<1> QED
  BY <1>4 DEF Typed

LEMMA SymbolsTyped ==
  ASSUME NEW sc, IsScript(sc), NEW tags, Len(tags) \in Nat,
         \A i \in 1 .. Len(sc.vars) : DeclarationOK(sc, tags, i)
  PROVE  Typed(Symbols(sc, tags))
<1> DEFINE N == Len(sc.vars)
           after == SymbolsAfter(sc, tags)
           T == {i \in 0 .. N : Typed(after[i])}
<1>1. N \in Nat
  BY DEF IsScript
<1>2. \A i \in 0 .. N : after[i] = Declared(sc, tags, after, i)
  BY SymbolsAre
<1>3. Typed(after[0])
  <2>1. after[0] = TagSymbols(tags)
    <3> HIDE DEF after, N
    <3>1. after[0] = Declared(sc, tags, after, 0)
      BY <1>1, <1>2
    <3> QED
      BY <3>1 DEF Declared
  <2> HIDE DEF after
  <2> QED
    BY <2>1, TagSymbolsTyped
<1>4. ASSUME NEW i \in 1 .. N, Typed(after[i - 1]) PROVE Typed(after[i])
  <2> DEFINE v == sc.vars[i]
             before == after[i - 1]
  <2>1. TypeFromDecl(v) \in Types
    BY DEF DeclarationOK, TypeFromDecl, Types
  <2>2. after[i] = [n \in DOMAIN before \cup {v.name} |->
                      IF n = v.name /\ n \notin DOMAIN before
                        THEN [type |-> TypeFromDecl(v), role |-> "", builtin |-> FALSE]
                        ELSE before[n]]
    <3>1. i \in 0 .. N /\ i # 0
      BY <1>1
    <3>2. after[i] = Declared(sc, tags, after, i)
      BY <1>2, <3>1
    <3> QED
      BY <3>1, <3>2 DEF Declared
  <2> HIDE DEF before, v
  <2>3. \A n \in DOMAIN before : before[n].type \in Types
    BY <1>4 DEF Typed, before
  <2>4. ASSUME NEW n \in DOMAIN after[i] PROVE after[i][n].type \in Types
    <3>1. n \in DOMAIN before \cup {v.name}
      BY <2>2
    <3>2. CASE n = v.name /\ n \notin DOMAIN before
      <4>1. after[i][n] = [type |-> TypeFromDecl(v), role |-> "", builtin |-> FALSE]
        BY <2>2, <3>1, <3>2
      <4>2. [type |-> TypeFromDecl(v), role |-> "", builtin |-> FALSE].type = TypeFromDecl(v)
        OBVIOUS
      <4> QED
        BY <2>1, <4>1, <4>2, Zenon
    <3>3. CASE n \in DOMAIN before
      <4>1. after[i][n] = before[n]
        BY <2>2, <3>1, <3>3
      <4> QED
        BY <2>3, <3>3, <4>1
    <3> QED
      BY <3>1, <3>2, <3>3
  <2> QED
    BY <2>4 DEF Typed
<1>5. Typed(after[N])
  <2> HIDE DEF N, after
  <2>1. 0 \in T /\ \A i \in 1 .. N : i - 1 \in T => i \in T
    BY <1>1, <1>3, <1>4
  <2> HIDE DEF T
  <2>2. \A i \in 0 .. N : i \in T
    BY <1>1, <2>1, Climb
  <2> QED
    BY <1>1, <2>2 DEF T
<1> QED
  BY <1>5 DEF Symbols

(* A script of any length that compiles against a schema evaluates to values   *)
(* of the types the checker gave it, or divides by zero (simlang.Compile, Infer, *)
(* evalBinary): by induction over its expressions and declarations.           *)
THEOREM ScriptsSound ==
  ASSUME NEW sc, IsScript(sc), LiteralsFit(sc), NEW tags, Len(tags) \in Nat, Compiles(sc, tags)
  PROVE  "failure" \notin Outcomes(sc, tags)
<1> DEFINE sy == Symbols(sc, tags)
           types == TypesIn(sc, sy)
           of == OutcomesIn(sc, sy)
<1>1. Typed(sy)
  BY SymbolsTyped DEF Compiles
<1> HIDE DEF sy
<1>2. ASSUME NEW i \in 1 .. Len(sc.exprs), types[i] # "error"
      PROVE  types[i] \in Types /\ of[i] \subseteq {KindOf[types[i]], "division by zero"}
  BY <1>1, <1>2, ExpressionsSound
<1> HIDE DEF types, of
<1>3. "failure" \in Faults /\ Faults = {"division by zero", "failure"}
  BY DEF Faults
<1>4. \A t \in Types : KindOf[t] \notin Faults
  BY Kind DEF Types, Faults
<1>5. ASSUME NEW st \in sc.stmts PROVE "failure" \notin Outcome(st, sy, of)
  <2>1. StatementOK(st, sy, types)
    BY DEF Compiles, sy, types
  <2>2. CASE st.op = "condition"
    <3>1. st.expr \in 1 .. Len(sc.exprs) /\ types[st.expr] = "BOOL"
      BY <2>1, <2>2 DEF StatementOK, IsScript
    <3>2. of[st.expr] \subseteq {"bool", "division by zero"}
      BY <1>2, <3>1, Kind
    <3>3. Outcome(st, sy, of) = (of[st.expr] \cap Faults) \cup
            (IF of[st.expr] \subseteq Faults \cup {"bool"} THEN {"done"} ELSE {"failure"})
      BY <2>2 DEF Outcome
    <3> QED
      BY <1>3, <3>2, <3>3
  <2>3. CASE st.op = "assign"
    <3> DEFINE d == sy[st.name].type
               t == types[st.expr]
    <3>1. st.expr \in 1 .. Len(sc.exprs) /\ d \in Types /\ Assignable(d, t)
      BY <1>1, <2>1, <2>3 DEF StatementOK, IsScript, Typed
    <3>2. t \in Types /\ of[st.expr] \subseteq {KindOf[t], "division by zero"}
      <4>1. t # "error"
        BY <3>1 DEF Assignable, Types
      <4> QED
        BY <1>2, <3>1, <4>1
    <3>3. Coerced(d, KindOf[t]) \subseteq {KindOf[d]}
      <4> HIDE DEF d, t
      <4> QED
        BY <3>1, <3>2, AssignmentSound
    <3>4. Outcome(st, sy, of) =
            LET coerced == UNION {Coerced(d, k) : k \in of[st.expr] \ Faults}
            IN  {"done"} \cup (of[st.expr] \cap Faults) \cup (coerced \cap Faults)
      BY <2>3 DEF Outcome
    <3>5. KindOf[d] # "failure" /\ KindOf[t] \notin Faults
      BY <1>3, <1>4, <3>1, <3>2
    <3> HIDE DEF d, t
    <3>6. "failure" \notin of[st.expr]
      BY <1>3, <3>2, <3>5
    <3>7. \A k \in of[st.expr] \ Faults : "failure" \notin Coerced(d, k)
      BY <1>3, <3>2, <3>3, <3>5
    <3> QED
      BY <3>4, <3>6, <3>7
  <2>4. CASE st.op = "edge"
    <3>1. Outcome(st, sy, of) = {"done"}
      BY <2>1, <2>4 DEF Outcome, StatementOK
    <3> QED
      BY <3>1
  <2>5. CASE st.op \notin {"condition", "assign", "edge"}
    <3>1. sy[st.name].type = "BOOL"
      BY <2>1, <2>5 DEF StatementOK
    <3>2. Outcome(st, sy, of) = {"done"} \cup (Coerced("BOOL", "bool") \cap Faults)
      BY <2>5, <3>1 DEF Outcome
    <3>3. Coerced("BOOL", "bool") = {"bool"}
      BY DEF Coerced
    <3> QED
      BY <1>3, <3>2, <3>3
  <2> QED
    BY <2>2, <2>3, <2>4, <2>5
<1>6. Outcomes(sc, tags) = UNION {Outcome(st, sy, of) : st \in sc.stmts}
  BY DEF Outcomes, sy, of
<1> QED
  BY <1>5, <1>6

----------------------------------------------------------------------------
(* Files: the schemas that commands load, change and save *)

LEMMA MaxIn ==
  ASSUME NEW n \in Nat, NEW S \in SUBSET (0 .. n), S # {}
  PROVE  Max(S) \in S /\ \A y \in S : Max(S) >= y
<1> DEFINE M == {n - y : y \in S}
<1>1. M \in SUBSET Nat /\ M # {}
  <2>1. \A y \in S : n - y \in Nat
    OBVIOUS
  <2> QED
    BY <2>1
<1>2. PICK m \in M : \A k \in M : m <= k
  <2> HIDE DEF M
  <2> QED
    BY <1>1, Least
<1>3. PICK x \in S : m = n - x
  BY <1>2
<1>4. \A y \in S : x >= y
  <2> SUFFICES ASSUME NEW y \in S PROVE x >= y
    OBVIOUS
  <2>1. n - x <= n - y
    BY <1>2, <1>3
  <2>2. x \in 0 .. n /\ y \in 0 .. n
    OBVIOUS
  <2> QED
    BY <2>1, <2>2
<1> QED
  BY <1>4 DEF Max

LEMMA Bounded ==
  ASSUME NEW n \in Nat, NEW f \in [1 .. n -> Nat]
  PROVE  \E b \in Nat : \A i \in 1 .. n : f[i] <= b
<1> DEFINE Bound(m) == \E b \in Nat : \A i \in 1 .. m : f[i] <= b
           T == {m \in 0 .. n : Bound(m)}
<1>1. Bound(0)
  OBVIOUS
<1>2. ASSUME NEW m \in 1 .. n, Bound(m - 1) PROVE Bound(m)
  <2>1. PICK b \in Nat : \A i \in 1 .. m - 1 : f[i] <= b
    BY <1>2
  <2> DEFINE c == IF f[m] <= b THEN b ELSE f[m]
  <2>2. c \in Nat /\ b <= c /\ f[m] <= c
    OBVIOUS
  <2> HIDE DEF c
  <2>3. ASSUME NEW i \in 1 .. m PROVE f[i] <= c
    <3>1. f[i] \in Nat /\ (i # m => i \in 1 .. m - 1)
      OBVIOUS
    <3> QED
      BY <2>1, <2>2, <3>1
  <2> QED
    BY <2>2, <2>3
<1>3. Bound(n)
  <2> HIDE DEF Bound
  <2>1. 0 \in T /\ \A m \in 1 .. n : m - 1 \in T => m \in T
    BY <1>1, <1>2
  <2> HIDE DEF T
  <2>2. \A m \in 0 .. n : m \in T
    BY <2>1, Climb
  <2> QED
    BY <2>2 DEF T
<1> QED
  BY <1>3

LEMMA KeptIsSeq ==
  ASSUME NEW S, NEW q \in Seq(S), NEW keep
  PROVE  Kept(q, keep) \in Seq(S)
<1> DEFINE N == Len(q)
           D == 0 .. N
           Step(k, i) == IF i = 0 THEN <<>> ELSE IF i \in keep THEN Append(k[i - 1], q[i]) ELSE k[i - 1]
           F == [g \in [D -> Seq(S)] |-> [i \in D |-> Step(g, i)]]
           kept == CHOOSE f : f = [i \in D |-> Step(f, i)]
<1>1. N \in Nat /\ \A i \in 1 .. N : q[i] \in S
  OBVIOUS
<1>2. Kept(q, keep) = kept[N]
  BY DEF Kept
<1>3. ASSUME NEW g, NEW i \in D, \A j \in 0 .. i - 1 : g[j] \in Seq(S)
      PROVE  Step(g, i) \in Seq(S)
  <2>1. CASE i = 0
    BY <2>1
  <2>2. CASE i # 0
    <3>1. i \in 1 .. N /\ i - 1 \in 0 .. i - 1
      BY <1>1, <2>2
    <3>2. g[i - 1] \in Seq(S) /\ q[i] \in S
      BY <1>1, <1>3, <3>1
    <3>3. Append(g[i - 1], q[i]) \in Seq(S)
      BY <3>2
    <3> QED
      BY <2>2, <3>2, <3>3
  <2> QED
    BY <2>1, <2>2
<1>4. PICK g : g = [i \in D |-> Step(g, i)]
  <2>1. \A g \in [D -> Seq(S)] : F[g] = [i \in D |-> Step(g, i)]
    OBVIOUS
  <2>2. Seq(S) # {} /\ D = 0 .. N
    BY EmptySeq
  <2>3. F \in [[D -> Seq(S)] -> [D -> Seq(S)]]
    <3> SUFFICES ASSUME NEW g \in [D -> Seq(S)], NEW i \in D PROVE Step(g, i) \in Seq(S)
      OBVIOUS
    <3> HIDE DEF Step
    <3>1. \A j \in 0 .. i - 1 : j \in D
      BY <1>1
    <3> QED
      BY <1>3, <3>1
  <2>4. ASSUME NEW g, NEW h, NEW i \in D, \A j \in 0 .. i - 1 : g[j] = h[j]
        PROVE  Step(g, i) = Step(h, i)
    <3>1. i # 0 => g[i - 1] = h[i - 1]
      BY <1>1, <2>4
    <3> QED
      BY <3>1
  <2> HIDE DEF F, Step, D
  <2>5. ASSUME NEW g \in [D -> Seq(S)], NEW h \in [D -> Seq(S)], NEW i \in D,
               \A j \in 0 .. i - 1 : g[j] = h[j]
        PROVE  F[g][i] = F[h][i]
    <3>1. Step(g, i) = Step(h, i)
      BY <2>4, <2>5
    <3>2. F[g][i] = Step(g, i) /\ F[h][i] = Step(h, i)
      BY <2>1
    <3> QED
      BY <3>1, <3>2
  <2>6. Causal(F, 0, N, Seq(S))
    BY <1>1, <2>2, <2>3, <2>5 DEF Causal
  <2>7. \E g \in [D -> Seq(S)] : F[g] = g
    BY <2>2, <2>6, Definable
  <2> QED
    BY <2>1, <2>7
<1> HIDE DEF Step
<1>5. kept = [i \in D |-> Step(kept, i)]
  BY <1>4
<1> HIDE DEF kept
<1> DEFINE T == {i \in D : kept[i] \in Seq(S)}
<1>6. \A i \in D : i \in T
  <2>1. ASSUME NEW i \in D, \A j \in 0 .. i - 1 : j \in T PROVE i \in T
    BY <1>3, <1>5, <2>1
  <2> HIDE DEF T
  <2> QED
    BY <1>1, <2>1, Inherited
<1> QED
  BY <1>1, <1>2, <1>6

LEMMA FunctionIsSeq ==
  ASSUME NEW S, NEW n \in Nat, NEW f \in [1 .. n -> S]
  PROVE  f \in Seq(S) /\ Len(f) = n
OBVIOUS

(* Tags with a data block in their address, as every file a command writes    *)
(* has them.                                                                  *)
FullTag == {t \in TagType : t.addr.db # Absent}
FullSchema == {s \in SchemaType : s.tags \in Seq(FullTag)}

LEMMA CanonicalType ==
  ASSUME NEW w \in Written, NEW db \in Nat \cup {Absent}, w.db # Absent \/ db # Absent
  PROVE  /\ Parsed(w, db) \in [db : Nat, area : Areas \cup {"Q", "?"}, byte : Nat, bit : Nat]
         /\ Canonical(Parsed(w, db)) \in Written
         /\ Canonical(Parsed(w, db)).db # Absent
<1> DEFINE p == Parsed(w, db)
<1>1. /\ p.db = (IF w.db = Absent THEN db ELSE w.db) /\ p.area = w.area /\ p.byte = w.byte
      /\ p.bit = (IF w.bit = Absent THEN 0 ELSE w.bit)
      /\ p = [db |-> p.db, area |-> p.area, byte |-> p.byte, bit |-> p.bit]
  BY DEF Parsed
<1>2. w.db \in Nat \cup {Absent} /\ w.area \in Areas \cup {"Q", "?"} /\ w.byte \in Nat /\ w.bit \in Nat \cup {Absent}
  BY DEF Written, Optional
<1>3. p.db \in Nat /\ p.area \in Areas \cup {"Q", "?"} /\ p.byte \in Nat /\ p.bit \in Nat
  BY <1>1, <1>2 DEF Absent
<1>4. p \in [db : Nat, area : Areas \cup {"Q", "?"}, byte : Nat, bit : Nat]
  BY <1>1, <1>3
<1> HIDE DEF p
<1>5. Canonical(p) = [db |-> p.db, area |-> Canonical(p).area, byte |-> p.byte, bit |-> Canonical(p).bit]
  BY DEF Canonical
<1>6. Canonical(p).area \in Areas \cup {"Q", "?"} /\ Canonical(p).bit \in Optional
  BY <1>3 DEF Canonical, Areas, FullAreas, Optional
<1>7. Canonical(p) \in Written /\ Canonical(p).db = p.db
  BY <1>3, <1>5, <1>6 DEF Written, Optional
<1>8. p.db # Absent
  BY <1>3 DEF Absent
<1> QED
  BY <1>4, <1>7, <1>8 DEF p

LEMMA NormalType ==
  ASSUME NEW s \in SchemaType
  PROVE  Normal(s) \in FullSchema
<1>1. s.db \in Nat /\ s.db # Absent
  BY DEF SchemaType, Absent
<1>2. ASSUME NEW t \in TagType PROVE NormalTag(t, s.db) \in FullTag
  <2> DEFINE a == Canonical(Parsed(t.addr, s.db))
             n == NormalTag(t, s.db)
  <2>1. t.addr \in Written
    BY DEF TagType
  <2>2. a \in Written /\ a.db # Absent
    BY <1>1, <2>1, CanonicalType
  <2>3. n = [t EXCEPT !.addr = a, !.role = n.role, !.heartbeat = n.heartbeat]
    BY DEF NormalTag, TagType
  <2>4. n.role \in Strings /\ n.heartbeat \in Strings
    <3>1. t.role \in Strings /\ t.heartbeat \in Strings
      BY DEF TagType
    <3>2. n.role \in {t.role, "heartbeat"} /\ n.heartbeat \in {t.heartbeat, "fine"}
      BY DEF NormalTag, TagType
    <3> HIDE DEF n
    <3> QED
      BY <3>1, <3>2 DEF Strings
  <2> HIDE DEF a, n
  <2>5. n \in TagType /\ n.addr = a
    BY <2>2, <2>3, <2>4 DEF TagType
  <2> QED
    BY <2>2, <2>5 DEF n, FullTag
<1>3. s.tags \in Seq(TagType) /\ Len(s.tags) \in Nat /\ \A i \in 1 .. Len(s.tags) : s.tags[i] \in TagType
  BY DEF SchemaType
<1> DEFINE tags == [i \in 1 .. Len(s.tags) |-> NormalTag(s.tags[i], s.db)]
<1>4. tags \in [1 .. Len(s.tags) -> FullTag] /\ tags \in [1 .. Len(s.tags) -> TagType]
  <2>1. \A i \in 1 .. Len(s.tags) : NormalTag(s.tags[i], s.db) \in FullTag
    BY <1>2, <1>3
  <2>2. FullTag \subseteq TagType
    BY DEF FullTag
  <2> QED
    BY <2>1, <2>2
<1>5. tags \in Seq(FullTag) /\ tags \in Seq(TagType)
  <2> HIDE DEF tags
  <2> QED
    BY <1>3, <1>4, FunctionIsSeq
<1> HIDE DEF tags
<1>6. Normal(s) = [s EXCEPT !.tags = tags]
  BY DEF Normal, tags
<1> QED
  BY <1>5, <1>6 DEF SchemaType, FullSchema

LEMMA LoadType ==
  ASSUME NEW f, f.schema \in SchemaType, NEW db \in Nat \cup {Absent}
  PROVE  LoadRaw(f, db) \in SchemaType /\ Load(f, db) \in FullSchema
<1>1. WithDB(f.schema, db) \in SchemaType
  BY DEF WithDB, SchemaType, Absent
<1>2. LoadRaw(f, db) \in SchemaType
  BY <1>1 DEF LoadRaw, SchemaType, AutoSize
<1> QED
  BY <1>2, NormalType DEF Load

LEMMA OverlaidIsSeq ==
  ASSUME NEW S, NEW tags \in Seq(S), NEW new \in Seq(S)
  PROVE  Overlaid(tags, new) \in Seq(S)
<1> DEFINE over == [i \in 1 .. Len(tags) |->
                      LET same == {j \in 1 .. Len(new) : new[j].addr = tags[i].addr}
                      IN  IF same = {} \/ \E k \in i + 1 .. Len(tags) : tags[k].addr = tags[i].addr
                            THEN tags[i] ELSE new[Max(same)]]
           rest == Kept(new, {j \in 1 .. Len(new) : ~Taken(tags, new[j])})
<1>1. Overlaid(tags, new) = over \o rest
  BY DEF Overlaid
<1>2. rest \in Seq(S)
  BY KeptIsSeq
<1>3. Len(tags) \in Nat /\ Len(new) \in Nat
  OBVIOUS
<1>4. over \in [1 .. Len(tags) -> S]
  <2>1. ASSUME NEW i \in 1 .. Len(tags) PROVE over[i] \in S
    <3> DEFINE same == {j \in 1 .. Len(new) : new[j].addr = tags[i].addr}
    <3>1. over[i] \in {tags[i], new[Max(same)]} /\ (same = {} => over[i] = tags[i])
      OBVIOUS
    <3>2. same \in SUBSET (0 .. Len(new)) /\ same \subseteq 1 .. Len(new)
      OBVIOUS
    <3> HIDE DEF same, over
    <3>3. CASE same = {}
      BY <3>1, <3>3
    <3>4. CASE same # {}
      <4>1. Max(same) \in 1 .. Len(new)
        BY <1>3, <3>2, <3>4, MaxIn
      <4> QED
        BY <3>1, <4>1
    <3> QED
      BY <3>3, <3>4
  <2> QED
    BY <2>1
<1>5. over \in Seq(S)
  <2> HIDE DEF over
  <2> QED
    BY <1>3, <1>4, FunctionIsSeq
<1> HIDE DEF over, rest
<1> QED
  BY <1>1, <1>2, <1>5, ConcatProperties

LEMMA InFileFacts ==
  ASSUME NEW v \in ValueType
  PROVE  InFile(v) \in ValueType
<1>1. Number(0) \in ValueType
  <2> DEFINE n == Number(0)
  <2>1. n = [kind |-> "number", num |-> 0, text |-> <<>>]
    BY DEF Number, Value
  <2>2. <<>> \in Seq(0 .. 255) /\ n.kind = "number"
    BY <2>1, EmptySeq
  <2> HIDE DEF n
  <2>3. n \in [kind : {"nil", "number", "bool", "text", "float", "wide"}, num : Int,
               text : Seq(0 .. 255)]
    BY <2>1, <2>2
  <2> QED
    BY <2>2, <2>3 DEF n, ValueType
<1> QED
  BY <1>1 DEF InFile

LEMMA StoredFacts ==
  ASSUME NEW s \in FullSchema
  PROVE  /\ Stored(s) \in FullSchema
         /\ Stored(s).db = s.db /\ Stored(s).endian = s.endian /\ Stored(s).size = s.size
         /\ Len(Stored(s).tags) = Len(s.tags)
         /\ \A i \in 1 .. Len(s.tags) :
              Stored(s).tags[i] = [s.tags[i] EXCEPT !.init = InFile(s.tags[i].init)]
<1> DEFINE tags == [i \in 1 .. Len(s.tags) |-> [s.tags[i] EXCEPT !.init = InFile(s.tags[i].init)]]
<1>1. s \in SchemaType /\ s.tags \in Seq(FullTag) /\ Len(s.tags) \in Nat
  BY DEF FullSchema
<1>2. ASSUME NEW t \in FullTag PROVE [t EXCEPT !.init = InFile(t.init)] \in FullTag
  <2>1. t \in TagType /\ t.addr.db # Absent /\ t.init \in ValueType
    BY DEF FullTag, TagType
  <2>2. InFile(t.init) \in ValueType
    BY <2>1, InFileFacts
  <2>3. [t EXCEPT !.init = InFile(t.init)] \in TagType
    BY <2>1, <2>2 DEF TagType
  <2>4. [t EXCEPT !.init = InFile(t.init)].addr = t.addr
    BY <2>1 DEF TagType
  <2> QED
    BY <2>1, <2>3, <2>4 DEF FullTag
<1>3. \A i \in 1 .. Len(s.tags) : s.tags[i] \in FullTag
  BY <1>1
<1>4. tags \in [1 .. Len(s.tags) -> FullTag]
  BY <1>2, <1>3
<1>5. \A i \in 1 .. Len(s.tags) : tags[i] = [s.tags[i] EXCEPT !.init = InFile(s.tags[i].init)]
  OBVIOUS
<1>6. Stored(s) = [s EXCEPT !.tags = tags]
  BY DEF Stored
<1> HIDE DEF tags
<1>7. tags \in Seq(FullTag) /\ Len(tags) = Len(s.tags)
  BY <1>1, <1>4, FunctionIsSeq
<1>8. tags \in Seq(TagType)
  BY <1>7 DEF FullTag
<1>9. /\ Stored(s).tags = tags /\ Stored(s).db = s.db /\ Stored(s).endian = s.endian
      /\ Stored(s).size = s.size /\ Stored(s) \in SchemaType
  BY <1>1, <1>6, <1>8 DEF SchemaType
<1> QED
  BY <1>5, <1>7, <1>9 DEF FullSchema

(* A schema with full addresses that Save does not refuse is loaded again by *)
(* every command, whatever its --db: the two normalisations, before and in   *)
(* Save, leave nothing that the third would refuse (schema.go:216).          *)
THEOREM SavedFileLoads ==
  ASSUME NEW s \in SchemaType, Saves(s), \A t \in TagsOf(s) : t.addr.db # Absent
  PROVE  \A db : Loads([there |-> TRUE, schema |-> Stored(Normal(s))], db)
<1> SUFFICES ASSUME NEW db
             PROVE  Normalizes(LoadRaw([there |-> TRUE, schema |-> Stored(Normal(s))], db))
  BY DEF Loads
<1> DEFINE written == Stored(Normal(s))
           raw == LoadRaw([there |-> TRUE, schema |-> written], db)
<1>0. /\ Normal(s) \in FullSchema /\ written \in SchemaType
      /\ Len(written.tags) = Len(Normal(s).tags)
      /\ \A i \in 1 .. Len(Normal(s).tags) :
           /\ Normal(s).tags[i] \in TagType
           /\ written.tags[i] = [Normal(s).tags[i] EXCEPT !.init = InFile(Normal(s).tags[i].init)]
  <2>1. Normal(s) \in FullSchema
    BY NormalType
  <2>2. \A i \in 1 .. Len(Normal(s).tags) : Normal(s).tags[i] \in TagType
    BY <2>1 DEF FullSchema, SchemaType
  <2>3. \A x \in FullSchema : x \in SchemaType
    BY DEF FullSchema
  <2> QED
    BY <2>1, <2>2, <2>3, StoredFacts
<1> HIDE DEF written
<1>1. raw.tags = written.tags
  BY <1>0 DEF LoadRaw, WithDB, SchemaType
<1>2. ASSUME NEW i \in 1 .. Len(s.tags)
      PROVE  \A other : Parses(written.tags[i].addr, other)
  <2>1. s.tags[i] \in TagsOf(s) /\ s.tags[i] \in TagType BY DEF TagsOf, SchemaType
  <2>2. s.tags[i].addr \in Written /\ s.tags[i].addr.db # Absent /\ Parses(s.tags[i].addr, s.db)
    BY <2>1 DEF TagType, Saves, Normalizes
  <2>3. Normal(s).tags[i].addr = Canonical(Parsed(s.tags[i].addr, s.db)) /\ i \in 1 .. Len(Normal(s).tags)
    BY NormalTags
  <2>4. written.tags[i].addr = Normal(s).tags[i].addr
    BY <1>0, <2>3 DEF TagType
  <2>5. QED BY <2>2, <2>3, <2>4, CanonicalStays
<1>3. Len(raw.tags) = Len(s.tags) BY <1>0, <1>1, NormalTags
<1>4. \A t \in TagsOf(raw) : \E i \in 1 .. Len(s.tags) : t = written.tags[i]
  BY <1>1, <1>3 DEF TagsOf
<1>5. QED BY <1>2, <1>4 DEF Normalizes, written

(* Saving: what Save makes of a file, and that it loads again.                *)
FileInv ==
  /\ file \in [there : BOOLEAN, schema : SchemaType]
  /\ byCommand \in BOOLEAN
  /\ SavedLoads

LEMMA EmptyType == EmptySchema \in FullSchema /\ EmptyFile \in [there : BOOLEAN, schema : SchemaType]
<1>1. <<>> \in Seq(FullTag) /\ <<>> \in Seq(TagType)
  BY EmptySeq
<1>2. EmptySchema = [db |-> 0, endian |-> "big", size |-> 0, tags |-> <<>>]
  BY DEF EmptySchema
<1>3. EmptySchema \in SchemaType
  <2>1. 0 \in Nat /\ "big" \in Strings
    BY DEF Strings
  <2> QED
    BY <1>1, <1>2, <2>1 DEF SchemaType
<1>4. EmptySchema \in FullSchema
  BY <1>1, <1>2, <1>3 DEF FullSchema
<1> QED
  BY <1>3, <1>4 DEF EmptyFile

LEMMA SaveKeeps ==
  ASSUME NEW s \in FullSchema, Save(s)
  PROVE  FileInv' /\ image' = image
<1>1. s \in SchemaType /\ Saves(s) /\ byCommand' = TRUE
  BY DEF Save, FullSchema
<1>2. \A t \in TagsOf(s) : t.addr.db # Absent
  <2>1. s.tags \in Seq(FullTag)
    BY DEF FullSchema
  <2>2. \A i \in 1 .. Len(s.tags) : s.tags[i] \in FullTag
    BY <2>1
  <2> QED
    BY <2>2 DEF TagsOf, FullTag
<1>3. CASE file' = EmptyFile
  <2>1. \A db : Loads(EmptyFile, db)
    <3> SUFFICES ASSUME NEW db PROVE TagsOf(LoadRaw(EmptyFile, db)) = {}
      BY DEF Loads, Normalizes, EmptyFile
    <3>1. LoadRaw(EmptyFile, db).tags = <<>>
      BY DEF LoadRaw, WithDB, EmptyFile, EmptySchema
    <3> QED
      BY <3>1 DEF TagsOf
  <2> QED
    BY <1>1, <1>3, <2>1, EmptyType DEF FileInv, SavedLoads, Save
<1>4. CASE file' = [there |-> TRUE, schema |-> Stored(Normal(s))]
  <2>1. \A db : Loads([there |-> TRUE, schema |-> Stored(Normal(s))], db)
    BY <1>1, <1>2, SavedFileLoads
  <2>2. Stored(Normal(s)) \in SchemaType
    BY <1>1, NormalType, StoredFacts DEF FullSchema
  <2>3. file' \in [there : BOOLEAN, schema : SchemaType]
    BY <1>4, <2>2
  <2>4. \A db : Loads(file', db)
    BY <1>4, <2>1
  <2>5. byCommand' \in BOOLEAN /\ image' = image
    BY DEF Save
  <2>6. SavedLoads'
    BY <2>4 DEF SavedLoads
  <2> QED
    BY <2>3, <2>5, <2>6 DEF FileInv
<1> QED
  BY <1>3, <1>4 DEF Save

LEMMA FullFields ==
  ASSUME NEW s \in FullSchema
  PROVE  /\ s \in SchemaType /\ s.tags \in Seq(FullTag) /\ s.db \in Nat /\ s.endian \in Strings
         /\ s.size \in Nat \cup {AutoSize}
         /\ \A n \in Nat \cup {AutoSize} : [s EXCEPT !.size = n] \in FullSchema
         /\ \A q \in Seq(FullTag) : [s EXCEPT !.tags = q] \in FullSchema
<1>1. s \in SchemaType /\ s.tags \in Seq(FullTag)
  BY DEF FullSchema
<1>2. s.db \in Nat /\ s.endian \in Strings /\ s.size \in Nat \cup {AutoSize}
  BY <1>1 DEF SchemaType
<1>3. \A n \in Nat \cup {AutoSize} : [s EXCEPT !.size = n] \in FullSchema
  BY <1>1 DEF FullSchema, SchemaType
<1>4. \A q \in Seq(FullTag) : q \in Seq(TagType)
  BY DEF FullTag
<1>5. \A q \in Seq(FullTag) : [s EXCEPT !.tags = q] \in FullSchema
  BY <1>1, <1>4 DEF FullSchema, SchemaType
<1> QED
  BY <1>1, <1>2, <1>3, <1>5

LEMMA DBIsOptional == \A db \in DBFlags : db \in Nat \cup {Absent}
BY OptionsAssumption

LEMMA InitLikeKeeps ==
  ASSUME FileInv, NEW isReset \in BOOLEAN, NEW force, NEW merge \in BOOLEAN, NEW strict \in BOOLEAN,
         NEW size \in Sizes, NEW from \in {<<>>} \cup {<<s>> : s \in Externals}, NEW db \in DBFlags,
         InitLike(isReset, force, from, merge, size, strict, db)
  PROVE  FileInv' /\ image' = image
<1> DEFINE made == IF from = <<>> THEN [EmptySchema EXCEPT !.db = db, !.size = AutoSize]
                  ELSE Load([there |-> TRUE, schema |-> from[1]], db)
           inFile == merge /\ file.there /\ ~isReset
           base == IF inFile THEN Load(file, db) ELSE made
           merged == IF merge THEN Merged(base, made) ELSE made
<1>1. db \in Nat \cup {Absent} /\ size \in Nat \cup {AutoSize}
  BY OptionsAssumption
<1>2. made \in FullSchema
  <2>1. CASE from = <<>>
    <3>1. db \in Nat
      BY <1>1, <2>1 DEF InitLike
    <3>2. made = [db |-> db, endian |-> "big", size |-> AutoSize, tags |-> <<>>]
      BY <2>1 DEF EmptySchema
    <3>3. made = [[EmptySchema EXCEPT !.size = AutoSize] EXCEPT !.db = db]
      BY <2>1 DEF EmptySchema
    <3>4. <<>> \in Seq(FullTag) /\ <<>> \in Seq(TagType) /\ "big" \in Strings
      BY EmptySeq DEF Strings
    <3>5. AutoSize \in Nat \cup {AutoSize}
      OBVIOUS
    <3> HIDE DEF made
    <3>6. made \in SchemaType
      BY <3>1, <3>2, <3>4, <3>5 DEF SchemaType
    <3>7. made.tags = <<>>
      BY <3>2
    <3> QED
      BY <3>4, <3>6, <3>7 DEF FullSchema
  <2>2. CASE from # <<>>
    <3>1. PICK e \in Externals : from = <<e>>
      BY <2>2
    <3>2. e \in SchemaType
      BY FilesAssumption
    <3>3. from[1] = e /\ [there |-> TRUE, schema |-> from[1]].schema = e
      BY <3>1
    <3>4. Load([there |-> TRUE, schema |-> from[1]], db) \in FullSchema
      BY <1>1, <3>2, <3>3, LoadType
    <3> QED
      BY <2>2, <3>4
  <2> QED
    BY <2>1, <2>2
<1> HIDE DEF made
<1>3. base \in FullSchema
  <2>1. Load(file, db) \in FullSchema
    BY <1>1, LoadType DEF FileInv
  <2> QED
    BY <1>2, <2>1
<1> HIDE DEF base
<1>4. merged \in FullSchema
  <2>1. Overlaid(base.tags, made.tags) \in Seq(FullTag)
    BY <1>2, <1>3, FullFields, OverlaidIsSeq
  <2>2. \A q \in Seq(FullTag) : q \in Seq(TagType)
    BY DEF FullTag
  <2>3. Merged(base, made) = [db |-> IF made.db # 0 THEN made.db ELSE base.db, endian |-> made.endian,
                             size |-> made.size, tags |-> Overlaid(base.tags, made.tags)]
    BY DEF Merged
  <2>4. Merged(base, made) \in SchemaType
    BY <1>2, <1>3, <2>1, <2>2, <2>3, FullFields DEF SchemaType
  <2>5. Merged(base, made) \in FullSchema
    BY <2>1, <2>3, <2>4 DEF FullSchema
  <2> QED
    BY <1>2, <2>5
<1> HIDE DEF merged
<1>5. [Normal(merged) EXCEPT !.size = size] \in FullSchema
  BY <1>1, <1>4, NormalType, FullFields
<1>6. Save([Normal(merged) EXCEPT !.size = size])
  BY DEF InitLike, merged, base, made
<1> QED
  BY <1>5, <1>6, SaveKeeps

LEMMA PlainTagType ==
  ASSUME NEW a \in Written, a.db # Absent, NEW type \in TypeName, NEW name \in Strings,
         NEW init \in ValueType
  PROVE  PlainTag(a, type, name, init) \in FullTag
<1>1. "" \in Strings /\ "none" \in Strings
  BY DEF Strings
<1> DEFINE t == PlainTag(a, type, name, init)
<1>2. t = [addr |-> a, type |-> type, name |-> name, init |-> init,
           role |-> "", heartbeat |-> "none", ui |-> "none"]
  BY DEF PlainTag
<1> HIDE DEF t
<1>3. t \in TagType
  BY <1>1, <1>2 DEF TagType
<1>4. t.addr = a
  BY <1>2
<1> QED
  BY <1>3, <1>4 DEF FullTag, t

LEMMA AddKeeps ==
  ASSUME FileInv, NEW tags \in Additions, NEW force, NEW db \in DBFlags, Add(tags, force, db)
  PROVE  FileInv' /\ image' = image
<1> DEFINE s == Load(file, db)
           d == DBForArgs(s, db)
           new == TagsAdded(tags, d)
<1>1. db \in Nat \cup {Absent} /\ tags \in Seq(TagType)
  BY OptionsAssumption
<1>2. s \in FullSchema
  BY <1>1, LoadType DEF FileInv
<1>3. \A i \in 1 .. Len(tags) : Parses(tags[i].addr, d)
  BY DEF Add
<1> HIDE DEF s
<1>4. d \in Nat \cup {Absent}
  BY <1>1, <1>2, FullFields DEF DBForArgs
<1> HIDE DEF d
<1>5. ASSUME NEW i \in 1 .. Len(tags)
      PROVE  PlainTag(Canonical(Parsed(tags[i].addr, d)), tags[i].type, tags[i].name, tags[i].init)
               \in FullTag
  <2> DEFINE a == Canonical(Parsed(tags[i].addr, d))
             t == tags[i]
  <2>1. t \in TagType
    BY <1>1
  <2>2. a \in Written /\ a.db # Absent
    <3>1. t.addr \in Written
      BY <2>1 DEF TagType
    <3>2. t.addr.db # Absent \/ d # Absent
      BY <1>3 DEF Parses
    <3> QED
      BY <1>4, <3>1, <3>2, CanonicalType
  <2>3. t.type \in TypeName /\ t.name \in Strings /\ t.init \in ValueType
    BY <2>1 DEF TagType
  <2>4. "" \in Strings /\ "none" \in Strings
    BY DEF Strings
  <2> HIDE DEF a, t
  <2>5. PlainTag(a, t.type, t.name, t.init) \in FullTag
    BY <2>2, <2>3, <2>4, PlainTagType
  <2> QED
    BY <2>5 DEF a, t
<1>6. new \in Seq(FullTag)
  <2>1. Len(tags) \in Nat
    BY <1>1
  <2>2. new \in [1 .. Len(tags) -> FullTag]
    BY <1>5 DEF TagsAdded
  <2> HIDE DEF new
  <2> QED
    BY <2>1, <2>2, FunctionIsSeq
<1> HIDE DEF new
<1>7. Overlaid(s.tags, new) \in Seq(FullTag)
  BY <1>2, <1>6, FullFields, OverlaidIsSeq
<1>8. [s EXCEPT !.tags = Overlaid(s.tags, new)] \in FullSchema
  BY <1>2, <1>7, FullFields
<1>9. Save([s EXCEPT !.tags = Overlaid(s.tags, new)])
  BY DEF Add, s, new, d
<1> QED
  BY <1>8, <1>9, SaveKeeps

LEMMA SetKeeps ==
  ASSUME FileInv, NEW key, NEW change \in Changes, NEW force, NEW db \in DBFlags,
         Set(key, change, force, db)
  PROVE  FileInv' /\ image' = image
<1> DEFINE s == Load(file, db)
           i == FindTag(s, key, db)
           changed(t) == Edited(t, change)
           changes == [s EXCEPT !.tags[i] = Edited(@, change)]
<1>1. db \in Nat \cup {Absent}
  BY OptionsAssumption
<1>2. s \in FullSchema
  BY <1>1, LoadType DEF FileInv
<1>3. change.name \in Strings /\ change.init \in ValueType /\ change.type \in TypeName
  BY OptionsAssumption
<1>4. Save(changes)
  BY DEF Set
<1> HIDE DEF s, i
<1>10. changes = [s EXCEPT !.tags = [s.tags EXCEPT ![i] = changed(s.tags[i])]]
  OBVIOUS
<1> HIDE DEF changes
<1>5. ASSUME NEW t \in FullTag PROVE changed(t) \in FullTag
  <2>1. t \in TagType
    BY DEF FullTag
  <2> DEFINE n == IF change.name = "" THEN t.name ELSE change.name
             x == IF change.init = Nil THEN t.init ELSE change.init
             y == IF change.type = NoType THEN t.type ELSE change.type
  <2>2. n \in Strings /\ x \in ValueType /\ y \in TypeName
    BY <1>3, <2>1 DEF TagType
  <2> HIDE DEF n, x, y
  <2>5. changed(t) = [t EXCEPT !.name = n, !.init = x, !.type = y]
    BY DEF n, x, y, Edited
  <2>3. [t EXCEPT !.name = n, !.init = x, !.type = y] \in TagType
    BY <2>1, <2>2 DEF TagType
  <2>4. [t EXCEPT !.name = n, !.init = x, !.type = y].addr = t.addr
    BY <2>1 DEF TagType
  <2> QED
    BY <2>3, <2>4, <2>5 DEF FullTag
<1> HIDE DEF changed
<1>6. s.tags \in Seq(FullTag)
  BY <1>2, FullFields
<1>7. [s.tags EXCEPT ![i] = changed(s.tags[i])] \in Seq(FullTag)
  <2> DEFINE q == [s.tags EXCEPT ![i] = changed(s.tags[i])]
  <2>1. Len(s.tags) \in Nat /\ \A j \in 1 .. Len(s.tags) : s.tags[j] \in FullTag
    BY <1>6
  <2>3. q = [j \in 1 .. Len(s.tags) |-> IF j = i THEN changed(s.tags[i]) ELSE s.tags[j]]
    BY <1>6
  <2>4. \A j \in 1 .. Len(s.tags) : (IF j = i THEN changed(s.tags[i]) ELSE s.tags[j]) \in FullTag
    BY <1>5, <2>1
  <2>2. q \in [1 .. Len(s.tags) -> FullTag]
    BY <2>3, <2>4
  <2> HIDE DEF q
  <2> QED
    BY <2>1, <2>2, FunctionIsSeq DEF q
<1>9. changes \in FullSchema
  BY <1>2, <1>7, <1>10, FullFields
<1> QED
  BY <1>4, <1>9, SaveKeeps

LEMMA RemoveKeeps ==
  ASSUME FileInv, NEW keys, NEW strict, NEW db \in DBFlags, Remove(keys, strict, db)
  PROVE  FileInv' /\ image' = image
<1> DEFINE s == Load(file, db)
           keep == Kept(s.tags, {i \in 1 .. Len(s.tags) : \A key \in keys : ~Matches(s.tags[i], key, db)})
<1>1. s \in FullSchema
  BY OptionsAssumption, LoadType DEF FileInv
<1>2. Save([s EXCEPT !.tags = keep])
  BY DEF Remove
<1>3. keep \in Seq(FullTag)
  BY <1>1, FullFields, KeptIsSeq
<1> HIDE DEF s, keep
<1>4. [s EXCEPT !.tags = keep] \in FullSchema
  BY <1>1, <1>3, FullFields
<1> QED
  BY <1>2, <1>4, SaveKeeps

----------------------------------------------------------------------------
(* Bytes: what recursion over digits, numbers and bytes makes *)

Stepwise(G, N, S, b) == N \in Nat /\ b \in S /\ G \in [(1 .. N) \X S -> S]

LEMMA Iterates ==
  ASSUME NEW G, NEW N, NEW S, NEW b, Stepwise(G, N, S, b)
  PROVE  \E f \in [0 .. N -> S] : f[0] = b /\ \A i \in 1 .. N : f[i] = G[<<i, f[i - 1]>>]
<1> USE DEF Stepwise
<1> DEFINE Walks(f, m) == f[0] = b /\ \A i \in 1 .. m : f[i] = G[<<i, f[i - 1]>>]
           Walked(m) == \E f \in [0 .. m -> S] : Walks(f, m)
           T == {m \in 0 .. N : Walked(m)}
<1>1. Walked(0)
  <2>1. [i \in 0 .. 0 |-> b] \in [0 .. 0 -> S] /\ 0 \in 0 .. 0 /\ \A i \in 1 .. 0 : FALSE
    OBVIOUS
  <2>2. Walks([i \in 0 .. 0 |-> b], 0)
    BY <2>1
  <2> QED
    BY <2>1, <2>2
<1>2. ASSUME NEW m \in 1 .. N, Walked(m - 1) PROVE Walked(m)
  <2>1. PICK f \in [0 .. m - 1 -> S] : Walks(f, m - 1)
    BY <1>2
  <2> DEFINE h == [i \in 0 .. m |-> IF i = m THEN G[<<m, f[m - 1]>>] ELSE f[i]]
  <2>2. m - 1 \in 0 .. m - 1 /\ \A i \in 0 .. m : i # m => i \in 0 .. m - 1
    OBVIOUS
  <2>3. G[<<m, f[m - 1]>>] \in S
    BY <2>2
  <2>4. h \in [0 .. m -> S]
    BY <2>2, <2>3
  <2>5. h[m] = G[<<m, f[m - 1]>>] /\ \A i \in 0 .. m - 1 : h[i] = f[i]
    OBVIOUS
  <2> HIDE DEF h
  <2>6. h[0] = b
    <3>1. 0 \in 0 .. m - 1
      OBVIOUS
    <3> QED
      BY <2>1, <2>5, <3>1
  <2>7. ASSUME NEW i \in 1 .. m PROVE h[i] = G[<<i, h[i - 1]>>]
    <3>1. i - 1 \in 0 .. m - 1
      OBVIOUS
    <3>2. CASE i = m
      BY <2>5, <3>1, <3>2
    <3>3. CASE i # m
      <4>1. i \in 1 .. m - 1 /\ i \in 0 .. m - 1
        BY <3>3
      <4> QED
        BY <2>1, <2>5, <3>1, <4>1
    <3> QED
      BY <3>2, <3>3
  <2> QED
    BY <2>4, <2>6, <2>7
<1>3. Walked(N)
  <2> HIDE DEF Walked
  <2>1. 0 \in T /\ \A m \in 1 .. N : m - 1 \in T => m \in T
    <3>1. 0 \in 0 .. N /\ \A m \in 1 .. N : m \in 0 .. N
      OBVIOUS
    <3> QED
      BY <1>1, <1>2, <3>1
  <2> HIDE DEF T
  <2>2. \A m \in 0 .. N : m \in T
    BY <2>1, Climb
  <2> QED
    BY <2>2 DEF T
<1> QED
  BY <1>3

LEMMA MinIn ==
  ASSUME NEW S \in SUBSET Nat, S # {}
  PROVE  Min(S) \in S /\ \A y \in S : Min(S) <= y
BY Least DEF Min

LEMMA SmallValues ==
  /\ Nil \in ValueType
  /\ \A b \in BOOLEAN : Bool(b) \in ValueType
  /\ \A n \in Int : Number(n) \in ValueType
  /\ \A x \in Seq(0 .. 255) : Text(x) \in ValueType
  /\ \A x \in [1 .. 4 -> 0 .. 255], k \in {"float", "wide"} : Value(k, 0, x) \in ValueType
<1>1. ASSUME NEW k \in {"nil", "number", "bool", "text", "float", "wide"}, NEW n \in Int,
             NEW x \in Seq(0 .. 255), k \in {"float", "wide"} => x \in [1 .. 4 -> 0 .. 255]
      PROVE  Value(k, n, x) \in ValueType
  <2> DEFINE v == Value(k, n, x)
  <2>1. v = [kind |-> k, num |-> n, text |-> x]
    BY DEF Value
  <2> HIDE DEF v
  <2>2. v \in [kind : {"nil", "number", "bool", "text", "float", "wide"}, num : Int,
               text : Seq(0 .. 255)]
    BY <2>1
  <2>3. v.kind = k /\ v.text = x
    BY <2>1
  <2> QED
    BY <1>1, <2>2, <2>3 DEF v, ValueType
<1>2. <<>> \in Seq(0 .. 255)
  BY EmptySeq
<1>3. \A x \in [1 .. 4 -> 0 .. 255] : x \in Seq(0 .. 255)
  BY FunctionIsSeq
<1>0. 0 \in Int /\ 1 \in Int
  OBVIOUS
<1>4. Nil \in ValueType
  BY <1>0, <1>1, <1>2 DEF Nil
<1>5. \A b \in BOOLEAN : Bool(b) \in ValueType
  BY <1>0, <1>1, <1>2 DEF Bool
<1>6. \A n \in Int : Number(n) \in ValueType
  BY <1>1, <1>2 DEF Number
<1>7. \A x \in Seq(0 .. 255) : Text(x) \in ValueType
  BY <1>1 DEF Text
<1>8. \A x \in [1 .. 4 -> 0 .. 255], k \in {"float", "wide"} : Value(k, 0, x) \in ValueType
  BY <1>1, <1>3
<1> QED
  BY <1>4, <1>5, <1>6, <1>7, <1>8

LEMMA OrderedType ==
  ASSUME NEW S, NEW x \in Seq(S), NEW endian
  PROVE  Ordered(x, endian) \in Seq(S) /\ Len(Ordered(x, endian)) = Len(x)
<1>1. Len(x) \in Nat /\ \A i \in 1 .. Len(x) : x[i] \in S /\ Len(x) + 1 - i \in 1 .. Len(x)
  OBVIOUS
<1>2. Reversed(x) \in [1 .. Len(x) -> S]
  BY <1>1 DEF Reversed
<1>3. Reversed(x) \in Seq(S) /\ Len(Reversed(x)) = Len(x)
  BY <1>1, <1>2, FunctionIsSeq
<1> QED
  BY <1>3 DEF Ordered

LEMMA FourBytes ==
  ASSUME NEW x \in Seq(0 .. 255), Len(x) = 4
  PROVE  x \in [1 .. 4 -> 0 .. 255]
BY LenProperties

(* NumberOf, step by step.                                                    *)
NumberBy(x, signed, n) ==
  /\ n \in [0 .. Len(x) -> Int]
  /\ n[0] = IF signed /\ x[1] > 127 THEN -1 ELSE 0
  /\ \A i \in 1 .. Len(x) : n[i] = 256 * n[i - 1] + x[i]
  /\ NumberOf(x, signed) =
       IF Len(x) = 4 /\ x[1] > 127 /\ ~signed THEN Value("wide", 0, x) ELSE Number(n[Len(x)])

LEMMA NumberSteps ==
  ASSUME NEW x \in Seq(0 .. 255), NEW signed \in BOOLEAN
  PROVE  \E n : NumberBy(x, signed, n)
<1> DEFINE N == Len(x)
           b == IF signed /\ x[1] > 127 THEN -1 ELSE 0
           Step(n, i) == IF i = 0 THEN b ELSE 256 * n[i - 1] + x[i]
           n == CHOOSE f : f = [i \in 0 .. N |-> Step(f, i)]
           G == [p \in (1 .. N) \X Int |-> 256 * p[2] + x[p[1]]]
<1>1. N \in Nat /\ \A i \in 1 .. N : x[i] \in Int
  <2>1. \A i \in 1 .. Len(x) : x[i] \in 0 .. 255
    BY ElementOfSeq
  <2>2. 0 .. 255 \subseteq Int
    OBVIOUS
  <2> QED
    BY <2>1, <2>2, LenProperties
<1>2. NumberOf(x, signed) =
        IF N = 4 /\ x[1] > 127 /\ ~signed THEN Value("wide", 0, x) ELSE Number(n[N])
  BY DEF NumberOf
<1>3. b \in Int
  OBVIOUS
<1> HIDE DEF b
<1>4. \E f : f = [i \in 0 .. N |-> Step(f, i)]
  <2>1. \A i \in 1 .. N, k \in Int : 256 * k + x[i] \in Int /\ G[<<i, k>>] = 256 * k + x[i]
    BY <1>1
  <2>2. G \in [(1 .. N) \X Int -> Int]
    BY <1>1
  <2> HIDE DEF G
  <2>3. PICK f \in [0 .. N -> Int] : f[0] = b /\ \A i \in 1 .. N : f[i] = G[<<i, f[i - 1]>>]
    <3>1. Stepwise(G, N, Int, b)
      BY <1>1, <1>3, <2>2 DEF Stepwise
    <3> QED
      BY <3>1, Iterates
  <2>4. ASSUME NEW i \in 0 .. N PROVE f[i] = Step(f, i)
    <3>1. CASE i = 0
      BY <2>3, <3>1
    <3>2. CASE i # 0
      <4>1. i \in 1 .. N /\ f[i - 1] \in Int
        BY <1>1, <3>2
      <4> QED
        BY <2>1, <2>3, <3>2, <4>1
    <3> QED
      BY <3>1, <3>2
  <2> QED
    BY <2>4
<1> HIDE DEF Step
<1>5. n = [i \in 0 .. N |-> Step(n, i)]
  BY <1>4
<1> HIDE DEF n
<1> DEFINE T == {i \in 0 .. N : n[i] \in Int}
<1>6. 0 \in T /\ \A i \in 1 .. N : i - 1 \in T => i \in T
  BY <1>1, <1>3, <1>5 DEF Step
<1>7. \A i \in 0 .. N : i \in T
  <2> HIDE DEF T, N
  <2> QED
    BY <1>1, <1>6, Climb
<1>8. n \in [0 .. N -> Int]
  BY <1>5, <1>7
<1>9. n[0] = b /\ \A i \in 1 .. N : n[i] = 256 * n[i - 1] + x[i]
  <2>1. 0 \in 0 .. N /\ \A i \in 1 .. N : i \in 0 .. N /\ i # 0
    BY <1>1
  <2> QED
    BY <1>5, <2>1 DEF Step
<1> QED
  BY <1>2, <1>8, <1>9 DEF NumberBy, b

LEMMA NumberOfType ==
  ASSUME NEW x \in Seq(0 .. 255), NEW signed \in BOOLEAN
  PROVE  NumberOf(x, signed) \in ValueType
<1> PICK n : NumberBy(x, signed, n)
  BY NumberSteps
<1>1. n[Len(x)] \in Int
  BY LenProperties DEF NumberBy
<1>2. NumberOf(x, signed) \in {Number(n[Len(x)]), Value("wide", 0, x)}
      /\ (NumberOf(x, signed) = Number(n[Len(x)]) \/ Len(x) = 4)
  BY DEF NumberBy
<1> QED
  BY <1>1, <1>2, FourBytes, SmallValues

LEMMA ByteIsNat == \A b \in 0 .. 255 : b \in Nat /\ b \in Int
OBVIOUS

LEMMA SizeIsNat == \A b \in 1 .. 256 : b \in Nat /\ b > 0
OBVIOUS

LEMMA SizeCases ==
  ASSUME NEW t, TypeParses(t)
  PROVE  /\ t.type.name \in {"BOOL"} \cup ByteTypes \cup WordTypes \cup DwordTypes \cup StringTypes
         /\ t.type.name \in {"BOOL"} \cup ByteTypes => SizeBytes(t) = 1
         /\ t.type.name \in WordTypes => SizeBytes(t) = 2
         /\ t.type.name \in DwordTypes => SizeBytes(t) = 4
         /\ t.type.name \in StringTypes => StringLen(t) \in 1 .. 254 /\ SizeBytes(t) = StringLen(t) + 2
         /\ SizeBytes(t) \in 1 .. 256
BY DEF TypeParses, SizeBytes, ByteTypes, WordTypes, DwordTypes, StringTypes

LEMMA Placed ==
  ASSUME NEW s \in FullSchema, NEW t \in TagsOf(s)
  PROVE  /\ t \in FullTag
         /\ TagStart(s, t) \in Nat /\ ByteOffset(s, t) \in Nat /\ BitOf(s, t) \in Nat
<1>1. t \in FullTag
  <2>1. s.tags \in Seq(FullTag)
    BY FullFields
  <2> QED
    BY <2>1, ElementOfSeq DEF TagsOf
<1>2. t.addr \in Written /\ t.addr.db # Absent
  BY <1>1 DEF FullTag, TagType
<1>3. s.db \in Nat \cup {Absent}
  BY FullFields
<1> DEFINE a == Parsed(t.addr, s.db)
<1>4. a \in [db : Nat, area : Areas \cup {"Q", "?"}, byte : Nat, bit : Nat]
  BY <1>2, <1>3, CanonicalType
<1> HIDE DEF a
<1>5. a.byte \in Nat /\ a.bit \in Nat
  BY <1>4
<1>6. StartBit(a) \in Nat
  BY <1>5 DEF StartBit
<1>7. TagStart(s, t) \in Nat /\ BitOf(s, t) \in Nat
  BY <1>5, <1>6 DEF TagStart, BitOf, a
<1>8. ByteOffset(s, t) \in Nat
  BY <1>7 DEF ByteOffset
<1> QED
  BY <1>1, <1>7, <1>8

LEMMA SubSeqType ==
  ASSUME NEW S, NEW q \in Seq(S), NEW n \in 0 .. Len(q), NEW m \in 1 .. n + 1
  PROVE  SubSeq(q, m, n) \in Seq(S) /\ Len(SubSeq(q, m, n)) = n + 1 - m
<1>3. Len(q) \in Nat
  BY LenProperties
<1>1. m \in Nat /\ n \in Nat /\ \A i \in m .. n : i \in 1 .. Len(q)
  BY <1>3
<1>2. \A i \in m .. n : q[i] \in S
  BY <1>1, ElementOfSeq
<1> QED
  BY <1>1, <1>2, SubSeqProperties

LEMMA DecodedType ==
  ASSUME NEW t, TypeParses(t), NEW raw \in Seq(0 .. 255), Len(raw) = SizeBytes(t), NEW endian
  PROVE  Decoded(t, raw, endian) \in ValueType
<1> DEFINE o == Ordered(raw, endian)
<1>1. o \in Seq(0 .. 255) /\ Len(o) = SizeBytes(t)
  BY OrderedType
<1> HIDE DEF o
<1>2. CASE t.type.name = "REAL"
  <2>1. o \in [1 .. 4 -> 0 .. 255]
    BY <1>1, <1>2, SizeCases, FourBytes DEF DwordTypes
  <2>2. RealOf(o) \in ValueType
    <3>1. CASE \E n \in DOMAIN Float32 : Float32[n] = o
      <4>1. (CHOOSE n \in DOMAIN Float32 : Float32[n] = o) \in Int
        BY <3>1, Float32Assumption
      <4> QED
        BY <3>1, <4>1, SmallValues DEF RealOf
    <3>2. CASE ~ \E n \in DOMAIN Float32 : Float32[n] = o
      BY <2>1, <3>2, SmallValues DEF RealOf
    <3> QED
      BY <3>1, <3>2
  <2>3. Decoded(t, raw, endian) = RealOf(o)
    BY <1>2 DEF Decoded, StringTypes, o
  <2> QED
    BY <2>2, <2>3
<1>3. CASE t.type.name \in StringTypes
  <2> DEFINE lengths == {raw[2], raw[1], Len(raw) - 2, Len(raw) - 2}
             last == Min(lengths)
  <2>1. StringLen(t) \in 1 .. 254 /\ Len(raw) = StringLen(t) + 2
    BY <1>3, SizeCases
  <2>2. 1 \in 1 .. Len(raw) /\ 2 \in 1 .. Len(raw) /\ Len(raw) - 2 \in Nat /\ Len(raw) \in Nat
    <3>1. PICK k \in 1 .. 254 : Len(raw) = k + 2
      BY <2>1
    <3> QED
      BY <3>1
  <2>3. raw[1] \in 0 .. 255 /\ raw[2] \in 0 .. 255
    BY <2>2, ElementOfSeq
  <2>8. raw[1] \in Nat /\ raw[2] \in Nat
    BY <2>3, ByteIsNat
  <2>4. lengths \in SUBSET Nat /\ lengths # {} /\ Len(raw) - 2 \in lengths
    BY <2>2, <2>8
  <2> HIDE DEF lengths
  <2>5. last \in Nat /\ last <= Len(raw) - 2
    BY <2>4, MinIn
  <2>6. StringOf(raw, Len(raw) - 2) = SubSeq(raw, 3, 2 + last)
    BY DEF StringOf, lengths
  <2> HIDE DEF last
  <2>7. StringOf(raw, Len(raw) - 2) \in Seq(0 .. 255)
    <3>1. 2 + last \in 0 .. Len(raw) /\ 3 \in 1 .. (2 + last) + 1
      BY <2>2, <2>5
    <3>2. SubSeq(raw, 3, 2 + last) \in Seq(0 .. 255)
      BY <3>1, SubSeqType
    <3> QED
      BY <2>6, <3>2
  <2> QED
    BY <1>3, <2>7, SmallValues DEF Decoded, StringTypes
<1>4. CASE t.type.name # "REAL" /\ t.type.name \notin StringTypes
  <2>1. (t.type.name \in SignedTypes) \in BOOLEAN
    OBVIOUS
  <2>2. NumberOf(o, t.type.name \in SignedTypes) \in ValueType
    BY <1>1, <2>1, NumberOfType
  <2> QED
    BY <1>4, <2>2 DEF Decoded, o
<1> QED
  BY <1>2, <1>3, <1>4

LEMMA UnpackedInitType ==
  ASSUME NEW s \in FullSchema, Unpacks(s), NEW t \in TagsOf(s), NEW data \in Seq(0 .. 255)
  PROVE  UnpackedInit(s, t, data) \in ValueType
<1> DEFINE off == ByteOffset(s, t)
           size == SizeBytes(t)
<1>1. off \in Nat
  BY Placed
<1>2. TypeParses(t)
  BY DEF Unpacks, Builds
<1>3. size \in 1 .. 256
  BY <1>2, SizeCases
<1> HIDE DEF off, size
<1>4. CASE t.type.name = "BOOL"
  <2>1. (off < Len(data) /\ BitIs(data[off + 1], BitOf(s, t))) \in BOOLEAN
    OBVIOUS
  <2>2. Bool(off < Len(data) /\ BitIs(data[off + 1], BitOf(s, t))) \in ValueType
    BY <2>1, SmallValues
  <2> QED
    BY <1>4, <2>2 DEF UnpackedInit, off
<1>5. CASE t.type.name # "BOOL" /\ off + size > Len(data)
  BY <1>5, SmallValues DEF UnpackedInit, off, size
<1>6. CASE t.type.name # "BOOL" /\ ~(off + size > Len(data))
  <2> DEFINE raw == SubSeq(data, off + 1, off + size)
  <2>0. Len(data) \in Nat /\ size \in Nat /\ size > 0
    BY <1>3, LenProperties, SizeIsNat
  <2>1. /\ off + size \in 0 .. Len(data) /\ off + 1 \in 1 .. (off + size) + 1
        /\ (off + size) + 1 - (off + 1) = size
    <3> DEFINE n == Len(data)
    <3>1. n \in Nat /\ ~(off + size > n)
      BY <1>6, <2>0
    <3> HIDE DEF n
    <3>2. off + size \in 0 .. n
      BY <1>1, <2>0, <3>1
    <3>3. off + 1 \in 1 .. (off + size) + 1 /\ (off + size) + 1 - (off + 1) = size
      BY <1>1, <2>0
    <3> QED
      BY <3>2, <3>3 DEF n
  <2>2. raw \in Seq(0 .. 255) /\ Len(raw) = size
    BY <2>1, SubSeqType
  <2> HIDE DEF raw
  <2>3. Decoded(t, raw, s.endian) \in ValueType
    BY <1>2, <2>2, DecodedType DEF size
  <2> QED
    BY <1>6, <2>3 DEF UnpackedInit, Slice, off, size, raw
<1> QED
  BY <1>4, <1>5, <1>6

LEMMA DecimalType ==
  ASSUME NEW v \in ValueType
  PROVE  Decimal(v) \in ValueType
<1>1. CASE v.kind = "float" /\ v.text \in DOMAIN Reparsed
  <2> DEFINE n == 4
             x == Reparsed[v.text]
  <2>1. n \in Nat /\ x \in [1 .. n -> 0 .. 255]
    BY <1>1, ReparsedAssumption
  <2> HIDE DEF n, x
  <2>2. x \in Seq(0 .. 255)
    BY <2>1, FunctionIsSeq
  <2>3. Decimal(v) = [v EXCEPT !.text = x]
    BY <1>1 DEF Decimal, x
  <2>4. [v EXCEPT !.text = x] \in ValueType
    BY <2>1, <2>2 DEF ValueType, n
  <2> QED
    BY <2>3, <2>4
<1>2. CASE ~(v.kind = "float" /\ v.text \in DOMAIN Reparsed)
  BY <1>2 DEF Decimal
<1> QED
  BY <1>1, <1>2

LEMMA UnpackedType ==
  ASSUME NEW s \in FullSchema, Unpacks(s), NEW data \in Seq(0 .. 255)
  PROVE  Unpacked(s, data) \in FullSchema
<1> DEFINE again(i) == [s.tags[i] EXCEPT !.init = Decimal(UnpackedInit(s, s.tags[i], data))]
           q == [i \in 1 .. Len(s.tags) |-> again(i)]
<1>1. s.tags \in Seq(FullTag) /\ Len(s.tags) \in Nat
  BY FullFields, LenProperties
<1>2. ASSUME NEW i \in 1 .. Len(s.tags) PROVE again(i) \in FullTag
  <2> DEFINE t == s.tags[i]
             v == Decimal(UnpackedInit(s, t, data))
  <2>1. t \in FullTag /\ t \in TagsOf(s)
    BY <1>1, ElementOfSeq DEF TagsOf
  <2>2. v \in ValueType
    BY <2>1, UnpackedInitType, DecimalType
  <2>3. again(i) = [t EXCEPT !.init = v]
    OBVIOUS
  <2> HIDE DEF t, v, again
  <2> QED
    BY <2>1, <2>2, <2>3 DEF FullTag, TagType
<1>3. q \in Seq(FullTag)
  <2>1. q \in [1 .. Len(s.tags) -> FullTag]
    BY <1>2
  <2> HIDE DEF q
  <2> QED
    BY <1>1, <2>1, FunctionIsSeq
<1>4. Unpacked(s, data) = [[s EXCEPT !.size = Len(data)] EXCEPT !.tags = q]
  BY DEF Unpacked
<1> HIDE DEF q
<1>5. Len(data) \in Nat \cup {AutoSize}
  BY LenProperties
<1>6. [s EXCEPT !.size = Len(data)] \in FullSchema
  BY <1>5, FullFields
<1> QED
  BY <1>3, <1>4, <1>6, FullFields

LEMMA AsBytesType ==
  ASSUME NEW data \in Seq(0 .. 255), NEW db \in Nat
  PROVE  AsBytes(data, db) \in FullSchema
<1> DEFINE a(i) == [db |-> db, area |-> "DBB", byte |-> i - 1, bit |-> Absent]
           ty == [name |-> "BYTE", max |-> 0]
           q == [i \in 1 .. Len(data) |-> PlainTag(a(i), ty, "", Number(data[i]))]
           s == AsBytes(data, db)
<1>1. Len(data) \in Nat
  BY LenProperties
<1>2. "" \in Strings /\ "BYTE" \in Strings /\ "big" \in Strings
  BY DEF Strings
<1>3. ty \in TypeName
  BY <1>2 DEF TypeName
<1>4. ASSUME NEW i \in 1 .. Len(data) PROVE q[i] \in FullTag
  <2>1. a(i) \in Written
    <3>1. i - 1 \in Nat /\ Absent \in Optional /\ db \in Optional /\ "DBB" \in Areas
      BY <1>1 DEF Optional, Areas, FullAreas
    <3> QED
      BY <3>1 DEF Written
  <2>2. a(i).db # Absent
    BY DEF Absent
  <2>3. Number(data[i]) \in ValueType
    <3>1. data[i] \in Int
      <4>1. data[i] \in 0 .. 255
        BY ElementOfSeq
      <4> QED
        BY <4>1, ByteIsNat
    <3> QED
      BY <3>1, SmallValues
  <2> HIDE DEF a, ty
  <2>4. PlainTag(a(i), ty, "", Number(data[i])) \in FullTag
    BY <1>2, <1>3, <2>1, <2>2, <2>3, PlainTagType
  <2> QED
    BY <2>4
<1>5. q \in Seq(FullTag) /\ q \in Seq(TagType)
  <2>1. q = [i \in 1 .. Len(data) |-> q[i]]
    OBVIOUS
  <2> HIDE DEF q
  <2>2. q \in [1 .. Len(data) -> FullTag]
    BY <1>4, <2>1
  <2>3. FullTag \subseteq TagType
    BY DEF FullTag
  <2> QED
    BY <1>1, <2>2, <2>3, FunctionIsSeq
<1>6. s = [db |-> db, endian |-> "big", size |-> Len(data), tags |-> q]
  BY DEF AsBytes
<1> HIDE DEF q, s
<1>7. Len(data) \in Nat \cup {AutoSize}
  BY <1>1
<1>8. s \in SchemaType
  BY <1>2, <1>5, <1>6, <1>7 DEF SchemaType
<1>9. s.tags = q
  BY <1>6
<1> QED
  BY <1>5, <1>8, <1>9 DEF s, FullSchema

LEMMA UnpackKeeps ==
  ASSUME FileInv, image.data \in Seq(0 .. 255), NEW withTemplate \in BOOLEAN, NEW db \in DBFlags,
         Unpack(withTemplate, db)
  PROVE  FileInv' /\ image' = image
<1> DEFINE s == Load(file, db)
<1>1. db \in Nat \cup {Absent}
  BY OptionsAssumption
<1>2. s \in FullSchema
  BY <1>1, LoadType DEF FileInv
<1>3. CASE withTemplate
  <2>1. Unpacks(s) /\ Save(Unpacked(s, image.data))
    BY <1>3 DEF Unpack
  <2> HIDE DEF s
  <2> QED
    BY <1>2, <2>1, UnpackedType, SaveKeeps
<1>4. CASE ~withTemplate
  <2> DEFINE d == IF db = Absent THEN 1 ELSE db
  <2>1. d \in Nat /\ Save(AsBytes(image.data, d))
    BY <1>1, <1>4 DEF Unpack
  <2> HIDE DEF d
  <2> QED
    BY <2>1, AsBytesType, SaveKeeps
<1> QED
  BY <1>3, <1>4

LEMMA NumeralType ==
  ASSUME NEW x \in Seq(0 .. 255)
  PROVE  NumeralOf(x) \in Int
<1> DEFINE N == Len(x)
           Step(n, i) == IF i = 0 THEN 0 ELSE IF x[i] = 45 THEN n[i - 1] ELSE 10 * n[i - 1] + x[i] - 48
           n == CHOOSE f : f = [i \in 0 .. N |-> Step(f, i)]
           G == [p \in (1 .. N) \X Int |-> IF x[p[1]] = 45 THEN p[2] ELSE 10 * p[2] + x[p[1]] - 48]
<1>1. N \in Nat /\ \A i \in 1 .. N : x[i] \in Int
  <2>1. \A i \in 1 .. Len(x) : x[i] \in 0 .. 255
    BY ElementOfSeq
  <2> QED
    BY <2>1, ByteIsNat, LenProperties
<1>2. NumeralOf(x) = IF Head(x) = 45 THEN - n[N] ELSE n[N]
  BY DEF NumeralOf
<1>4. \E f : f = [i \in 0 .. N |-> Step(f, i)]
  <2>1. \A i \in 1 .. N, k \in Int :
          G[<<i, k>>] \in Int /\ G[<<i, k>>] = IF x[i] = 45 THEN k ELSE 10 * k + x[i] - 48
    BY <1>1
  <2>2. G \in [(1 .. N) \X Int -> Int]
    BY <1>1
  <2> HIDE DEF G
  <2>3. PICK f \in [0 .. N -> Int] : f[0] = 0 /\ \A i \in 1 .. N : f[i] = G[<<i, f[i - 1]>>]
    <3>1. Stepwise(G, N, Int, 0)
      BY <1>1, <2>2 DEF Stepwise
    <3> QED
      BY <3>1, Iterates
  <2>4. ASSUME NEW i \in 0 .. N PROVE f[i] = Step(f, i)
    <3>1. CASE i = 0
      BY <2>3, <3>1
    <3>2. CASE i # 0
      <4>1. i \in 1 .. N /\ f[i - 1] \in Int
        BY <1>1, <3>2
      <4>2. f[i] = G[<<i, f[i - 1]>>]
        BY <2>3, <4>1
      <4>3. G[<<i, f[i - 1]>>] = IF x[i] = 45 THEN f[i - 1] ELSE 10 * f[i - 1] + x[i] - 48
        BY <2>1, <4>1
      <4> QED
        BY <3>2, <4>2, <4>3
    <3> QED
      BY <3>1, <3>2
  <2> QED
    BY <2>4
<1> HIDE DEF Step
<1>5. n = [i \in 0 .. N |-> Step(n, i)]
  BY <1>4
<1> HIDE DEF n
<1> DEFINE T == {i \in 0 .. N : n[i] \in Int}
<1>6. 0 \in T /\ \A i \in 1 .. N : i - 1 \in T => i \in T
  <2>1. 0 \in T
    BY <1>1, <1>5 DEF Step
  <2>2. ASSUME NEW i \in 1 .. N, i - 1 \in T PROVE i \in T
    <3>1. i \in 0 .. N /\ i # 0 /\ n[i - 1] \in Int /\ x[i] \in Int
      BY <1>1, <2>2
    <3>2. n[i] = Step(n, i)
      BY <1>5, <3>1
    <3>3. Step(n, i) = IF x[i] = 45 THEN n[i - 1] ELSE 10 * n[i - 1] + x[i] - 48
      BY <3>1 DEF Step
    <3>4. n[i] \in Int
      BY <3>1, <3>2, <3>3
    <3> QED
      BY <3>1, <3>4
  <2> QED
    BY <2>1, <2>2
<1>7. \A i \in 0 .. N : i \in T
  <2> HIDE DEF T, N
  <2> QED
    BY <1>1, <1>6, Climb
<1>8. n[N] \in Int
  BY <1>1, <1>7
<1> QED
  BY <1>2, <1>8

LEMMA PrintedType ==
  ASSUME NEW n \in Int
  PROVE  Printed(n) \in Seq(0 .. 255)
<1> DEFINE S == Seq(0 .. 255)
           size == IF n < 0 THEN - n ELSE n
           D == 0 .. size
           Step(d, k) == IF k < 10 THEN <<48 + k>> ELSE Append(d[k \div 10], 48 + (k % 10))
           F == [d \in [D -> S] |-> [k \in D |-> Step(d, k)]]
           d == CHOOSE f : f = [k \in D |-> Step(f, k)]
<1>1. size \in Nat
  OBVIOUS
<1>2. Printed(n) = IF n < 0 THEN <<45>> \o d[size] ELSE d[size]
  BY DEF Printed
<1> HIDE DEF size
<1>3. ASSUME NEW g, NEW k \in D, \A j \in 0 .. k - 1 : g[j] \in S
      PROVE  Step(g, k) \in S
  <2>1. CASE k < 10
    <3>1. 48 + k \in 0 .. 255
      BY <1>1, <2>1
    <3> HIDE DEF size
    <3>2. <<48 + k>> \in S
      BY <3>1
    <3> QED
      BY <2>1, <3>2
  <2>2. CASE ~(k < 10)
    <3>1. k \div 10 \in 0 .. k - 1 /\ 48 + (k % 10) \in 0 .. 255
      BY <1>1, <2>2
    <3>2. g[k \div 10] \in S
      BY <1>3, <3>1
    <3>3. Append(g[k \div 10], 48 + (k % 10)) \in S
      BY <3>1, <3>2, AppendProperties
    <3> QED
      BY <2>2, <3>3
  <2> QED
    BY <2>1, <2>2
<1>4. PICK g : g = [k \in D |-> Step(g, k)]
  <2>1. \A g \in [D -> S] : F[g] = [k \in D |-> Step(g, k)]
    OBVIOUS
  <2>2. S # {} /\ D = 0 .. size
    BY EmptySeq
  <2>3. F \in [[D -> S] -> [D -> S]]
    <3> SUFFICES ASSUME NEW g \in [D -> S], NEW k \in D PROVE Step(g, k) \in S
      OBVIOUS
    <3> HIDE DEF Step
    <3>1. \A j \in 0 .. k - 1 : j \in D
      BY <1>1
    <3> QED
      BY <1>3, <3>1
  <2>4. ASSUME NEW g, NEW h, NEW k \in D, \A j \in 0 .. k - 1 : g[j] = h[j]
        PROVE  Step(g, k) = Step(h, k)
    <3>1. ~(k < 10) => k \div 10 \in 0 .. k - 1
      BY <1>1
    <3>2. ~(k < 10) => g[k \div 10] = h[k \div 10]
      BY <2>4, <3>1
    <3> QED
      BY <3>2
  <2> HIDE DEF F, Step, D, S
  <2>5. ASSUME NEW g \in [D -> S], NEW h \in [D -> S], NEW k \in D, \A j \in 0 .. k - 1 : g[j] = h[j]
        PROVE  F[g][k] = F[h][k]
    <3>1. Step(g, k) = Step(h, k)
      BY <2>4, <2>5
    <3>2. F[g][k] = Step(g, k) /\ F[h][k] = Step(h, k)
      BY <2>1
    <3> QED
      BY <3>1, <3>2
  <2>6. Causal(F, 0, size, S)
    BY <1>1, <2>2, <2>3, <2>5 DEF Causal
  <2>7. \E g \in [D -> S] : F[g] = g
    BY <2>2, <2>6, Definable
  <2> QED
    BY <2>1, <2>7
<1> HIDE DEF Step
<1>5. d = [k \in D |-> Step(d, k)]
  BY <1>4
<1> HIDE DEF d
<1> DEFINE T == {k \in D : d[k] \in S}
<1>6. \A k \in D : k \in T
  <2>1. ASSUME NEW k \in D, \A j \in 0 .. k - 1 : j \in T PROVE k \in T
    <3>1. \A j \in 0 .. k - 1 : d[j] \in S
      BY <2>1
    <3>2. Step(d, k) \in S
      <4> HIDE DEF S, D, T
      <4> QED
        BY <1>3, <3>1
    <3> QED
      BY <1>5, <3>2
  <2> HIDE DEF T
  <2> QED
    BY <1>1, <2>1, Inherited
<1>7. d[size] \in S
  BY <1>1, <1>6
<1>8. <<45>> \in S
  OBVIOUS
<1>9. <<45>> \o d[size] \in S
  BY <1>7, <1>8, ConcatProperties
<1> QED
  BY <1>2, <1>7, <1>9

LEMMA AsTextType ==
  ASSUME NEW v \in ValueType
  PROVE  AsText(v) \in Seq(0 .. 255)
<1>1. v.num \in Int /\ v.text \in Seq(0 .. 255)
  BY DEF ValueType
<1>2. CASE v.kind = "number"
  BY <1>1, <1>2, PrintedType DEF AsText
<1>3. CASE v.kind = "bool"
  <2>1. <<116, 114, 117, 101>> \in Seq(0 .. 255) /\ <<102, 97, 108, 115, 101>> \in Seq(0 .. 255)
    OBVIOUS
  <2>2. AsText(v) \in {<<116, 114, 117, 101>>, <<102, 97, 108, 115, 101>>}
    <3>1. "bool" # "number"
      OBVIOUS
    <3> QED
      BY <1>3, <3>1 DEF AsText
  <2> QED
    BY <2>1, <2>2
<1>4. CASE v.kind \notin {"number", "bool"}
  BY <1>1, <1>4 DEF AsText
<1> QED
  BY <1>2, <1>3, <1>4

LEMMA ByteType ==
  ASSUME NEW n \in Int, NEW i \in 0 .. 3
  PROVE  Byte(n, i) \in 0 .. 255
<1>1. \A m \in Int : m % 256 \in 0 .. 255
  OBVIOUS
<1>2. n \div 1 \in Int /\ n \div 256 \in Int /\ n \div 65536 \in Int /\ n \div 16777216 \in Int
  OBVIOUS
<1>3. i + 1 \in {1, 2, 3, 4}
  OBVIOUS
<1>4. <<1, 256, 65536, 16777216>>[i + 1] \in {1, 256, 65536, 16777216}
  BY <1>3
<1>5. n \div <<1, 256, 65536, 16777216>>[i + 1] \in Int
  BY <1>2, <1>4
<1> QED
  BY <1>1, <1>5 DEF Byte

LEMMA IntBytesType ==
  ASSUME NEW v \in ValueType, NEW n \in {1, 2, 4}
  PROVE  IntBytes(v, n) \in Seq(0 .. 255) /\ Len(IntBytes(v, n)) = n
<1>1. v.num \in Int /\ v.text \in Seq(0 .. 255) /\ (v.kind = "wide" => v.text \in [1 .. 4 -> 0 .. 255])
  BY DEF ValueType
<1>2. CASE v.kind = "wide"
  <2>1. Len(v.text) = 4
    BY <1>1, <1>2, FunctionIsSeq
  <2>2. 4 \in 0 .. Len(v.text) /\ 5 - n \in 1 .. 4 + 1 /\ 4 + 1 - (5 - n) = n
    BY <2>1
  <2>3. /\ SubSeq(v.text, 5 - n, 4) \in Seq(0 .. 255)
        /\ Len(SubSeq(v.text, 5 - n, 4)) = 4 + 1 - (5 - n)
    <3> DEFINE q == v.text
               m == 5 - n
               e == 4
    <3>1. q \in Seq(0 .. 255) /\ e \in 0 .. Len(q) /\ m \in 1 .. e + 1
      BY <1>1, <2>2
    <3> HIDE DEF q, m, e
    <3>2. SubSeq(q, m, e) \in Seq(0 .. 255) /\ Len(SubSeq(q, m, e)) = e + 1 - m
      BY <3>1, SubSeqType
    <3> QED
      BY <3>2 DEF q, m, e
  <2> QED
    BY <1>2, <2>2, <2>3 DEF IntBytes
<1>3. CASE v.kind # "wide"
  <2> DEFINE b == [i \in 1 .. n |-> Byte(IntOf(v), n - i)]
  <2>1. IntOf(v) \in Int
    BY <1>1, NumeralType DEF IntOf
  <2>2. \A i \in 1 .. n : n - i \in 0 .. 3
    OBVIOUS
  <2>3. b \in [1 .. n -> 0 .. 255]
    BY <2>1, <2>2, ByteType
  <2> HIDE DEF b
  <2>4. b \in Seq(0 .. 255) /\ Len(b) = n
    <3>1. n \in Nat
      OBVIOUS
    <3> QED
      BY <2>3, <3>1, FunctionIsSeq
  <2> QED
    BY <1>3, <2>4 DEF IntBytes, b
<1> QED
  BY <1>2, <1>3

----------------------------------------------------------------------------
(* Images: Pack *)

LEMMA StretchIsSeq ==
  ASSUME NEW S, NEW c \in S, NEW m \in Int
  PROVE  [i \in 1 .. m |-> c] \in Seq(S) /\ (m \in Nat => Len([i \in 1 .. m |-> c]) = m)
<1> DEFINE f == [i \in 1 .. m |-> c]
<1>1. CASE m \in Nat
  <2>1. f \in [1 .. m -> S]
    OBVIOUS
  <2> HIDE DEF f
  <2>2. f \in Seq(S) /\ Len(f) = m
    BY <1>1, <2>1, FunctionIsSeq
  <2> QED
    BY <2>2 DEF f
<1>2. CASE m \notin Nat
  <2>1. 1 .. m = 1 .. 0
    BY <1>2
  <2>2. f = [i \in 1 .. 0 |-> c]
    BY <2>1
  <2>3. [i \in 1 .. 0 |-> c] \in [1 .. 0 -> S] /\ 0 \in Nat
    OBVIOUS
  <2> HIDE DEF f
  <2>4. f \in Seq(S)
    BY <2>2, <2>3, FunctionIsSeq
  <2> QED
    BY <1>2, <2>4 DEF f
<1> QED
  BY <1>1, <1>2

LEMMA PaddedType ==
  ASSUME NEW x \in Seq(0 .. 255), NEW n \in Nat, Len(x) <= n
  PROVE  Padded(x, n) \in Seq(0 .. 255) /\ Len(Padded(x, n)) = n
<1> DEFINE z == [i \in 1 .. n - Len(x) |-> 0]
<1>1. Len(x) \in Nat
  BY LenProperties
<1>2. z \in Seq(0 .. 255) /\ Len(z) = n - Len(x)
  <2>1. n - Len(x) \in Nat /\ n - Len(x) \in Int /\ 0 \in 0 .. 255
    BY <1>1
  <2> QED
    BY <2>1, StretchIsSeq
<1>3. Padded(x, n) = x \o z
  BY Zenon DEF Padded
<1> HIDE DEF z
<1>4. x \o z \in Seq(0 .. 255) /\ Len(x \o z) = Len(x) + Len(z)
  BY <1>2, ConcatProperties
<1> QED
  BY <1>1, <1>2, <1>3, <1>4

LEMMA EncodedType ==
  ASSUME NEW t, TypeParses(t), t.type.name # "BOOL", NEW v \in ValueType, Encodes(t, v), NEW endian
  PROVE  Encoded(t, v, endian) \in Seq(0 .. 255) /\ Len(Encoded(t, v, endian)) = SizeBytes(t)
<1>1. CASE t.type.name = "REAL"
  <2>1. TakenAsFloat(v)
    BY <1>1 DEF Encodes
  <2>2. FloatBytes(v) \in [1 .. 4 -> 0 .. 255]
    <3>1. NegativeZero \in [1 .. 4 -> 0 .. 255]
      BY DEF NegativeZero
    <3> QED
      BY <2>1, <3>1, Float32Assumption DEF TakenAsFloat, FloatBytes, ValueType
  <2>3. FloatBytes(v) \in Seq(0 .. 255) /\ Len(FloatBytes(v)) = 4
    <3> DEFINE n == 4
    <3>1. n \in Nat /\ FloatBytes(v) \in [1 .. n -> 0 .. 255]
      BY <2>2
    <3> HIDE DEF n
    <3>2. FloatBytes(v) \in Seq(0 .. 255) /\ Len(FloatBytes(v)) = n
      BY <3>1, FunctionIsSeq
    <3> QED
      BY <3>2 DEF n
  <2>4. /\ Ordered(FloatBytes(v), endian) \in Seq(0 .. 255)
        /\ Len(Ordered(FloatBytes(v), endian)) = 4
    BY <2>3, OrderedType
  <2>5. SizeBytes(t) = 4
    BY <1>1, SizeCases DEF DwordTypes
  <2> QED
    BY <1>1, <2>4, <2>5 DEF Encoded, StringTypes
<1>2. CASE t.type.name \in StringTypes
  <2> DEFINE x == AsText(v)
             m == StringLen(t)
             y == <<m, Len(x)>> \o x
  <2>1. x \in Seq(0 .. 255)
    BY AsTextType
  <2>2. m \in 1 .. 254 /\ SizeBytes(t) = m + 2
    BY <1>2, SizeCases
  <2>3. Len(x) <= m
    BY <1>2 DEF Encodes, StringTypes
  <2> HIDE DEF x, m
  <2>4. Len(x) \in Nat
    BY <2>1, LenProperties
  <2>5. m \in 0 .. 255 /\ Len(x) \in 0 .. 255
    <3>1. PICK k \in 1 .. 254 : m = k
      BY <2>2
    <3>2. PICK l \in Nat : Len(x) = l
      BY <2>4
    <3>3. k \in 0 .. 255 /\ l \in 0 .. 255
      BY <2>3, <3>1, <3>2
    <3> QED
      BY <3>1, <3>2, <3>3
  <2>6. <<m, Len(x)>> \in Seq(0 .. 255)
    BY <2>5
  <2>7. y \in Seq(0 .. 255) /\ Len(y) = 2 + Len(x)
    <3>1. Len(<<m, Len(x)>>) = 2
      OBVIOUS
    <3>2. y \in Seq(0 .. 255) /\ Len(y) = Len(<<m, Len(x)>>) + Len(x)
      BY <2>1, <2>6, ConcatProperties
    <3> QED
      BY <3>1, <3>2
  <2> HIDE DEF y
  <2>10. Padded(y, m + 2) \in Seq(0 .. 255) /\ Len(Padded(y, m + 2)) = m + 2
    <3>1. m + 2 \in Nat /\ Len(y) <= m + 2
      BY <2>2, <2>3, <2>4, <2>7
    <3> QED
      BY <2>7, <3>1, PaddedType
  <2>11. Encoded(t, v, endian) = Padded(y, m + 2)
    BY <1>2, <2>2 DEF Encoded, StringTypes, x, m, y
  <2> QED
    BY <2>2, <2>10, <2>11
<1>3. CASE t.type.name # "REAL" /\ t.type.name \notin StringTypes
  <2> DEFINE n == SizeBytes(t)
  <2>1. n \in {1, 2, 4}
    BY <1>3, SizeCases
  <2> HIDE DEF n
  <2>2. IntBytes(v, n) \in Seq(0 .. 255) /\ Len(IntBytes(v, n)) = n
    BY <2>1, IntBytesType
  <2>3. /\ Ordered(IntBytes(v, n), endian) \in Seq(0 .. 255)
        /\ Len(Ordered(IntBytes(v, n), endian)) = n
    BY <2>2, OrderedType
  <2> QED
    BY <1>3, <2>3 DEF Encoded, n
<1> QED
  BY <1>1, <1>2, <1>3

LEMMA WithBitType ==
  ASSUME NEW byte \in 0 .. 255, NEW k, NEW v \in {0, 1}
  PROVE  WithBit(byte, k, v) \in 0 .. 255
<1>1. CASE k \notin 0 .. 7 \/ BitIs(byte, k) = (v = 1)
  BY <1>1 DEF WithBit
<1>2. CASE k \in 0 .. 7 /\ BitIs(byte, k) # (v = 1)
  <2> DEFINE m == Mask(k)
  <2>1. m \in {1, 2, 4, 8, 16, 32, 64, 128}
    <3>1. k + 1 \in {1, 2, 3, 4, 5, 6, 7, 8}
      BY <1>2
    <3> QED
      BY <3>1 DEF Mask
  <2>2. (v = 1) = ((byte \div m) % 2 # 1)
    BY <1>2 DEF BitIs
  <2> HIDE DEF m
  <2>3. v = 1 => byte + m \in 0 .. 255
    BY <2>1, <2>2
  <2>4. v # 1 => byte - m \in 0 .. 255
    BY <2>1, <2>2
  <2>5. WithBit(byte, k, v) = IF v = 1 THEN byte + m ELSE byte - m
    BY <1>2 DEF WithBit, m
  <2> QED
    BY <2>3, <2>4, <2>5
<1> QED
  BY <1>1, <1>2

Images(B) == \E n \in Nat : B = [1 .. n -> 0 .. 255]

LEMMA PutType ==
  ASSUME NEW s \in FullSchema, NEW strict \in BOOLEAN, Packs(s, strict), NEW t \in TagsOf(s),
         NEW B, Images(B), NEW bytes \in B
  PROVE  Put(s, bytes, t) \in B
<1> PICK n \in Nat : B = [1 .. n -> 0 .. 255]
  BY DEF Images
<1> DEFINE off == ByteOffset(s, t)
<1>1. off \in Nat /\ t.init \in ValueType
  BY Placed DEF FullTag, TagType
<1>2. TypeParses(t)
  BY DEF Packs, Builds
<1>3. CASE t.type.name = "BOOL"
  <2> DEFINE v == IF IsTrue(t.init) THEN 1 ELSE 0
             w(b) == WithBit(b, BitOf(s, t), v)
  <2>1. v \in {0, 1}
    OBVIOUS
  <2> HIDE DEF v
  <2>2. \A b \in 0 .. 255 : w(b) \in 0 .. 255
    BY <2>1, WithBitType
  <2>3. Put(s, bytes, t) = [bytes EXCEPT ![off + 1] = w(bytes[off + 1])]
    BY <1>3 DEF Put, v
  <2> HIDE DEF w, off
  <2>4. [bytes EXCEPT ![off + 1] = w(bytes[off + 1])] =
          [i \in 1 .. n |-> IF i = off + 1 THEN w(bytes[i]) ELSE bytes[i]]
    OBVIOUS
  <2>5. \A i \in 1 .. n : w(bytes[i]) \in 0 .. 255 /\ bytes[i] \in 0 .. 255
    BY <2>2
  <2>6. [i \in 1 .. n |-> IF i = off + 1 THEN w(bytes[i]) ELSE bytes[i]] \in [1 .. n -> 0 .. 255]
    BY <2>5
  <2> QED
    BY <2>3, <2>4, <2>6
<1>4. CASE t.type.name # "BOOL"
  <2> DEFINE e == Encoded(t, t.init, s.endian)
  <2>1. Encodes(t, t.init)
    BY <1>4 DEF Packs
  <2>2. e \in Seq(0 .. 255)
    BY <1>1, <1>2, <1>4, <2>1, EncodedType
  <2>3. Len(bytes) = n
    BY FunctionIsSeq
  <2>4. Put(s, bytes, t) = [i \in 1 .. Len(bytes) |-> IF i - off \in 1 .. Len(e) THEN e[i - off] ELSE bytes[i]]
    BY <1>4 DEF Put
  <2> HIDE DEF e, off
  <2>5. \A j \in 1 .. Len(e) : e[j] \in 0 .. 255
    BY <2>2, ElementOfSeq
  <2>6. \A i \in 1 .. n : (IF i - off \in 1 .. Len(e) THEN e[i - off] ELSE bytes[i]) \in 0 .. 255
    BY <2>5
  <2>7. [i \in 1 .. n |-> IF i - off \in 1 .. Len(e) THEN e[i - off] ELSE bytes[i]] \in [1 .. n -> 0 .. 255]
    BY <2>6
  <2> QED
    BY <2>3, <2>4, <2>7
<1> QED
  BY <1>3, <1>4

LEMMA SizesAreNat ==
  ASSUME NEW s \in FullSchema, NEW strict \in BOOLEAN, Builds(s, strict)
  PROVE  /\ ComputedSize(s) \in Nat /\ FinalSize(s) \in Nat /\ FinalSize(s) >= ComputedSize(s)
         /\ \A t \in TagsOf(s) : TagEnd(s, t) <= 8 * FinalSize(s)
<1> DEFINE N == Len(s.tags)
           f == [i \in 1 .. N |-> TagEnd(s, s.tags[i])]
           ends == {0} \cup {TagEnd(s, t) : t \in TagsOf(s)}
<1>1. N \in Nat
  BY FullFields, LenProperties
<1>2. \A i \in 1 .. N : s.tags[i] \in TagsOf(s)
  BY DEF TagsOf
<1>3. ASSUME NEW t \in TagsOf(s) PROVE TagEnd(s, t) \in Nat
  <2>1. TypeParses(t)
    BY DEF Builds
  <2>2. SizeBytes(t) \in Nat
    BY <2>1, SizeCases, SizeIsNat
  <2>3. BitSize(t) \in Nat
    BY <2>2 DEF BitSize
  <2> QED
    BY <2>3, Placed DEF TagEnd
<1>4. f \in [1 .. N -> Nat]
  BY <1>2, <1>3
<1>5. PICK b \in Nat : \A i \in 1 .. N : f[i] <= b
  <2> HIDE DEF N, f
  <2> QED
    BY <1>1, <1>4, Bounded
<1>6. ends \in SUBSET (0 .. b) /\ ends # {}
  <2>1. ASSUME NEW t \in TagsOf(s) PROVE TagEnd(s, t) \in 0 .. b
    <3>1. PICK i \in 1 .. N : t = s.tags[i]
      BY DEF TagsOf
    <3>2. f[i] = TagEnd(s, t)
      BY <3>1
    <3>3. TagEnd(s, t) \in Nat /\ f[i] <= b
      BY <1>3, <1>5
    <3> HIDE DEF f
    <3> QED
      BY <3>2, <3>3
  <2> QED
    BY <2>1
<1> HIDE DEF ends
<1>7. Max(ends) \in Nat /\ \A t \in TagsOf(s) : TagEnd(s, t) <= Max(ends)
  <2>1. Max(ends) \in ends /\ \A e \in ends : e <= Max(ends)
    <3>1. Max(ends) \in ends /\ \A e \in ends : Max(ends) >= e
      BY <1>6, MaxIn
    <3>2. ends \subseteq Int
      BY <1>6
    <3> QED
      BY <3>1, <3>2
  <2>2. Max(ends) \in 0 .. b
    BY <1>6, <2>1
  <2>3. \A t \in TagsOf(s) : TagEnd(s, t) \in ends
    BY DEF ends
  <2> QED
    BY <2>1, <2>2, <2>3
<1>8. ComputedSize(s) \in Nat /\ \A t \in TagsOf(s) : TagEnd(s, t) <= 8 * ComputedSize(s)
  <2>1. ComputedSize(s) = (Max(ends) + 7) \div 8
    BY DEF ComputedSize, BytesFor, ends
  <2> DEFINE m == Max(ends)
             c == ComputedSize(s)
  <2>2. m \in Nat /\ c = (m + 7) \div 8
    BY <1>7, <2>1
  <2> HIDE DEF m, c
  <2>3. c \in Nat /\ m <= 8 * c
    BY <2>2
  <2>4. ASSUME NEW t \in TagsOf(s) PROVE TagEnd(s, t) <= 8 * c
    <3>1. TagEnd(s, t) \in Nat /\ TagEnd(s, t) <= m
      BY <1>3, <1>7 DEF m
    <3> QED
      BY <2>2, <2>3, <3>1
  <2> QED
    BY <2>3, <2>4 DEF c
<1>9. s.size \in Nat \cup {AutoSize} /\ (s.size # AutoSize => s.size >= ComputedSize(s))
  BY FullFields DEF Builds
<1>10. FinalSize(s) \in Nat /\ FinalSize(s) >= ComputedSize(s)
  BY <1>8, <1>9 DEF FinalSize
<1>11. ASSUME NEW t \in TagsOf(s) PROVE TagEnd(s, t) <= 8 * FinalSize(s)
  BY <1>3, <1>8, <1>10
<1> QED
  BY <1>8, <1>10, <1>11

LEMMA FinalSizeIsNat ==
  ASSUME NEW s \in FullSchema, NEW strict \in BOOLEAN, Builds(s, strict)
  PROVE  FinalSize(s) \in Nat /\ \A t \in TagsOf(s) : TagEnd(s, t) <= 8 * FinalSize(s)
BY SizesAreNat

(* Pack, step by step: p[n] are the bytes with n tags in their places, and    *)
(* then come m bytes of padding.                                             *)
PackedBy(s, fill, pad, p, m) ==
  /\ p \in [0 .. Len(s.tags) -> [1 .. FinalSize(s) -> 0 .. 255]] /\ m \in Nat
  /\ p[0] = [i \in 1 .. FinalSize(s) |-> fill]
  /\ \A n \in 1 .. Len(s.tags) : p[n] = Put(s, p[n - 1], s.tags[n])
  /\ pad = 0 => m = 0
  /\ Packed(s, fill, pad) =
       [i \in 1 .. FinalSize(s) + m |-> IF i <= FinalSize(s) THEN p[Len(s.tags)][i] ELSE fill]

LEMMA PackedSteps ==
  ASSUME NEW s \in FullSchema, NEW strict \in BOOLEAN, Packs(s, strict),
         NEW fill \in 0 .. 255, NEW pad \in Nat
  PROVE  \E p, m : PackedBy(s, fill, pad, p, m)
<1> DEFINE N == Len(s.tags)
           M == FinalSize(s)
           B == [1 .. M -> 0 .. 255]
           b == [i \in 1 .. M |-> fill]
           Step(p, n) == IF n = 0 THEN b ELSE Put(s, p[n - 1], s.tags[n])
           put == CHOOSE f : f = [n \in 0 .. N |-> Step(f, n)]
           G == [p \in (1 .. N) \X B |-> Put(s, p[2], s.tags[p[1]])]
           size == IF pad = 0 THEN M ELSE ((M + pad - 1) \div pad) * pad
<1>1. N \in Nat /\ \A i \in 1 .. N : s.tags[i] \in TagsOf(s)
  BY FullFields, LenProperties DEF TagsOf
<1>2. M \in Nat
  BY FinalSizeIsNat DEF Packs
<1>3. Packed(s, fill, pad) = put[N] \o [i \in 1 .. size - M |-> fill]
  BY DEF Packed
<1>4. size - M \in Int
  <2> HIDE DEF M
  <2>1. CASE pad = 0
    BY <1>2, <2>1
  <2>2. CASE pad # 0
    <3>1. (M + pad - 1) \div pad \in Int
      BY <1>2, <2>2
    <3>2. ((M + pad - 1) \div pad) * pad \in Int
      BY <3>1
    <3> QED
      BY <1>2, <2>2, <3>2
  <2> QED
    BY <2>1, <2>2
<1> HIDE DEF size
<1>5. b \in B
  OBVIOUS
<1>6. \A i \in 1 .. N, p \in B : Put(s, p, s.tags[i]) \in B
  <2> SUFFICES ASSUME NEW i \in 1 .. N, NEW p \in B PROVE Put(s, p, s.tags[i]) \in B
    OBVIOUS
  <2>1. s.tags[i] \in TagsOf(s)
    BY <1>1
  <2>2. Images(B)
    BY <1>2 DEF Images
  <2> HIDE DEF N, M, B
  <2> QED
    BY <2>1, <2>2, PutType
<1> HIDE DEF b, M, B, N
<1>7. \E f : f = [n \in 0 .. N |-> Step(f, n)]
  <2>1. \A i \in 1 .. N, p \in B : G[<<i, p>>] = Put(s, p, s.tags[i])
    OBVIOUS
  <2>2. G \in [(1 .. N) \X B -> B]
    BY <1>6
  <2> HIDE DEF G
  <2>3. PICK f \in [0 .. N -> B] : f[0] = b /\ \A i \in 1 .. N : f[i] = G[<<i, f[i - 1]>>]
    <3>1. Stepwise(G, N, B, b)
      BY <1>1, <1>5, <2>2 DEF Stepwise
    <3> QED
      BY <3>1, Iterates
  <2>4. ASSUME NEW n \in 0 .. N PROVE f[n] = Step(f, n)
    <3>1. CASE n = 0
      BY <2>3, <3>1
    <3>2. CASE n # 0
      <4>1. n \in 1 .. N /\ f[n - 1] \in B
        BY <1>1, <3>2
      <4>2. f[n] = G[<<n, f[n - 1]>>]
        BY <2>3, <4>1
      <4>3. G[<<n, f[n - 1]>>] = Put(s, f[n - 1], s.tags[n])
        BY <2>1, <4>1
      <4> QED
        BY <3>2, <4>2, <4>3
    <3> QED
      BY <3>1, <3>2
  <2> QED
    BY <2>4
<1> HIDE DEF Step
<1>8. put = [n \in 0 .. N |-> Step(put, n)]
  BY <1>7
<1> HIDE DEF put
<1>9. put[0] = b /\ \A n \in 1 .. N : put[n] = Put(s, put[n - 1], s.tags[n])
  <2>1. 0 \in 0 .. N /\ \A n \in 1 .. N : n \in 0 .. N /\ n # 0
    BY <1>1
  <2> QED
    BY <1>8, <2>1 DEF Step
<1> DEFINE T == {n \in 0 .. N : put[n] \in B}
<1>10. \A n \in 0 .. N : n \in T
  <2>1. 0 \in T /\ \A n \in 1 .. N : n - 1 \in T => n \in T
    BY <1>1, <1>5, <1>6, <1>9
  <2> HIDE DEF T
  <2> QED
    BY <1>1, <2>1, Climb
<1>11. put \in [0 .. N -> B] /\ put[N] \in B
  <2>1. \A n \in 0 .. N : put[n] \in B
    BY <1>10
  <2>2. put = [n \in 0 .. N |-> put[n]]
    BY <1>8
  <2> QED
    BY <1>1, <2>1, <2>2
<1> DEFINE z == [i \in 1 .. size - M |-> fill]
           m == IF size - M < 0 THEN 0 ELSE size - M
<1>12. m \in Nat /\ z \in Seq(0 .. 255) /\ Len(z) = m /\ \A i \in 1 .. m : z[i] = fill
  <2>1. z \in Seq(0 .. 255) /\ (size - M \in Nat => Len(z) = size - M)
    BY <1>4, StretchIsSeq
  <2>2. CASE size - M < 0
    <3>1. z = <<>> /\ m = 0
      BY <1>4, <2>2
    <3> HIDE DEF z, m
    <3>2. Len(z) = 0
      BY <3>1, EmptySeq
    <3> QED
      BY <2>1, <3>1, <3>2
  <2>3. CASE ~(size - M < 0)
    BY <1>4, <2>1, <2>3
  <2> QED
    BY <2>2, <2>3
<1>13. pad = 0 => m = 0
  BY <1>2 DEF size
<1> HIDE DEF z, m
<1>14. put[N] \in Seq(0 .. 255) /\ Len(put[N]) = M
  BY <1>2, <1>11, FunctionIsSeq DEF B
<1>15. put[N] \o z = [i \in 1 .. M + m |-> IF i <= M THEN put[N][i] ELSE fill]
  <2> DEFINE q == put[N] \o z
  <2>1. q \in Seq(0 .. 255) /\ Len(q) = M + m
    BY <1>12, <1>14, ConcatProperties
  <2>2. \A i \in 1 .. M + m : q[i] = IF i <= M THEN put[N][i] ELSE z[i - M]
    BY <1>12, <1>14, ConcatProperties
  <2>3. \A i \in 1 .. M + m : ~(i <= M) => i - M \in 1 .. m
    BY <1>2, <1>12
  <2> HIDE DEF q
  <2>4. q = [i \in 1 .. M + m |-> q[i]]
    BY <2>1, LenProperties
  <2> QED
    BY <1>12, <2>2, <2>3, <2>4 DEF q
<1>16. /\ put[0] = [i \in 1 .. M |-> fill]
       /\ \A n \in 1 .. N : put[n] = Put(s, put[n - 1], s.tags[n])
       /\ Packed(s, fill, pad) = [i \in 1 .. M + m |-> IF i <= M THEN put[N][i] ELSE fill]
  BY <1>3, <1>9, <1>15 DEF b, z
<1>17. put \in [0 .. N -> [1 .. M -> 0 .. 255]]
  BY <1>11 DEF B
<1> QED
  BY <1>12, <1>13, <1>16, <1>17 DEF N, M, PackedBy

LEMMA PackedType ==
  ASSUME NEW s \in FullSchema, NEW strict \in BOOLEAN, Packs(s, strict),
         NEW fill \in 0 .. 255, NEW pad \in Nat
  PROVE  Packed(s, fill, pad) \in Seq(0 .. 255)
<1> DEFINE N == Len(s.tags)
           M == FinalSize(s)
<1>1. N \in Nat /\ M \in Nat
  BY FullFields, LenProperties, FinalSizeIsNat DEF Packs
<1>2. PICK p, m : PackedBy(s, fill, pad, p, m)
  BY PackedSteps
<1>0. /\ p \in [0 .. N -> [1 .. M -> 0 .. 255]] /\ m \in Nat
      /\ Packed(s, fill, pad) = [i \in 1 .. M + m |-> IF i <= M THEN p[N][i] ELSE fill]
  BY <1>2 DEF PackedBy
<1> HIDE DEF N, M
<1>3. p[N] \in [1 .. M -> 0 .. 255] /\ M + m \in Nat
  BY <1>0, <1>1
<1>4. Packed(s, fill, pad) \in [1 .. M + m -> 0 .. 255]
  BY <1>0, <1>1, <1>3
<1> QED
  BY <1>3, <1>4, FunctionIsSeq

----------------------------------------------------------------------------
(* Every command *)

LEMMA SchemasInitial == Init => Inv
<1> SUFFICES ASSUME Init PROVE Inv
  OBVIOUS
<1>1. EmptySchema \in SchemaType
  BY EmptyType DEF FullSchema
<1>2. file \in [there : BOOLEAN, schema : SchemaType]
  <2>1. CASE file = NoFile
    BY <1>1, <2>1 DEF NoFile
  <2>2. CASE file # NoFile
    <3>1. PICK s \in HandWritten : file = [there |-> TRUE, schema |-> s]
      BY <2>2 DEF Init
    <3>2. s \in SchemaType
      BY FilesAssumption
    <3> QED
      BY <3>1, <3>2
  <2> QED
    BY <2>1, <2>2
<1>3. image \in [there : BOOLEAN, data : Seq(0 .. 255), schema : SchemaType, fill : 0 .. 255]
  <2>1. image = [there |-> FALSE, data |-> <<>>, schema |-> EmptySchema, fill |-> 0]
    BY DEF Init, NoImage
  <2>2. <<>> \in Seq(0 .. 255) /\ 0 \in 0 .. 255 /\ FALSE \in BOOLEAN
    BY EmptySeq
  <2> QED
    BY <1>1, <2>1, <2>2
<1>4. commands \in 0 .. MaxCommands
  BY OptionsAssumption DEF Init
<1> QED
  BY <1>2, <1>3, <1>4 DEF Init, Inv, TypeOK, SavedLoads

LEMMA PackKeeps ==
  ASSUME Inv, NEW fill \in Fills, NEW pad \in Pads, NEW strict \in BOOLEAN, NEW db \in DBFlags,
         Pack(fill, pad, strict, db)
  PROVE  /\ image' \in [there : BOOLEAN, data : Seq(0 .. 255), schema : SchemaType, fill : 0 .. 255]
         /\ UNCHANGED <<file, byCommand>>
<1> DEFINE s == Load(file, db)
<1>1. fill \in 0 .. 255 /\ pad \in Nat /\ db \in Nat \cup {Absent}
  BY OptionsAssumption
<1>2. s \in FullSchema
  BY <1>1, LoadType DEF Inv, TypeOK
<1>3. Packs(s, strict) /\ UNCHANGED <<file, byCommand>>
      /\ image' = [there |-> TRUE, data |-> Packed(s, fill, pad), schema |-> s, fill |-> fill]
  BY DEF Pack
<1> HIDE DEF s
<1>4. Packed(s, fill, pad) \in Seq(0 .. 255)
  BY <1>1, <1>2, <1>3, PackedType
<1>5. s \in SchemaType
  BY <1>2 DEF FullSchema
<1> QED
  BY <1>1, <1>3, <1>4, <1>5

LEMMA SchemasKept == Inv /\ [Next]_vars => Inv'
<1> SUFFICES ASSUME Inv, [Next]_vars PROVE Inv'
  OBVIOUS
<1>1. FileInv /\ image.data \in Seq(0 .. 255)
  BY DEF Inv, TypeOK, FileInv
<1>2. CASE UNCHANGED vars
  BY <1>2 DEF vars, Inv, TypeOK, SavedLoads
<1>3. CASE Next
  <2>1. commands' \in 0 .. MaxCommands
    <3>1. commands \in 0 .. MaxCommands /\ commands < MaxCommands /\ commands' = commands + 1
      BY <1>3 DEF Next, Inv, TypeOK
    <3> QED
      BY <3>1, OptionsAssumption
  <2> PICK db \in DBFlags :
        \/ \E isReset, force, merge, strict \in BOOLEAN, size \in Sizes,
              from \in {<<>>} \cup {<<s>> : s \in Externals} :
             InitLike(isReset, force, from, merge, size, strict, db)
        \/ \E tags \in Additions, force \in BOOLEAN : Add(tags, force, db)
        \/ \E key \in Keys, change \in Changes, force \in BOOLEAN : Set(key, change, force, db)
        \/ \E key \in Keys, strict \in BOOLEAN : Remove({key}, strict, db)
        \/ \E fill \in Fills, pad \in Pads, strict \in BOOLEAN : Pack(fill, pad, strict, db)
        \/ \E withTemplate \in BOOLEAN : Unpack(withTemplate, db)
    BY <1>3 DEF Next
  <2>2. ASSUME FileInv', image' = image PROVE Inv'
    BY <2>1, <2>2 DEF Inv, TypeOK, FileInv
  <2>3. CASE \E isReset, force, merge, strict \in BOOLEAN, size \in Sizes,
                from \in {<<>>} \cup {<<s>> : s \in Externals} :
               InitLike(isReset, force, from, merge, size, strict, db)
    BY <1>1, <2>2, <2>3, InitLikeKeeps
  <2>4. CASE \E tags \in Additions, force \in BOOLEAN : Add(tags, force, db)
    BY <1>1, <2>2, <2>4, AddKeeps
  <2>5. CASE \E key \in Keys, change \in Changes, force \in BOOLEAN : Set(key, change, force, db)
    BY <1>1, <2>2, <2>5, SetKeeps
  <2>6. CASE \E key \in Keys, strict \in BOOLEAN : Remove({key}, strict, db)
    BY <1>1, <2>2, <2>6, RemoveKeeps
  <2>7. CASE \E fill \in Fills, pad \in Pads, strict \in BOOLEAN : Pack(fill, pad, strict, db)
    <3>1. /\ image' \in [there : BOOLEAN, data : Seq(0 .. 255), schema : SchemaType, fill : 0 .. 255]
          /\ UNCHANGED <<file, byCommand>>
      BY <2>7, PackKeeps
    <3> QED
      BY <2>1, <3>1 DEF Inv, TypeOK, SavedLoads
  <2>8. CASE \E withTemplate \in BOOLEAN : Unpack(withTemplate, db)
    BY <1>1, <2>2, <2>8, UnpackKeeps
  <2> QED
    BY <2>3, <2>4, <2>5, <2>6, <2>7, <2>8
<1> QED
  BY <1>2, <1>3

(* The file and the image are typed, and every command loads a file that a    *)
(* command has written, whatever options, hand-written files and kills there  *)
(* were (SchemaFile.Save, schema.Load).                                       *)
THEOREM SavedFilesLoad == Spec => []Inv
<1> QED
  BY SchemasInitial, SchemasKept, PTL DEF Spec

(* Against whatever schema the file holds, a script that compiles does not     *)
(* fail with a type error (Compile, evalBinary, Image.Set).                   *)
THEOREM ScriptsOfSchemasSound == Spec => []CompiledNeverFails
<1>1. Inv => CompiledNeverFails
  <2> SUFFICES ASSUME Inv, NEW sc \in Scripts, NEW db \in DBFlags,
                      LiteralsFit(sc), Compiles(sc, Load(file, db).tags)
               PROVE  "failure" \notin Outcomes(sc, Load(file, db).tags)
    BY DEF CompiledNeverFails
  <2> DEFINE tags == Load(file, db).tags
  <2>1. Load(file, db) \in FullSchema
    BY OptionsAssumption, LoadType DEF Inv, TypeOK
  <2>2. Len(tags) \in Nat
    BY <2>1, FullFields, LenProperties
  <2>3. IsScript(sc)
    BY ScriptsAssumption
  <2> HIDE DEF tags
  <2> QED
    BY <2>2, <2>3, ScriptsSound DEF tags
<1> QED
  BY <1>1, SavedFilesLoad, PTL

----------------------------------------------------------------------------
(* Bits of a byte *)

(* A byte and its bits.                                                      *)
Bits == [0 .. 7 -> {0, 1}]
ByteOf(b) == b[0] + 2 * b[1] + 4 * b[2] + 8 * b[3] + 16 * b[4] + 32 * b[5] + 64 * b[6] + 128 * b[7]

LEMMA Bit ==
  ASSUME NEW b \in Bits
  PROVE  /\ b[0] \in {0, 1} /\ b[1] \in {0, 1} /\ b[2] \in {0, 1} /\ b[3] \in {0, 1}
         /\ b[4] \in {0, 1} /\ b[5] \in {0, 1} /\ b[6] \in {0, 1} /\ b[7] \in {0, 1}
BY DEF Bits

LEMMA ByteIsInt == \A b \in Bits : ByteOf(b) \in Int
BY Bit DEF ByteOf

LEMMA BitsOfByte ==
  ASSUME NEW byte \in 0 .. 255
  PROVE  \E b \in Bits : byte = ByteOf(b)
<1> DEFINE b == [i \in 0 .. 7 |-> (byte \div Mask(i)) % 2]
<1>1. /\ b[0] = (byte % 2) /\ b[1] = (byte \div 2) % 2 /\ b[2] = (byte \div 4) % 2
      /\ b[3] = (byte \div 8) % 2 /\ b[4] = (byte \div 16) % 2 /\ b[5] = (byte \div 32) % 2
      /\ b[6] = (byte \div 64) % 2 /\ b[7] = (byte \div 128) % 2
  BY DEF Mask
<1>2. byte = (byte % 2) + 2 * ((byte \div 2) % 2) + 4 * ((byte \div 4) % 2) + 8 * ((byte \div 8) % 2)
             + 16 * ((byte \div 16) % 2) + 32 * ((byte \div 32) % 2) + 64 * ((byte \div 64) % 2)
             + 128 * ((byte \div 128) % 2)
  OBVIOUS
<1>3. /\ (byte % 2) \in {0, 1} /\ (byte \div 2) % 2 \in {0, 1} /\ (byte \div 4) % 2 \in {0, 1}
      /\ (byte \div 8) % 2 \in {0, 1} /\ (byte \div 16) % 2 \in {0, 1}
      /\ (byte \div 32) % 2 \in {0, 1} /\ (byte \div 64) % 2 \in {0, 1}
      /\ (byte \div 128) % 2 \in {0, 1}
  OBVIOUS
<1>4. b = [i \in 0 .. 7 |-> b[i]]
  OBVIOUS
<1> HIDE DEF b
<1>5. \A i \in 0 .. 7 : b[i] \in {0, 1}
  BY <1>1, <1>3
<1>6. b \in Bits
  BY <1>4, <1>5 DEF Bits
<1>7. byte = ByteOf(b)
  BY <1>1, <1>2 DEF ByteOf
<1> QED
  BY <1>6, <1>7

LEMMA BitsAre ==
  ASSUME NEW b \in Bits, NEW k \in 0 .. 7
  PROVE  BitIs(ByteOf(b), k) = (b[k] = 1)
<1> DEFINE byte == ByteOf(b)
<1>1. /\ (byte \div 1) % 2 = b[0] /\ (byte \div 2) % 2 = b[1] /\ (byte \div 4) % 2 = b[2]
      /\ (byte \div 8) % 2 = b[3] /\ (byte \div 16) % 2 = b[4] /\ (byte \div 32) % 2 = b[5]
      /\ (byte \div 64) % 2 = b[6] /\ (byte \div 128) % 2 = b[7]
  BY Bit DEF ByteOf
<1>2. /\ Mask(0) = 1 /\ Mask(1) = 2 /\ Mask(2) = 4 /\ Mask(3) = 8
      /\ Mask(4) = 16 /\ Mask(5) = 32 /\ Mask(6) = 64 /\ Mask(7) = 128
  BY DEF Mask
<1> HIDE DEF byte
<1>3. (byte \div Mask(k)) % 2 = b[k]
  BY <1>1, <1>2
<1>4. BitIs(byte, k) = (b[k] = 1)
  BY <1>3 DEF BitIs
<1> QED
  BY <1>4 DEF byte

LEMMA WithBitIs ==
  ASSUME NEW byte \in 0 .. 255, NEW k \in 0 .. 7, NEW v \in {0, 1}, NEW l \in 0 .. 7
  PROVE  /\ l = k => (BitIs(WithBit(byte, k, v), l) <=> v = 1)
         /\ l # k => (BitIs(WithBit(byte, k, v), l) <=> BitIs(byte, l))
<1>1. PICK b \in Bits : byte = ByteOf(b)
  BY BitsOfByte
<1> DEFINE c == [b EXCEPT ![k] = v]
<1>2. c \in Bits /\ c[l] = IF l = k THEN v ELSE b[l]
  BY DEF Bits
<1>3. WithBit(byte, k, v) = ByteOf(c)
  <2>1. /\ Mask(0) = 1 /\ Mask(1) = 2 /\ Mask(2) = 4 /\ Mask(3) = 8
        /\ Mask(4) = 16 /\ Mask(5) = 32 /\ Mask(6) = 64 /\ Mask(7) = 128
    BY DEF Mask
  <2>2. /\ b[k] = v => ByteOf(c) = ByteOf(b)
        /\ b[k] = 0 /\ v = 1 => ByteOf(c) = ByteOf(b) + Mask(k)
        /\ b[k] = 1 /\ v = 0 => ByteOf(c) = ByteOf(b) - Mask(k)
    <3>1. /\ c[0] = (IF k = 0 THEN v ELSE b[0]) /\ c[1] = (IF k = 1 THEN v ELSE b[1])
          /\ c[2] = (IF k = 2 THEN v ELSE b[2]) /\ c[3] = (IF k = 3 THEN v ELSE b[3])
          /\ c[4] = (IF k = 4 THEN v ELSE b[4]) /\ c[5] = (IF k = 5 THEN v ELSE b[5])
          /\ c[6] = (IF k = 6 THEN v ELSE b[6]) /\ c[7] = (IF k = 7 THEN v ELSE b[7])
      BY DEF Bits
    <3> HIDE DEF c
    <3>2. /\ v \in Int /\ b[0] \in Int /\ b[1] \in Int /\ b[2] \in Int /\ b[3] \in Int
          /\ b[4] \in Int /\ b[5] \in Int /\ b[6] \in Int /\ b[7] \in Int
      BY Bit
    <3>3. CASE k = 0
      <4>1. ByteOf(c) = ByteOf(b) - 1 * b[0] + 1 * v
        BY <3>1, <3>2, <3>3 DEF ByteOf
      <4> QED
        BY <2>1, <3>2, <3>3, <4>1, ByteIsInt
    <3>4. CASE k = 1
      <4>1. ByteOf(c) = ByteOf(b) - 2 * b[1] + 2 * v
        BY <3>1, <3>2, <3>4 DEF ByteOf
      <4> QED
        BY <2>1, <3>2, <3>4, <4>1, ByteIsInt
    <3>5. CASE k = 2
      <4>1. ByteOf(c) = ByteOf(b) - 4 * b[2] + 4 * v
        BY <3>1, <3>2, <3>5 DEF ByteOf
      <4> QED
        BY <2>1, <3>2, <3>5, <4>1, ByteIsInt
    <3>6. CASE k = 3
      <4>1. ByteOf(c) = ByteOf(b) - 8 * b[3] + 8 * v
        BY <3>1, <3>2, <3>6 DEF ByteOf
      <4> QED
        BY <2>1, <3>2, <3>6, <4>1, ByteIsInt
    <3>7. CASE k = 4
      <4>1. ByteOf(c) = ByteOf(b) - 16 * b[4] + 16 * v
        BY <3>1, <3>2, <3>7 DEF ByteOf
      <4> QED
        BY <2>1, <3>2, <3>7, <4>1, ByteIsInt
    <3>8. CASE k = 5
      <4>1. ByteOf(c) = ByteOf(b) - 32 * b[5] + 32 * v
        BY <3>1, <3>2, <3>8 DEF ByteOf
      <4> QED
        BY <2>1, <3>2, <3>8, <4>1, ByteIsInt
    <3>9. CASE k = 6
      <4>1. ByteOf(c) = ByteOf(b) - 64 * b[6] + 64 * v
        BY <3>1, <3>2, <3>9 DEF ByteOf
      <4> QED
        BY <2>1, <3>2, <3>9, <4>1, ByteIsInt
    <3>10. CASE k = 7
      <4>1. ByteOf(c) = ByteOf(b) - 128 * b[7] + 128 * v
        BY <3>1, <3>2, <3>10 DEF ByteOf
      <4> QED
        BY <2>1, <3>2, <3>10, <4>1, ByteIsInt
    <3>11. k \in {0, 1, 2, 3, 4, 5, 6, 7}
      OBVIOUS
    <3> QED
      BY <3>3, <3>4, <3>5, <3>6, <3>7, <3>8, <3>9, <3>10, <3>11
  <2>3. BitIs(byte, k) = (b[k] = 1) /\ b[k] \in {0, 1}
    BY <1>1, BitsAre DEF Bits
  <2> HIDE DEF c
  <2>4. CASE b[k] = v
    <3>1. BitIs(byte, k) = (v = 1)
      BY <2>3, <2>4
    <3> QED
      BY <1>1, <2>2, <2>4, <3>1 DEF WithBit
  <2>5. CASE b[k] # v
    <3>1. BitIs(byte, k) # (v = 1)
      BY <2>3, <2>5
    <3> QED
      BY <1>1, <2>2, <2>3, <2>5, <3>1 DEF WithBit
  <2> QED
    BY <2>4, <2>5
<1> HIDE DEF c
<1>4. BitIs(ByteOf(c), l) = (c[l] = 1) /\ BitIs(ByteOf(b), l) = (b[l] = 1)
  BY <1>2, BitsAre
<1> QED
  BY <1>1, <1>2, <1>3, <1>4

----------------------------------------------------------------------------
(* Tags in an image *)

(* Bits are for BOOL alone, as check --strict demands.                        *)
Aligned(s, t) == (t.type.name = "BOOL") = (Parsed(t.addr, s.db).area \in BitAreas)

LEMMA Extent ==
  ASSUME NEW s \in FullSchema, NEW strict \in BOOLEAN, Builds(s, strict), NEW t \in TagsOf(s),
         Aligned(s, t)
  PROVE  /\ ByteOffset(s, t) \in Nat /\ SizeBytes(t) \in Nat /\ SizeBytes(t) > 0
         /\ t.type.name = "BOOL" =>
              /\ BitOf(s, t) \in 0 .. 7
              /\ TagStart(s, t) = 8 * ByteOffset(s, t) + BitOf(s, t)
              /\ TagEnd(s, t) = 8 * ByteOffset(s, t) + BitOf(s, t) + 1
         /\ t.type.name # "BOOL" =>
              /\ TagStart(s, t) = 8 * ByteOffset(s, t)
              /\ TagEnd(s, t) = 8 * (ByteOffset(s, t) + SizeBytes(t))
<1> DEFINE a == Parsed(t.addr, s.db)
<1>1. Parses(t.addr, s.db) /\ TypeParses(t)
  BY DEF Builds
<1>2. SizeBytes(t) \in Nat /\ SizeBytes(t) > 0
  BY <1>1, SizeCases, SizeIsNat
<1>3. a.byte \in Nat /\ a.bit \in Nat
  <2>1. t.addr \in Written /\ t.addr.db # Absent
    BY Placed DEF FullTag, TagType
  <2>2. a \in [db : Nat, area : Areas \cup {"Q", "?"}, byte : Nat, bit : Nat]
    BY <2>1, FullFields, CanonicalType
  <2> HIDE DEF a
  <2> QED
    BY <2>2
<1>4. a.area = t.addr.area /\ a.bit = IF t.addr.bit = Absent THEN 0 ELSE t.addr.bit
  BY DEF Parsed
<1>5. a.area \in BitAreas => a.bit \in 0 .. 7 /\ a.area \notin StringAreas
  BY <1>1, <1>4 DEF Parses, BitFits, BitAreas, StringAreas, Absent
<1>6. a.area \notin BitAreas => a.area \in StringAreas \/ a.bit = 0
  BY <1>1, <1>4 DEF Parses, BitFits
<1>7. TagStart(s, t) = (IF a.area \in StringAreas THEN 8 * a.byte ELSE 8 * a.byte + a.bit)
      /\ BitOf(s, t) = a.bit /\ ByteOffset(s, t) = TagStart(s, t) \div 8
  BY DEF TagStart, StartBit, BitOf, ByteOffset
<1>8. TagEnd(s, t) = TagStart(s, t) + IF t.type.name = "BOOL" THEN 1 ELSE 8 * SizeBytes(t)
  BY DEF TagEnd, BitSize
<1>9. (t.type.name = "BOOL") = (a.area \in BitAreas)
  BY DEF Aligned
<1> HIDE DEF a
<1>10. CASE t.type.name = "BOOL"
  <2>1. a.bit \in 0 .. 7 /\ TagStart(s, t) = 8 * a.byte + a.bit
    BY <1>5, <1>7, <1>9, <1>10
  <2>2. ByteOffset(s, t) = a.byte
    BY <1>3, <1>7, <2>1
  <2> QED
    BY <1>2, <1>3, <1>7, <1>8, <1>10, <2>1, <2>2
<1>11. CASE t.type.name # "BOOL"
  <2>1. TagStart(s, t) = 8 * a.byte
    BY <1>3, <1>6, <1>7, <1>9, <1>11
  <2>2. ByteOffset(s, t) = a.byte
    BY <1>3, <1>7, <2>1
  <2> QED
    BY <1>2, <1>3, <1>7, <1>8, <1>11, <2>1, <2>2
<1> QED
  BY <1>10, <1>11

(* Its bytes, or its bit, are in the image.                                   *)
LEMMA Fits ==
  ASSUME NEW s \in FullSchema, NEW strict \in BOOLEAN, Packs(s, strict), NEW t \in TagsOf(s),
         Aligned(s, t)
  PROVE  FinalSize(s) \in Nat /\ ByteOffset(s, t) + SizeBytes(t) <= FinalSize(s)
<1>1. Builds(s, strict)
  BY DEF Packs
<1>2. FinalSize(s) \in Nat
  BY <1>1, FinalSizeIsNat
<1>3. CASE t.type.name = "BOOL"
  <2> DEFINE off == ByteOffset(s, t)
             M == FinalSize(s)
             k == BitOf(s, t)
  <2>1. off \in Nat /\ k \in 0 .. 7 /\ TagEnd(s, t) = 8 * off + k + 1
    BY <1>1, <1>3, Extent
  <2>2. TagEnd(s, t) <= 8 * M
    BY <1>1, FinalSizeIsNat
  <2>3. SizeBytes(t) = 1
    BY <1>1, <1>3, SizeCases DEF Builds
  <2> HIDE DEF off, M, k
  <2>4. M \in Nat
    BY <1>2 DEF M
  <2>5. off + 1 <= M
    BY <2>1, <2>2, <2>4
  <2> QED
    BY <2>3, <2>4, <2>5 DEF off, M
<1>4. CASE t.type.name # "BOOL"
  BY <1>2, <1>4 DEF Packs
<1> QED
  BY <1>3, <1>4

(* The bytes of a tag, or its bit, say its initial value.                     *)
Stands(s, t, bytes) ==
  LET off == ByteOffset(s, t)
  IN  IF t.type.name = "BOOL" THEN BitIs(bytes[off + 1], BitOf(s, t)) <=> IsTrue(t.init)
      ELSE \A k \in 1 .. SizeBytes(t) : bytes[off + k] = Encoded(t, t.init, s.endian)[k]

Clear(s, t, u) == TagEnd(s, u) <= TagStart(s, t) \/ TagEnd(s, t) <= TagStart(s, u)

InitBit(t) == IF IsTrue(t.init) THEN 1 ELSE 0

LEMMA PutBit ==
  ASSUME NEW s \in FullSchema, NEW t \in TagsOf(s), t.type.name = "BOOL", FinalSize(s) \in Nat,
         NEW bytes \in [1 .. FinalSize(s) -> 0 .. 255], NEW i \in 1 .. FinalSize(s)
  PROVE  /\ i = ByteOffset(s, t) + 1 =>
              Put(s, bytes, t)[i] = WithBit(bytes[i], BitOf(s, t), InitBit(t))
         /\ i # ByteOffset(s, t) + 1 => Put(s, bytes, t)[i] = bytes[i]
<1> DEFINE off == ByteOffset(s, t)
           w(b) == WithBit(b, BitOf(s, t), InitBit(t))
<1>1. Put(s, bytes, t) = [bytes EXCEPT ![off + 1] = w(bytes[off + 1])]
  BY DEF Put, InitBit
<1> DEFINE M == FinalSize(s)
<1> HIDE DEF w, off, M
<1>2. /\ i = off + 1 => Put(s, bytes, t)[i] = w(bytes[i])
      /\ i # off + 1 => Put(s, bytes, t)[i] = bytes[i]
  BY <1>1
<1> QED
  BY <1>2 DEF w, off

LEMMA PutByte ==
  ASSUME NEW s \in FullSchema, NEW strict \in BOOLEAN, Packs(s, strict), NEW t \in TagsOf(s),
         t.type.name # "BOOL", FinalSize(s) \in Nat,
         NEW bytes \in [1 .. FinalSize(s) -> 0 .. 255], NEW i \in 1 .. FinalSize(s)
  PROVE  /\ i - ByteOffset(s, t) \in 1 .. SizeBytes(t) =>
              Put(s, bytes, t)[i] = Encoded(t, t.init, s.endian)[i - ByteOffset(s, t)]
         /\ i - ByteOffset(s, t) \notin 1 .. SizeBytes(t) => Put(s, bytes, t)[i] = bytes[i]
<1> DEFINE off == ByteOffset(s, t)
           e == Encoded(t, t.init, s.endian)
<1>1. t.init \in ValueType /\ TypeParses(t) /\ Encodes(t, t.init)
  BY Placed DEF FullTag, TagType, Packs, Builds
<1>2. Len(e) = SizeBytes(t) /\ Len(bytes) = FinalSize(s)
  BY <1>1, EncodedType, FunctionIsSeq
<1>3. Put(s, bytes, t) = [h \in 1 .. Len(bytes) |-> IF h - off \in 1 .. Len(e) THEN e[h - off] ELSE bytes[h]]
  BY DEF Put
<1> DEFINE M == FinalSize(s)
<1> HIDE DEF e, off, M
<1>4. Put(s, bytes, t)[i] = IF i - off \in 1 .. SizeBytes(t) THEN e[i - off] ELSE bytes[i]
  BY <1>2, <1>3
<1>5. /\ i - off \in 1 .. SizeBytes(t) => Put(s, bytes, t)[i] = e[i - off]
      /\ i - off \notin 1 .. SizeBytes(t) => Put(s, bytes, t)[i] = bytes[i]
  BY <1>4
<1> QED
  BY <1>5 DEF e, off

LEMMA PutStands ==
  ASSUME NEW s \in FullSchema, NEW strict \in BOOLEAN, Packs(s, strict), NEW t \in TagsOf(s),
         Aligned(s, t), NEW bytes \in [1 .. FinalSize(s) -> 0 .. 255]
  PROVE  Stands(s, t, Put(s, bytes, t))
<1> DEFINE off == ByteOffset(s, t)
           M == FinalSize(s)
           p == Put(s, bytes, t)
<1>1. off \in Nat /\ M \in Nat /\ off + SizeBytes(t) <= M /\ SizeBytes(t) \in Nat /\ SizeBytes(t) > 0
  BY Extent, Fits DEF Packs
<1>2. CASE t.type.name = "BOOL"
  <2> DEFINE k == BitOf(s, t)
             v == InitBit(t)
  <2>1. k \in 0 .. 7
    BY <1>2, Extent DEF Packs
  <2>2. off + 1 \in 1 .. M
    BY <1>1
  <2>3. p[off + 1] = WithBit(bytes[off + 1], k, v)
    <3>1. p[off + 1] = WithBit(bytes[off + 1], k, v)
      BY <1>1, <1>2, <2>2, PutBit, Zenon
    <3> HIDE DEF off, M, k, v, p
    <3> QED
      BY <3>1
  <2>4. v \in {0, 1} /\ (v = 1 <=> IsTrue(t.init))
    BY DEF InitBit, IsTrue
  <2> HIDE DEF off, M, k, v, p
  <2>5. bytes[off + 1] \in 0 .. 255
    BY <2>2 DEF M
  <2>6. BitIs(p[off + 1], k) <=> v = 1
    <3>1. BitIs(WithBit(bytes[off + 1], k, v), k) <=> v = 1
      <4> DEFINE b == bytes[off + 1]
      <4>1. b \in 0 .. 255
        BY <2>5
      <4> HIDE DEF b
      <4>2. BitIs(WithBit(b, k, v), k) <=> v = 1
        BY <2>1, <2>4, <4>1, WithBitIs
      <4> QED
        BY <4>2 DEF b
    <3> QED
      BY <2>3, <3>1
  <2> QED
    BY <1>2, <2>4, <2>6 DEF Stands, off, k, p
<1>3. CASE t.type.name # "BOOL"
  <2> SUFFICES ASSUME NEW k \in 1 .. SizeBytes(t) PROVE p[off + k] = Encoded(t, t.init, s.endian)[k]
    BY <1>3 DEF Stands
  <2>1. off + k \in 1 .. M /\ (off + k) - off = k
    BY <1>1
  <2>2. (off + k) - off \in 1 .. SizeBytes(t) =>
          p[off + k] = Encoded(t, t.init, s.endian)[(off + k) - off]
    BY <1>1, <1>3, <2>1, PutByte
  <2> HIDE DEF off, M, p
  <2> QED
    BY <2>1, <2>2
<1> QED
  BY <1>2, <1>3

LEMMA PutLeaves ==
  ASSUME NEW s \in FullSchema, NEW strict \in BOOLEAN, Packs(s, strict), NEW t \in TagsOf(s),
         Aligned(s, t), NEW u \in TagsOf(s), Aligned(s, u),
         Clear(s, t, u), NEW bytes \in [1 .. FinalSize(s) -> 0 .. 255], Stands(s, u, bytes)
  PROVE  Stands(s, u, Put(s, bytes, t))
<1> DEFINE off == ByteOffset(s, t)
           to == ByteOffset(s, u)
           n == SizeBytes(t)
           m == SizeBytes(u)
           M == FinalSize(s)
           p == Put(s, bytes, t)
           k == BitOf(s, t)
           l == BitOf(s, u)
           v == InitBit(t)
<1>0. Builds(s, strict)
  BY DEF Packs
<1>1. /\ off \in Nat /\ n \in Nat /\ n > 0
      /\ t.type.name = "BOOL" => k \in 0 .. 7 /\ TagStart(s, t) = 8 * off + k /\ TagEnd(s, t) = 8 * off + k + 1
      /\ t.type.name # "BOOL" => TagStart(s, t) = 8 * off /\ TagEnd(s, t) = 8 * (off + n)
  BY <1>0, Extent
<1>2. /\ to \in Nat /\ m \in Nat /\ m > 0
      /\ u.type.name = "BOOL" => l \in 0 .. 7 /\ TagStart(s, u) = 8 * to + l /\ TagEnd(s, u) = 8 * to + l + 1
      /\ u.type.name # "BOOL" => TagStart(s, u) = 8 * to /\ TagEnd(s, u) = 8 * (to + m)
  BY <1>0, Extent
<1>3. M \in Nat /\ to + m <= M
  BY Fits
<1>4. t.type.name = "BOOL" =>
        \A i \in 1 .. M : p[i] = IF i = off + 1 THEN WithBit(bytes[i], k, v) ELSE bytes[i]
  <2> SUFFICES ASSUME t.type.name = "BOOL", NEW i \in 1 .. M
               PROVE  p[i] = IF i = off + 1 THEN WithBit(bytes[i], k, v) ELSE bytes[i]
    OBVIOUS
  <2>1. /\ i = off + 1 => p[i] = WithBit(bytes[i], k, v)
        /\ i # off + 1 => p[i] = bytes[i]
    BY <1>3, PutBit, Zenon
  <2> HIDE DEF p, off, k, v, M
  <2> QED
    BY <2>1
<1>5. t.type.name # "BOOL" =>
        \A i \in 1 .. M : i - off \notin 1 .. n => p[i] = bytes[i]
  <2> SUFFICES ASSUME t.type.name # "BOOL", NEW i \in 1 .. M, i - off \notin 1 .. n
               PROVE  p[i] = bytes[i]
    OBVIOUS
  <2> QED
    BY <1>3, PutByte, Zenon
<1>6. \A i \in 1 .. M : bytes[i] \in 0 .. 255
  OBVIOUS
<1>7. u.type.name = "BOOL" /\ (BitIs(p[to + 1], l) <=> BitIs(bytes[to + 1], l)) => Stands(s, u, p)
  BY DEF Stands
<1>8. u.type.name # "BOOL" /\ (\A j \in 1 .. m : p[to + j] = bytes[to + j]) => Stands(s, u, p)
  BY DEF Stands
<1>9. TagEnd(s, u) <= TagStart(s, t) \/ TagEnd(s, t) <= TagStart(s, u)
  BY DEF Clear
<1> HIDE DEF off, to, n, m, M, p, k, l, v
<1>10. off \in Nat /\ n \in Nat /\ n > 0 /\ to \in Nat /\ m \in Nat /\ m > 0
  BY <1>1, <1>2
<1>11. to + 1 \in 1 .. M /\ \A j \in 1 .. m : to + j \in 1 .. M
  BY <1>3, <1>10
<1>12. CASE u.type.name = "BOOL" /\ t.type.name = "BOOL"
  <2>1. k \in 0 .. 7 /\ l \in 0 .. 7 /\ (8 * to + l + 1 <= 8 * off + k \/ 8 * off + k + 1 <= 8 * to + l)
    BY <1>1, <1>2, <1>9, <1>12
  <2>2. CASE to = off
    <3>1. k # l
      BY <1>10, <2>1, <2>2
    <3>2. p[to + 1] = WithBit(bytes[to + 1], k, v)
      BY <1>4, <1>11, <1>12, <2>2
    <3>3. v \in {0, 1}
      BY DEF v, InitBit
    <3>4. bytes[to + 1] \in 0 .. 255
      BY <1>6, <1>11
    <3>5. BitIs(WithBit(bytes[to + 1], k, v), l) <=> BitIs(bytes[to + 1], l)
      <4> DEFINE b == bytes[to + 1]
      <4>1. b \in 0 .. 255
        BY <3>4
      <4> HIDE DEF b
      <4>2. BitIs(WithBit(b, k, v), l) <=> BitIs(b, l)
        BY <2>1, <3>1, <3>3, <4>1, WithBitIs
      <4> QED
        BY <4>2 DEF b
    <3> QED
      BY <1>7, <1>12, <3>2, <3>5 DEF p
  <2>3. CASE to # off
    <3>1. to + 1 # off + 1
      BY <1>10, <2>3
    <3>2. p[to + 1] = bytes[to + 1]
      BY <1>4, <1>11, <1>12, <3>1
    <3> QED
      BY <1>7, <1>12, <3>2 DEF p
  <2> QED
    BY <2>2, <2>3
<1>13. CASE u.type.name = "BOOL" /\ t.type.name # "BOOL"
  <2>1. l \in 0 .. 7 /\ (8 * to + l + 1 <= 8 * off \/ 8 * (off + n) <= 8 * to + l)
    BY <1>1, <1>2, <1>9, <1>13
  <2>2. (to + 1) - off \notin 1 .. n
    BY <1>10, <2>1
  <2>3. p[to + 1] = bytes[to + 1]
    BY <1>5, <1>11, <1>13, <2>2
  <2> QED
    BY <1>7, <1>13, <2>3 DEF p
<1>14. CASE u.type.name # "BOOL" /\ t.type.name = "BOOL"
  <2>1. k \in 0 .. 7 /\ (8 * (to + m) <= 8 * off + k \/ 8 * off + k + 1 <= 8 * to)
    BY <1>1, <1>2, <1>9, <1>14
  <2>2. ASSUME NEW j \in 1 .. m PROVE p[to + j] = bytes[to + j]
    <3>1. to + j # off + 1
      BY <1>10, <2>1
    <3> QED
      BY <1>4, <1>11, <1>14, <3>1
  <2> QED
    BY <1>8, <1>14, <2>2 DEF p
<1>15. CASE u.type.name # "BOOL" /\ t.type.name # "BOOL"
  <2>1. 8 * (to + m) <= 8 * off \/ 8 * (off + n) <= 8 * to
    BY <1>1, <1>2, <1>9, <1>15
  <2>2. ASSUME NEW j \in 1 .. m PROVE p[to + j] = bytes[to + j]
    <3>1. (to + j) - off \notin 1 .. n
      BY <1>10, <2>1
    <3> QED
      BY <1>5, <1>11, <1>15, <3>1
  <2> QED
    BY <1>8, <1>15, <2>2 DEF p
<1> QED
  BY <1>12, <1>13, <1>14, <1>15 DEF p

AllAligned(s) == \A t \in TagsOf(s) : Aligned(s, t)

LEMMA TagsStand ==
  ASSUME NEW s \in FullSchema, NEW strict \in BOOLEAN, Packs(s, strict), AllAligned(s),
         NEW fill \in 0 .. 255, NEW pad \in Nat
  PROVE  \A t \in TagsOf(s) : Stands(s, t, Packed(s, fill, pad))
<1> DEFINE N == Len(s.tags)
           M == FinalSize(s)
           tag(i) == s.tags[i]
<1>1. N \in Nat /\ \A i \in 1 .. N : tag(i) \in TagsOf(s)
  BY FullFields, LenProperties DEF TagsOf
<1>2. PICK p, m : PackedBy(s, fill, pad, p, m)
  BY PackedSteps
<1>3. /\ p \in [0 .. N -> [1 .. M -> 0 .. 255]] /\ m \in Nat
      /\ \A n \in 1 .. N : p[n] = Put(s, p[n - 1], tag(n))
      /\ Packed(s, fill, pad) = [i \in 1 .. M + m |-> IF i <= M THEN p[N][i] ELSE fill]
  BY <1>2 DEF PackedBy
<1>4. \A t \in TagsOf(s) : Aligned(s, t)
  BY DEF AllAligned
<1>5. \A i, j \in 1 .. N : i < j => Clear(s, tag(j), tag(i))
  BY DEF Packs, Builds, NoOverlap, Clear
<1>6. \A n \in 0 .. N : p[n] \in [1 .. M -> 0 .. 255]
  BY <1>3
<1> DEFINE T == {n \in 0 .. N : \A i \in 1 .. n : Stands(s, tag(i), p[n])}
<1>7. ASSUME NEW n \in 1 .. N, n - 1 \in T PROVE n \in T
  <2>1. n - 1 \in 0 .. N /\ n \in 0 .. N /\ p[n] = Put(s, p[n - 1], tag(n))
    <3>1. p[n] = Put(s, p[n - 1], tag(n))
      BY <1>3
    <3>2. n - 1 \in 0 .. N /\ n \in 0 .. N
      <4> HIDE DEF N
      <4> QED
        BY <1>1
    <3> QED
      BY <3>1, <3>2
  <2>2. p[n - 1] \in [1 .. M -> 0 .. 255] /\ tag(n) \in TagsOf(s) /\ Aligned(s, tag(n))
    BY <1>1, <1>4, <1>6, <2>1
  <2>3. ASSUME NEW i \in 1 .. n PROVE Stands(s, tag(i), p[n])
    <3>1. CASE i = n
      <4> DEFINE b == p[n - 1]
                 t == tag(n)
      <4>1. b \in [1 .. FinalSize(s) -> 0 .. 255] /\ t \in TagsOf(s) /\ Aligned(s, t)
        BY <2>2
      <4> HIDE DEF b, t
      <4>2. Stands(s, t, Put(s, b, t))
        BY <4>1, PutStands
      <4> QED
        BY <2>1, <3>1, <4>2 DEF b, t
    <3>2. CASE i # n
      <4> DEFINE b == p[n - 1]
                 t == tag(n)
                 u == tag(i)
      <4>1. i \in 1 .. n - 1 /\ i \in 1 .. N /\ i < n
        BY <1>1, <3>2
      <4>2. b \in [1 .. FinalSize(s) -> 0 .. 255] /\ t \in TagsOf(s) /\ Aligned(s, t)
        BY <2>2
      <4>3. u \in TagsOf(s) /\ Aligned(s, u) /\ Clear(s, t, u) /\ Stands(s, u, b)
        BY <1>1, <1>4, <1>5, <1>7, <4>1
      <4> HIDE DEF b, t, u
      <4>4. Stands(s, u, Put(s, b, t))
        BY <4>2, <4>3, PutLeaves
      <4> QED
        BY <2>1, <4>4 DEF b, t, u
    <3> QED
      BY <3>1, <3>2
  <2> QED
    BY <2>1, <2>3
<1>8. 0 \in T
  BY <1>1
<1>9. \A n \in 0 .. N : n \in T
  <2> HIDE DEF T, N
  <2> QED
    BY <1>1, <1>7, <1>8, Climb
<1>10. \A i \in 1 .. N : Stands(s, tag(i), p[N])
  BY <1>1, <1>9
<1> SUFFICES ASSUME NEW t \in TagsOf(s) PROVE Stands(s, t, Packed(s, fill, pad))
  OBVIOUS
<1> DEFINE q == Packed(s, fill, pad)
           off == ByteOffset(s, t)
<1>11. Stands(s, t, p[N])
  <2>1. PICK i \in 1 .. N : t = tag(i)
    BY DEF TagsOf
  <2> QED
    BY <1>10, <2>1
<1>12. off \in Nat /\ SizeBytes(t) \in Nat /\ SizeBytes(t) > 0 /\ M \in Nat /\ off + SizeBytes(t) <= M
  BY <1>4, Extent, Fits DEF Packs
<1>13. \A i \in 1 .. M : q[i] = p[N][i]
  <2> HIDE DEF M, N
  <2>1. \A i \in 1 .. M : i \in 1 .. M + m /\ i <= M
    BY <1>3, <1>12
  <2> QED
    BY <1>3, <2>1
<1>14. \A k \in 1 .. SizeBytes(t) : off + k \in 1 .. M
  <2> DEFINE n == SizeBytes(t)
  <2>1. off \in Nat /\ n \in Nat /\ M \in Nat /\ off + n <= M
    BY <1>12
  <2> HIDE DEF off, n, M
  <2> QED
    BY <2>1 DEF n
<1>15. off + 1 \in 1 .. M
  <2>1. 1 \in 1 .. SizeBytes(t)
    BY <1>12
  <2> QED
    BY <1>14, <2>1
<1>16. q[off + 1] = p[N][off + 1] /\ \A k \in 1 .. SizeBytes(t) : q[off + k] = p[N][off + k]
  <2> HIDE DEF q, off, M, N
  <2> QED
    BY <1>13, <1>14, <1>15
<1> QED
  <2>1. CASE t.type.name = "BOOL"
    <3>1. BitIs(p[N][off + 1], BitOf(s, t)) <=> IsTrue(t.init)
      BY <1>11, <2>1 DEF Stands
    <3> QED
      BY <1>16, <2>1, <3>1 DEF Stands
  <2>2. CASE t.type.name # "BOOL"
    <3>1. \A k \in 1 .. SizeBytes(t) : p[N][off + k] = Encoded(t, t.init, s.endian)[k]
      BY <1>11, <2>2 DEF Stands
    <3> QED
      BY <1>16, <2>2, <3>1 DEF Stands
  <2> QED
    BY <2>1, <2>2

(* And so a tag reads as it was meant to.                                     *)
LEMMA TagsRead ==
  ASSUME NEW s \in FullSchema, NEW strict \in BOOLEAN, Packs(s, strict), AllAligned(s),
         NEW fill \in 0 .. 255, NEW pad \in Nat, NEW t \in TagsOf(s)
  PROVE  LET data == Packed(s, fill, pad) IN
         IF t.type.name = "BOOL" THEN BitIs(data[ByteOffset(s, t) + 1], BitOf(s, t)) = IsTrue(t.init)
         ELSE Slice(s, t, data) = Encoded(t, t.init, s.endian)
<1> DEFINE data == Packed(s, fill, pad)
           off == ByteOffset(s, t)
           n == SizeBytes(t)
           e == Encoded(t, t.init, s.endian)
           M == FinalSize(s)
<1>1. Stands(s, t, data)
  BY TagsStand
<1>2. off \in Nat /\ n \in Nat /\ n > 0 /\ M \in Nat /\ off + n <= M
  BY Extent, Fits DEF Packs, AllAligned
<1>3. data \in Seq(0 .. 255) /\ Len(data) >= M
  <2>1. PICK p, m : PackedBy(s, fill, pad, p, m)
    BY PackedSteps
  <2>2. m \in Nat /\ data = [i \in 1 .. M + m |-> IF i <= M THEN p[Len(s.tags)][i] ELSE fill]
    BY <2>1 DEF PackedBy
  <2>3. data \in Seq(0 .. 255)
    BY PackedType
  <2>4. DOMAIN data = 1 .. Len(data) /\ DOMAIN data = 1 .. M + m /\ Len(data) \in Nat
    BY <2>2, <2>3, LenProperties
  <2> HIDE DEF data, M
  <2> QED
    BY <1>2, <2>2, <2>3, <2>4
<1>4. CASE t.type.name = "BOOL"
  <2>1. BitIs(data[off + 1], BitOf(s, t)) <=> IsTrue(t.init)
    BY <1>1, <1>4 DEF Stands
  <2>2. IsTrue(t.init) \in BOOLEAN
    <3>1. CASE t.init.kind = "text"
      BY <3>1 DEF IsTrue
    <3>2. CASE t.init.kind # "text"
      BY <3>2 DEF IsTrue
    <3> QED
      BY <3>1, <3>2
  <2>3. \A b, k : BitIs(b, k) \in BOOLEAN
    BY DEF BitIs
  <2> QED
    BY <1>4, <2>1, <2>2, <2>3
<1>5. CASE t.type.name # "BOOL"
  <2>1. \A k \in 1 .. n : data[off + k] = e[k]
    BY <1>1, <1>5 DEF Stands
  <2>2. e \in Seq(0 .. 255) /\ Len(e) = n
    <3>1. t.init \in ValueType /\ TypeParses(t) /\ Encodes(t, t.init)
      BY <1>5, Placed DEF FullTag, TagType, Packs, Builds
    <3> QED
      BY <1>5, <3>1, EncodedType
  <2> DEFINE c == SubSeq(data, off + 1, off + n)
  <2> HIDE DEF data, off, n, e, M
  <2>3. c = [k \in 1 .. n |-> data[off + k]]
    <3>1. (off + n) - (off + 1) + 1 = n /\ \A k \in 1 .. n : off + 1 + k - 1 = off + k
      BY <1>2
    <3>2. off + 1 \in 1 .. Len(data) + 1 /\ off + n \in off .. Len(data)
      BY <1>2, <1>3
    <3> DEFINE B == 0 .. 255
               lo == off + 1
               hi == off + n
    <3>4. lo \in Int /\ hi \in Int /\ lo <= hi /\ hi - lo + 1 = n /\ \A k \in 1 .. n : lo + k - 1 = off + k
      BY <1>2
    <3>5. \A i \in lo .. hi : data[i] \in B
      <4>1. \A i \in lo .. hi : i \in 1 .. Len(data)
        BY <1>2, <1>3, <3>4
      <4>2. data \in Seq(B)
        BY <1>3
      <4> HIDE DEF B, lo, hi
      <4> QED
        BY <4>1, <4>2, ElementOfSeq
    <3>6. c = SubSeq(data, lo, hi)
      BY DEF c
    <3> HIDE DEF B, lo, hi
    <3>7. /\ SubSeq(data, lo, hi) \in Seq(B)
          /\ Len(SubSeq(data, lo, hi)) = IF lo <= hi THEN hi - lo + 1 ELSE 0
          /\ \A i \in 1 .. hi - lo + 1 : SubSeq(data, lo, hi)[i] = data[lo + i - 1]
      <4>1. lo \in Int /\ hi \in Int
        BY <3>4
      <4> QED
        BY <4>1, <3>5, SubSeqProperties
    <3>3. Len(c) = n /\ c \in Seq(B) /\ \A k \in 1 .. n : c[k] = data[off + k]
      BY <3>4, <3>6, <3>7
    <3> QED
      BY <3>3, LenProperties
  <2>4. e = [k \in 1 .. n |-> e[k]]
    BY <2>2, LenProperties
  <2>5. c = e
    BY <2>1, <2>3, <2>4
  <2>6. Slice(s, t, data) = c
    BY DEF Slice, off, n, c
  <2> QED
    BY <1>5, <2>5, <2>6 DEF e, data
<1> QED
  BY <1>4, <1>5

----------------------------------------------------------------------------
(* What an image holds *)

(* The image a command left is that of its schema.                            *)
ImageInv ==
  image.there =>
    /\ image.schema \in FullSchema
    /\ \E strict \in BOOLEAN, pad \in Nat :
         Packs(image.schema, strict) /\ image.data = Packed(image.schema, image.fill, pad)

LEMMA ImageInitial == Init => ImageInv
  BY DEF Init, ImageInv, NoImage

LEMMA ImageKept == Inv /\ ImageInv /\ [Next]_vars => ImageInv'
<1> SUFFICES ASSUME Inv, ImageInv, [Next]_vars PROVE ImageInv'
  OBVIOUS
<1>1. CASE image' = image
  BY <1>1 DEF ImageInv
<1>2. ASSUME NEW fill \in Fills, NEW pad \in Pads, NEW strict \in BOOLEAN, NEW db \in DBFlags,
             Pack(fill, pad, strict, db)
      PROVE  ImageInv'
  <2> DEFINE s == Load(file, db)
  <2>1. pad \in Nat /\ db \in Nat \cup {Absent}
    BY OptionsAssumption
  <2>2. s \in FullSchema
    BY <2>1, LoadType DEF Inv, TypeOK
  <2>3. /\ Packs(s, strict)
        /\ image' = [there |-> TRUE, data |-> Packed(s, fill, pad), schema |-> s, fill |-> fill]
    BY <1>2 DEF Pack
  <2> HIDE DEF s
  <2>4. image'.schema = s /\ image'.fill = fill /\ image'.data = Packed(s, fill, pad)
    BY <2>3
  <2> QED
    BY <2>1, <2>2, <2>3, <2>4 DEF ImageInv
<1>3. CASE UNCHANGED vars
  BY <1>1, <1>3 DEF vars
<1>4. CASE Next
  <2>1. \A s : Save(s) => image' = image
    BY DEF Save
  <2>2. PICK db \in DBFlags :
        \/ \E isReset, force, merge, strict \in BOOLEAN, size \in Sizes,
              from \in {<<>>} \cup {<<s>> : s \in Externals} :
             InitLike(isReset, force, from, merge, size, strict, db)
        \/ \E tags \in Additions, force \in BOOLEAN : Add(tags, force, db)
        \/ \E key \in Keys, change \in Changes, force \in BOOLEAN : Set(key, change, force, db)
        \/ \E key \in Keys, strict \in BOOLEAN : Remove({key}, strict, db)
        \/ \E fill \in Fills, pad \in Pads, strict \in BOOLEAN : Pack(fill, pad, strict, db)
        \/ \E withTemplate \in BOOLEAN : Unpack(withTemplate, db)
    BY <1>4 DEF Next
  <2>3. CASE \E isReset, force, merge, strict \in BOOLEAN, size \in Sizes,
                from \in {<<>>} \cup {<<s>> : s \in Externals} :
               InitLike(isReset, force, from, merge, size, strict, db)
    BY <1>1, <2>1, <2>3 DEF InitLike
  <2>4. CASE \E tags \in Additions, force \in BOOLEAN : Add(tags, force, db)
    BY <1>1, <2>1, <2>4 DEF Add
  <2>5. CASE \E key \in Keys, change \in Changes, force \in BOOLEAN : Set(key, change, force, db)
    BY <1>1, <2>1, <2>5 DEF Set
  <2>6. CASE \E key \in Keys, strict \in BOOLEAN : Remove({key}, strict, db)
    BY <1>1, <2>1, <2>6 DEF Remove
  <2>7. CASE \E fill \in Fills, pad \in Pads, strict \in BOOLEAN : Pack(fill, pad, strict, db)
    BY <1>2, <2>7
  <2>8. CASE \E withTemplate \in BOOLEAN : Unpack(withTemplate, db)
    BY <1>1, <2>1, <2>8 DEF Unpack
  <2> QED
    BY <2>2, <2>3, <2>4, <2>5, <2>6, <2>7, <2>8
<1> QED
  BY <1>3, <1>4

(* What check --strict passes has bits for BOOL, and BOOL for bits.            *)
LEMMA CheckedAligned ==
  ASSUME NEW s \in FullSchema, NEW strict \in BOOLEAN, Packs(s, strict),
         CheckPasses([there |-> TRUE, schema |-> s], Absent, TRUE)
  PROVE  AllAligned(s)
<1> DEFINE f == [there |-> TRUE, schema |-> s]
           r == LoadRaw(f, Absent)
           l == Load(f, Absent)
<1>1. s \in SchemaType /\ s.db \in Nat /\ Len(s.tags) \in Nat
  BY FullFields, LenProperties
<1>2. r.tags = s.tags /\ r.db = s.db
  BY <1>1 DEF LoadRaw, WithDB, SchemaType
<1>3. r \in SchemaType
  BY <1>1, LoadType
<1>4. l.db = s.db /\ l.tags = [i \in 1 .. Len(s.tags) |-> NormalTag(s.tags[i], s.db)]
  BY <1>2, <1>3 DEF Load, Normal, SchemaType
<1>5. AddressOutOfRange(r) = {} /\ Builds(l, TRUE)
  BY DEF CheckPasses
<1> HIDE DEF r, l
<1> SUFFICES ASSUME NEW t \in TagsOf(s)
             PROVE  (t.type.name = "BOOL") = (Parsed(t.addr, s.db).area \in BitAreas)
  BY DEF AllAligned, Aligned
<1>6. Parsed(t.addr, s.db).area = t.addr.area
  BY DEF Parsed
<1>7. CASE t.addr.area \in BitAreas
  <2>1. t \in TagsOf(r) /\ TypeParses(t)
    BY <1>2 DEF TagsOf, Packs, Builds
  <2>2. ~OutOfRange(r, t)
    BY <1>5, <2>1 DEF AddressOutOfRange
  <2>3. ~Misplaced(r, t)
    BY <2>1, <2>2 DEF OutOfRange
  <2>4. Parsed(t.addr, r.db).area = t.addr.area
    BY DEF Parsed
  <2> QED
    BY <1>6, <1>7, <2>3, <2>4 DEF Misplaced
<1>8. CASE t.addr.area \notin BitAreas
  <2> SUFFICES ASSUME t.type.name = "BOOL" PROVE FALSE
    BY <1>6, <1>8
  <2> DEFINE n == NormalTag(t, s.db)
  <2>1. n \in TagsOf(l)
    <3>1. PICK i \in 1 .. Len(s.tags) : t = s.tags[i]
      BY DEF TagsOf
    <3>2. l.tags[i] = n /\ DOMAIN l.tags = 1 .. Len(s.tags)
      BY <1>4, <3>1
    <3>3. Len(l.tags) = Len(s.tags)
      BY <1>1, <1>4
    <3> QED
      BY <3>2, <3>3 DEF TagsOf
  <2>2. ~LayoutDiagnosed(l, n)
    BY <1>5, <2>1 DEF Builds
  <2>3. ExpectedArea(Parsed(n.addr, l.db).area, n.type.name)
    BY <2>2 DEF LayoutDiagnosed
  <2>4. t \in TagType
    BY Placed DEF FullTag
  <2>5. n.type = t.type /\ n.addr = Canonical(Parsed(t.addr, s.db))
    BY <2>4 DEF NormalTag, TagType
  <2>6. Parsed(n.addr, l.db).area = Canonical(Parsed(t.addr, s.db)).area
    BY <2>5 DEF Parsed
  <2>7. Canonical(Parsed(t.addr, s.db)).area = t.addr.area
    BY <1>6, <1>8 DEF Canonical
  <2>8. t.addr.area \in BitAreas
    <3>1. ExpectedArea(t.addr.area, "BOOL")
      BY <2>3, <2>5, <2>6, <2>7
    <3>2. "BOOL" \notin {"CHAR", "BYTE", "STRING[]"} \cup WordTypes \cup DwordTypes \cup {"STRING"}
      BY DEF WordTypes, DwordTypes
    <3> QED
      BY <3>1, <3>2, Zenon DEF ExpectedArea
  <2> QED
    BY <1>8, <2>8
<1> QED
  BY <1>7, <1>8

LEMMA ImagesStand == Inv /\ ImageInv => PackedTagsStand
<1> SUFFICES ASSUME Inv, ImageInv, PackedStrictly, NEW t \in TagsOf(image.schema)
             PROVE  IF t.type.name = "BOOL"
                      THEN BitIs(image.data[ByteOffset(image.schema, t) + 1], BitOf(image.schema, t)) = IsTrue(t.init)
                      ELSE Slice(image.schema, t, image.data) = Encoded(t, t.init, image.schema.endian)
  BY DEF PackedTagsStand
<1> DEFINE s == image.schema
           fill == image.fill
           data == image.data
<1>1. s \in FullSchema /\ CheckPasses([there |-> TRUE, schema |-> s], Absent, TRUE)
  BY DEF ImageInv, PackedStrictly
<1>2. PICK strict \in BOOLEAN, pad \in Nat : Packs(s, strict) /\ data = Packed(s, fill, pad)
  BY DEF ImageInv, PackedStrictly
<1>3. fill \in 0 .. 255
  BY DEF Inv, TypeOK
<1> HIDE DEF s, fill, data
<1>4. AllAligned(s)
  BY <1>1, <1>2, CheckedAligned
<1>5. t \in TagsOf(s)
  BY DEF s
<1>6. IF t.type.name = "BOOL" THEN BitIs(data[ByteOffset(s, t) + 1], BitOf(s, t)) = IsTrue(t.init)
      ELSE Slice(s, t, data) = Encoded(t, t.init, s.endian)
  BY <1>1, <1>2, <1>3, <1>4, <1>5, TagsRead
<1> QED
  BY <1>6 DEF s, data

(* Whatever was packed, if its schema passes check --strict each tag has the   *)
(* bytes of its own initial value (pack.Pack, layout.Build,                   *)
(* layout.AddressOutOfRange).                                                 *)
THEOREM TagsStandInImages == Spec => []PackedTagsStand
<1>1. Init => Inv /\ ImageInv
  BY SchemasInitial, ImageInitial
<1>2. Inv /\ ImageInv /\ [Next]_vars => Inv' /\ ImageInv'
  BY SchemasKept, ImageKept
<1>3. Inv /\ ImageInv => PackedTagsStand
  BY ImagesStand
<1> QED
  BY <1>1, <1>2, <1>3, PTL DEF Spec

----------------------------------------------------------------------------
(* What bytes are decoded to encodes to the same bytes *)

LEMMA SameSequence ==
  ASSUME NEW S, NEW x \in Seq(S), NEW y \in Seq(S), Len(x) = Len(y),
         \A i \in 1 .. Len(x) : x[i] = y[i]
  PROVE  x = y
<1>1. x = [i \in 1 .. Len(x) |-> x[i]] /\ y = [i \in 1 .. Len(x) |-> y[i]]
  BY LenProperties
<1> QED
  BY <1>1

(* Changing the order of bytes twice changes nothing.                         *)
LEMMA OrderedTwice ==
  ASSUME NEW S, NEW x \in Seq(S), NEW endian
  PROVE  Ordered(Ordered(x, endian), endian) = x
<1>1. CASE endian = "little"
  <2> DEFINE n == Len(x)
             y == Reversed(x)
             z == Reversed(y)
  <2>1. n \in Nat /\ \A i \in 1 .. n : n + 1 - i \in 1 .. n /\ n + 1 - (n + 1 - i) = i
    OBVIOUS
  <2>2. y \in Seq(S) /\ Len(y) = n /\ z \in Seq(S) /\ Len(z) = n
    BY <1>1, OrderedType DEF Ordered
  <2>3. y = [i \in 1 .. n |-> x[n + 1 - i]]
    BY DEF Reversed
  <2>4. z = [i \in 1 .. n |-> y[n + 1 - i]]
    BY <2>2 DEF Reversed
  <2> HIDE DEF y, z, n
  <2>5. \A i \in 1 .. n : z[i] = x[i]
    <3> SUFFICES ASSUME NEW i \in 1 .. n PROVE z[i] = x[i]
      OBVIOUS
    <3> DEFINE j == n + 1 - i
    <3>1. j \in 1 .. n /\ n + 1 - j = i
      BY <2>1
    <3>2. z[i] = y[j]
      BY <2>4
    <3> HIDE DEF j
    <3>3. y[j] = x[n + 1 - j]
      BY <2>3, <3>1
    <3> QED
      BY <3>1, <3>2, <3>3
  <2>6. z = x
    BY <2>2, <2>5, SameSequence DEF n
  <2> QED
    BY <1>1, <2>6 DEF Ordered, y, z
<1>2. CASE endian # "little"
  BY <1>2 DEF Ordered
<1> QED
  BY <1>1, <1>2

(* The bytes of the number that four bytes say.                               *)
ByteIn(a) == a \in Int /\ 0 <= a /\ a < 256

LEMMA ByteDiv ==
  ASSUME NEW n \in Int
  PROVE  /\ Byte(n, 0) = n % 256 /\ Byte(n, 1) = (n \div 256) % 256
         /\ Byte(n, 2) = (n \div 65536) % 256 /\ Byte(n, 3) = (n \div 16777216) % 256
<1>1. Byte(n, 0) = (n \div 1) % 256
  BY SMT DEF Byte
<1>2. Byte(n, 1) = (n \div 256) % 256
  BY SMT DEF Byte
<1>3. Byte(n, 2) = (n \div 65536) % 256
  BY SMT DEF Byte
<1>4. Byte(n, 3) = (n \div 16777216) % 256
  BY SMT DEF Byte
<1> QED
  BY <1>1, <1>2, <1>3, <1>4, SMT

LEMMA LowByte ==
  ASSUME NEW p \in Int, NEW a, ByteIn(a), NEW n, n = 256 * p + a
  PROVE  n \in Int /\ Byte(n, 0) = a
<1>1. a \in Int /\ 0 <= a /\ a < 256
  BY DEF ByteIn
<1>2. n \in Int
  BY <1>1, SMT
<1>3. n % 256 = a
  BY <1>1, SMT
<1>4. Byte(n, 0) = n % 256
  BY <1>1, <1>2, ByteDiv, SMT
<1> QED
  BY <1>2, <1>3, <1>4, SMT

LEMMA NextByte ==
  ASSUME NEW p \in Int, NEW a, ByteIn(a), NEW n, n = 256 * p + a
  PROVE  Byte(n, 1) = Byte(p, 0) /\ Byte(n, 2) = Byte(p, 1) /\ Byte(n, 3) = Byte(p, 2)
<1>1. a \in Int /\ 0 <= a /\ a < 256
  BY DEF ByteIn
<1>2. n \in Int
  BY <1>1, SMT
<1>3. n \div 256 = p
  BY <1>1, SMT
<1>4. n \div 65536 = p \div 256
  BY <1>1, <1>2, SMT
<1>5. n \div 16777216 = p \div 65536
  BY <1>1, <1>2, SMT
<1>6. Byte(n, 1) = Byte(p, 0)
  <2>1. Byte(n, 1) = (n \div 256) % 256
    BY <1>1, <1>2, SMT DEF Byte
  <2>2. Byte(p, 0) = p % 256
    BY <1>1, SMT DEF Byte
  <2> QED
    BY <2>1, <2>2, <1>3, SMT
<1>7. Byte(n, 2) = Byte(p, 1)
  <2>1. Byte(n, 2) = (n \div 65536) % 256
    BY <1>1, <1>2, ByteDiv, SMT
  <2>2. Byte(p, 1) = (p \div 256) % 256
    BY <1>1, ByteDiv, SMT
  <2> QED
    BY <2>1, <2>2, <1>4, SMT
<1>8. Byte(n, 3) = Byte(p, 2)
  <2>1. Byte(n, 3) = (n \div 16777216) % 256
    BY <1>1, <1>2, ByteDiv, SMT
  <2>2. Byte(p, 2) = (p \div 65536) % 256
    BY <1>1, ByteDiv, SMT
  <2> QED
    BY <2>1, <2>2, <1>5, SMT
<1> QED
  BY <1>6, <1>7, <1>8, SMT

(* The bytes of a number are those it was read from, signed or not.            *)
LEMMA NumberTrip ==
  ASSUME NEW x \in Seq(0 .. 255), Len(x) \in {1, 2, 4}, NEW signed \in BOOLEAN
  PROVE  IntBytes(NumberOf(x, signed), Len(x)) = x
<1> DEFINE L == Len(x)
           v == NumberOf(x, signed)
<1>1. PICK n : NumberBy(x, signed, n)
  BY NumberSteps
<1>2. /\ n \in [0 .. L -> Int] /\ \A i \in 1 .. L : n[i] = 256 * n[i - 1] + x[i]
      /\ v = IF L = 4 /\ x[1] > 127 /\ ~signed THEN Value("wide", 0, x) ELSE Number(n[L])
  BY <1>1 DEF NumberBy
<1>3. CASE L = 4 /\ x[1] > 127 /\ ~signed
  <2>1. IntBytes(v, L) = SubSeq(x, 1, 4)
    BY <1>2, <1>3 DEF IntBytes, Value
  <2>2. SubSeq(x, 1, 4) = x
    <3> DEFINE lo == 1
               hi == 4
    <3>1. lo \in Int /\ hi \in Int /\ hi - lo + 1 = 4 /\ lo <= hi /\ \A i \in 1 .. 4 : lo + i - 1 = i
      OBVIOUS
    <3>2. \A i \in lo .. hi : x[i] \in 0 .. 255
      BY <1>3, ElementOfSeq
    <3> HIDE DEF lo, hi
    <3>3. /\ SubSeq(x, lo, hi) \in Seq(0 .. 255) /\ Len(SubSeq(x, lo, hi)) = 4
          /\ \A i \in 1 .. 4 : SubSeq(x, lo, hi)[i] = x[i]
      BY <3>1, <3>2, SubSeqProperties
    <3>4. SubSeq(x, lo, hi) = x
      BY <1>3, <3>3, SameSequence
    <3> QED
      BY <3>4 DEF lo, hi
  <2> QED
    BY <2>1, <2>2
<1>4. CASE ~(L = 4 /\ x[1] > 127 /\ ~signed)
  <2> DEFINE y == IntBytes(v, L)
  <2>1. v = Number(n[L])
    BY <1>2, <1>4
  <2>2. v.kind = "number" /\ IntOf(v) = n[L]
    BY <2>1 DEF Number, Value, IntOf
  <2>3. y = [i \in 1 .. L |-> Byte(n[L], L - i)]
    BY <2>2 DEF IntBytes
  <2>4. /\ \A i \in 0 .. L : n[i] \in Int
        /\ \A i \in 1 .. L : ByteIn(x[i])
    <3>1. \A b \in 0 .. 255 : ByteIn(b)
      BY DEF ByteIn
    <3>2. \A i \in 1 .. L : x[i] \in 0 .. 255
      BY ElementOfSeq
    <3> QED
      BY <1>2, <3>1, <3>2
  <2>5. \A i \in 1 .. L : n[i] = 256 * n[i - 1] + x[i]
    BY <1>2
  <2> HIDE DEF y, v
  <2>6. CASE L = 1
    <3>1. n[0] \in Int /\ ByteIn(x[1]) /\ n[1] = 256 * n[0] + x[1]
      BY <2>4, <2>5, <2>6
    <3>2. Byte(n[1], 0) = x[1]
      BY <3>1, LowByte
    <3>3. y = [i \in 1 .. 1 |-> x[i]]
      BY <2>3, <2>6, <3>2
    <3> QED
      BY <2>6, <3>3, LenProperties DEF y, v
  <2>7. CASE L = 2
    <3>1. /\ n[0] \in Int /\ ByteIn(x[1]) /\ n[1] = 256 * n[0] + x[1]
          /\ n[1] \in Int /\ ByteIn(x[2]) /\ n[2] = 256 * n[1] + x[2]
      BY <2>4, <2>5, <2>7
    <3>2. Byte(n[1], 0) = x[1] /\ Byte(n[2], 0) = x[2]
      BY <3>1, LowByte
    <3>3. Byte(n[2], 1) = x[1]
      BY <3>1, <3>2, NextByte
    <3>4. y = [i \in 1 .. 2 |-> x[i]]
      BY <2>3, <2>7, <3>2, <3>3
    <3> QED
      BY <2>7, <3>4, LenProperties DEF y, v
  <2>8. CASE L = 4
    <3>1. /\ n[0] \in Int /\ ByteIn(x[1]) /\ n[1] = 256 * n[0] + x[1]
          /\ n[1] \in Int /\ ByteIn(x[2]) /\ n[2] = 256 * n[1] + x[2]
          /\ n[2] \in Int /\ ByteIn(x[3]) /\ n[3] = 256 * n[2] + x[3]
          /\ n[3] \in Int /\ ByteIn(x[4]) /\ n[4] = 256 * n[3] + x[4]
      BY <2>4, <2>5, <2>8
    <3>2. /\ Byte(n[1], 0) = x[1] /\ Byte(n[2], 0) = x[2]
          /\ Byte(n[3], 0) = x[3] /\ Byte(n[4], 0) = x[4]
      BY <3>1, LowByte
    <3>3. Byte(n[2], 1) = x[1] /\ Byte(n[3], 1) = x[2] /\ Byte(n[4], 1) = x[3]
      BY <3>1, <3>2, NextByte
    <3>4. Byte(n[3], 2) = x[1] /\ Byte(n[4], 2) = x[2]
      BY <3>1, <3>3, NextByte
    <3>5. Byte(n[4], 3) = x[1]
      BY <3>1, <3>4, NextByte
    <3>6. y = [i \in 1 .. 4 |-> x[i]]
      <4>1. \A i \in 1 .. 4 : Byte(n[4], 4 - i) = x[i]
        BY <3>2, <3>3, <3>4, <3>5
      <4> QED
        BY <2>3, <2>8, <4>1
    <3> QED
      BY <2>8, <3>6, LenProperties DEF y, v
  <2> QED
    BY <2>6, <2>7, <2>8
<1> QED
  BY <1>3, <1>4

(* The bytes of a REAL are those it was read from.                            *)
LEMMA RealTrip ==
  ASSUME NEW x
  PROVE  /\ FloatBytes(RealOf(x)) = x
         /\ RealOf(x).kind = "float" \/ (RealOf(x).kind = "number" /\ IntOf(RealOf(x)) \in DOMAIN Float32)
<1>1. CASE \E n \in DOMAIN Float32 : Float32[n] = x
  <2>1. PICK n \in DOMAIN Float32 : n = (CHOOSE m \in DOMAIN Float32 : Float32[m] = x) /\ Float32[n] = x
    BY <1>1
  <2>2. RealOf(x) = Number(n)
    BY <1>1, <2>1 DEF RealOf
  <2> QED
    BY <2>1, <2>2 DEF Number, Value, IntOf, FloatBytes
<1>2. CASE ~(\E n \in DOMAIN Float32 : Float32[n] = x)
  <2>1. RealOf(x) = Value("float", 0, x)
    BY <1>2 DEF RealOf
  <2> QED
    BY <2>1 DEF Value, FloatBytes
<1> QED
  BY <1>1, <1>2

(* The string a STRING's bytes say is the one they were made of.               *)
LEMMA StringTrip ==
  ASSUME NEW a \in Seq(0 .. 255), NEW m \in 1 .. 254, Len(a) <= m,
         NEW raw, raw = Padded(<<m, Len(a)>> \o a, m + 2)
  PROVE  raw \in Seq(0 .. 255) /\ Len(raw) = m + 2 /\ StringOf(raw, m) = a
<1> DEFINE l == Len(a)
           B == 0 .. 255
           y == <<m, l>> \o a
           n == m + 2
           z == [i \in 1 .. n - Len(y) |-> 0]
<1>1. l \in Nat /\ m \in Nat /\ l <= m /\ m <= 254
  BY LenProperties
<1>2. <<m, l>> \in Seq(B) /\ Len(<<m, l>>) = 2
  <2>1. m \in B /\ l \in B
    <3>1. PICK j \in Nat, k \in Nat : m = j /\ l = k /\ j <= 254 /\ k <= j
      BY <1>1
    <3>2. j \in B /\ k \in B
      BY <3>1
    <3> QED
      BY <3>1, <3>2
  <2> HIDE DEF B, l
  <2> QED
    BY <2>1
<1>3. /\ y \in Seq(B) /\ Len(y) = 2 + l /\ y[1] = m /\ y[2] = l
      /\ \A i \in 1 .. l : y[2 + i] = a[i]
  <2> DEFINE p == <<m, l>>
  <2>1. p[1] = m /\ p[2] = l /\ p \in Seq(B) /\ Len(p) = 2 /\ a \in Seq(B)
    BY <1>2
  <2> HIDE DEF p, B
  <2>2. /\ p \o a \in Seq(B) /\ Len(p \o a) = 2 + l
        /\ \A i \in 1 .. 2 + l : (p \o a)[i] = IF i <= 2 THEN p[i] ELSE a[i - 2]
    <3>1. /\ p \o a \in Seq(B) /\ Len(p \o a) = Len(p) + Len(a)
          /\ \A i \in 1 .. Len(p) + Len(a) : (p \o a)[i] = IF i <= Len(p) THEN p[i] ELSE a[i - Len(p)]
      BY <2>1, ConcatProperties, Zenon
    <3> QED
      BY <2>1, <3>1
  <2>3. y = p \o a
    BY DEF p
  <2> HIDE DEF y, l
  <2>4. 1 \in 1 .. 2 + l /\ 2 \in 1 .. 2 + l /\ \A i \in 1 .. l : 2 + i \in 1 .. 2 + l /\ ~(2 + i <= 2) /\ 2 + i - 2 = i
    BY <1>1
  <2>5. 1 <= 2 /\ 2 <= 2
    OBVIOUS
  <2>6. (p \o a)[1] = m /\ (p \o a)[2] = l
    BY <2>1, <2>2, <2>4, <2>5
  <2>7. \A i \in 1 .. l : (p \o a)[2 + i] = a[i]
    BY <2>2, <2>4
  <2> QED
    BY <2>2, <2>3, <2>6, <2>7
<1>4. raw = y \o z
  <2>1. raw = Padded(y, n)
    OBVIOUS
  <2> HIDE DEF y, n
  <2>2. Padded(y, n) = y \o z
    BY Zenon DEF Padded
  <2> QED
    BY <2>1, <2>2
<1> HIDE DEF y
<1>5. z \in Seq(B) /\ Len(z) = m - l
  <2>1. n - Len(y) = m - l /\ m - l \in Nat /\ m - l \in Int /\ 0 \in B
    BY <1>1, <1>3
  <2> HIDE DEF B
  <2> QED
    BY <2>1, StretchIsSeq
<1> HIDE DEF z, B
<1>6. /\ raw \in Seq(B) /\ Len(raw) = m + 2
      /\ \A i \in 1 .. 2 + l : raw[i] = y[i]
  <2>1. /\ y \o z \in Seq(B) /\ Len(y \o z) = Len(y) + Len(z)
        /\ \A i \in 1 .. Len(y) + Len(z) : (y \o z)[i] = IF i <= Len(y) THEN y[i] ELSE z[i - Len(y)]
    <3>1. y \in Seq(B) /\ z \in Seq(B)
      BY <1>3, <1>5
    <3> QED
      BY <3>1, ConcatProperties, Zenon
  <2> HIDE DEF l
  <2>2. Len(y) + Len(z) = m + 2 /\ \A i \in 1 .. 2 + l : i \in 1 .. m + 2 /\ i <= 2 + l
    BY <1>1, <1>3, <1>5
  <2>3. Len(y) = 2 + l
    BY <1>3
  <2> QED
    BY <1>4, <2>1, <2>2, <2>3
<1>7. raw[1] = m /\ raw[2] = l /\ \A i \in 1 .. l : raw[2 + i] = a[i]
  <2> HIDE DEF l
  <2>1. 1 \in 1 .. 2 + l /\ 2 \in 1 .. 2 + l /\ \A i \in 1 .. l : 2 + i \in 1 .. 2 + l
    BY <1>1
  <2> QED
    BY <1>3, <1>6, <2>1
<1> DEFINE S == {l, m, m, m}
<1>8. StringOf(raw, m) = SubSeq(raw, 3, 2 + Min(S))
  <2>1. Len(raw) - 2 = m
    BY <1>1, <1>6
  <2> QED
    BY <1>7, <2>1, Zenon DEF StringOf
<1>9. Min(S) = l
  <2>1. S \in SUBSET Nat /\ S # {} /\ l \in S
    BY <1>1
  <2>2. \A k \in S : l <= k
    BY <1>1
  <2> HIDE DEF S, l
  <2>3. Min(S) \in S /\ Min(S) <= l
    BY <2>1, MinIn
  <2>4. l <= Min(S) /\ Min(S) \in Nat
    BY <2>1, <2>2, <2>3
  <2> QED
    BY <1>1, <2>3, <2>4
<1> HIDE DEF S
<1> DEFINE lo == 3
           hi == 2 + l
           c == SubSeq(raw, lo, hi)
<1>10. /\ lo \in Int /\ hi \in Int /\ hi - lo + 1 = l /\ (IF lo <= hi THEN l ELSE 0) = l
       /\ \A i \in lo .. hi : i \in 1 .. m + 2
       /\ \A i \in 1 .. l : lo + i - 1 = 2 + i
  <2> HIDE DEF l
  <2> QED
    BY <1>1
<1>11. \A i \in lo .. hi : raw[i] \in B
  <2> HIDE DEF lo, hi, l
  <2> QED
    BY <1>6, <1>10, ElementOfSeq
<1> HIDE DEF lo, hi, c, l
<1>12. c \in Seq(B) /\ Len(c) = (IF lo <= hi THEN hi - lo + 1 ELSE 0) /\ \A i \in 1 .. hi - lo + 1 : c[i] = raw[lo + i - 1]
  BY <1>10, <1>11, SubSeqProperties DEF c
<1>13. Len(c) = l /\ \A i \in 1 .. l : c[i] = a[i]
  BY <1>7, <1>10, <1>12
<1>14. a \in Seq(B) /\ Len(a) = l
  BY DEF B, l
<1>15. c = a
  BY <1>12, <1>13, <1>14, SameSequence
<1> QED
  BY <1>6, <1>8, <1>9, <1>15 DEF c, lo, hi, B

(* What a STRING's value encodes to.                                          *)
LEMMA StringBytes ==
  ASSUME NEW t, TypeParses(t), t.type.name \in StringTypes, NEW v \in ValueType, Encodes(t, v),
         NEW endian, NEW e, e = Encoded(t, v, endian)
  PROVE  /\ AsText(v) \in Seq(0 .. 255) /\ Len(AsText(v)) <= StringLen(t)
         /\ StringLen(t) \in 1 .. 254 /\ SizeBytes(t) = StringLen(t) + 2
         /\ e = Padded(<<StringLen(t), Len(AsText(v))>> \o AsText(v), SizeBytes(t))
         /\ Len(e) - 2 = StringLen(t) /\ StringOf(e, StringLen(t)) = AsText(v)
<1> DEFINE x == AsText(v)
           m == StringLen(t)
<1>1. x \in Seq(0 .. 255)
  BY AsTextType
<1>2. m \in 1 .. 254 /\ SizeBytes(t) = m + 2
  BY SizeCases
<1>3. Len(x) <= m
  BY DEF Encodes, StringTypes
<1>4. e = Padded(<<m, Len(x)>> \o x, SizeBytes(t))
  BY DEF Encoded, StringTypes
<1> HIDE DEF x, m
<1>5. e = Padded(<<m, Len(x)>> \o x, m + 2)
  BY <1>2, <1>4
<1>6. e \in Seq(0 .. 255) /\ Len(e) = m + 2 /\ StringOf(e, m) = x
  BY <1>1, <1>2, <1>3, <1>5, StringTrip
<1>7. Len(e) - 2 = m
  <2>1. PICK k \in 1 .. 254 : m = k
    BY <1>2
  <2> QED
    BY <1>6, <2>1
<1> QED
  BY <1>1, <1>2, <1>3, <1>4, <1>6, <1>7 DEF x, m

(* A value decoded is one the tag's type takes, and has the bytes it was       *)
(* decoded from.                                                              *)
LEMMA RoundTrip ==
  ASSUME NEW t, TypeParses(t), t.type.name # "BOOL", NEW v \in ValueType, Encodes(t, v),
         NEW endian, NEW e, e = Encoded(t, v, endian)
  PROVE  /\ Encodes(t, Decoded(t, e, endian))
         /\ Encoded(t, Decoded(t, e, endian), endian) = e
<1> DEFINE o == Ordered(e, endian)
           d == Decoded(t, e, endian)
<1>1. e \in Seq(0 .. 255) /\ Len(e) = SizeBytes(t)
  BY EncodedType
<1>2. o \in Seq(0 .. 255) /\ Len(o) = SizeBytes(t) /\ Ordered(o, endian) = e
  BY <1>1, OrderedType, OrderedTwice
<1>3. CASE t.type.name = "REAL"
  <2>1. d = RealOf(o)
    BY <1>3 DEF Decoded, StringTypes
  <2> HIDE DEF o, d
  <2>2. FloatBytes(d) = o
    BY <2>1, RealTrip
  <2>3. TakenAsFloat(d)
    BY <2>1, RealTrip DEF TakenAsFloat, TakenAsInt
  <2>4. Encodes(t, d)
    BY <1>3, <2>3 DEF Encodes
  <2>5. Encoded(t, d, endian) = Ordered(o, endian)
    BY <1>3, <2>2 DEF Encoded, StringTypes
  <2> QED
    BY <1>2, <2>4, <2>5 DEF d
<1>4. CASE t.type.name \in StringTypes
  <2> DEFINE x == AsText(v)
             m == StringLen(t)
  <2>1. /\ Len(x) <= m /\ Len(e) - 2 = m /\ StringOf(e, m) = x
        /\ e = Padded(<<m, Len(x)>> \o x, SizeBytes(t))
    BY <1>4, StringBytes
  <2>2. d = Text(StringOf(e, Len(e) - 2))
    BY <1>4 DEF Decoded, StringTypes
  <2> HIDE DEF x, m, d
  <2>3. d = Text(x)
    BY <2>1, <2>2
  <2>4. AsText(d) = x
    BY <2>3 DEF AsText, Text, Value
  <2>5. Encodes(t, d)
    BY <1>4, <2>1, <2>4 DEF Encodes, StringTypes, m
  <2>6. Encoded(t, d, endian) = Padded(<<m, Len(x)>> \o x, SizeBytes(t))
    BY <1>4, <2>4 DEF Encoded, StringTypes, m
  <2> QED
    BY <2>1, <2>5, <2>6 DEF d
<1>5. CASE t.type.name # "REAL" /\ t.type.name \notin StringTypes
  <2> DEFINE signed == t.type.name \in SignedTypes
             n == SizeBytes(t)
  <2>1. d = NumberOf(o, signed)
    BY <1>5 DEF Decoded
  <2>2. n \in {1, 2, 4}
    BY <1>5, SizeCases
  <2>3. signed \in BOOLEAN
    OBVIOUS
  <2> HIDE DEF o, d, signed, n
  <2>4. d.kind \in {"number", "wide"}
    <3>1. PICK k : NumberBy(o, signed, k)
      BY <1>2, <2>3, NumberSteps
    <3>2. d \in {Value("wide", 0, o), Number(k[Len(o)])}
      BY <2>1, <3>1 DEF NumberBy
    <3> QED
      BY <3>2 DEF Value, Number
  <2>5. IntBytes(d, n) = o
    BY <1>2, <2>1, <2>2, <2>3, NumberTrip DEF n
  <2>6. TakenAsInt(d) /\ TakenAsUint(d)
    BY <2>4 DEF TakenAsInt, TakenAsUint
  <2>7. Encodes(t, d)
    <3>1. t.type.name \in {"SINT", "INT", "DINT", "TIME"} \/ t.type.name \in
            {"BYTE", "CHAR", "USINT", "UINT", "WORD", "UDINT", "DWORD"}
      BY <1>5, SizeCases DEF ByteTypes, WordTypes, DwordTypes
    <3>2. CASE t.type.name \in {"SINT", "INT", "DINT", "TIME"}
      BY <2>6, <3>2 DEF Encodes
    <3>3. CASE t.type.name \in {"BYTE", "CHAR", "USINT", "UINT", "WORD", "UDINT", "DWORD"}
      BY <2>6, <3>3 DEF Encodes
    <3> QED
      BY <3>1, <3>2, <3>3
  <2>8. Encoded(t, d, endian) = Ordered(IntBytes(d, n), endian)
    BY <1>5 DEF Encoded, n
  <2> QED
    BY <1>2, <2>5, <2>7, <2>8 DEF d
<1> QED
  BY <1>3, <1>4, <1>5

(* The other codec reads the same, a TIME of 2^31 and above for a negative     *)
(* one, and writes the bytes back.                                            *)
LEMMA OtherCodec ==
  ASSUME NEW t, TypeParses(t), t.type.name # "BOOL", NEW v \in ValueType, Encodes(t, v),
         NEW endian, NEW e, e = Encoded(t, v, endian)
  PROVE  LET read == DecodedRaw(t, e, endian) IN
         /\ read = Decoded(t, e, endian) \/ (t.type.name = "TIME" /\ read.kind = "wide")
         /\ PushedRaw(t, read, endian) = e
<1> DEFINE o == Ordered(e, endian)
           r == DecodedRaw(t, e, endian)
           d == Decoded(t, e, endian)
<1>1. e \in Seq(0 .. 255) /\ Len(e) = SizeBytes(t)
  BY EncodedType
<1>2. o \in Seq(0 .. 255) /\ Len(o) = SizeBytes(t) /\ Ordered(o, endian) = e
  BY <1>1, OrderedType, OrderedTwice
<1>3. CASE t.type.name = "REAL"
  <2>1. r = RealOf(o) /\ d = RealOf(o)
    BY <1>3 DEF DecodedRaw, Decoded, StringTypes
  <2> HIDE DEF o, r, d
  <2>2. FloatBytes(r) = o
    BY <2>1, RealTrip
  <2>3. PushedRaw(t, r, endian) = Ordered(o, endian)
    BY <1>3, <2>2 DEF PushedRaw, StringTypes
  <2> QED
    BY <1>2, <2>1, <2>3 DEF r, d
<1>4. CASE t.type.name \in StringTypes
  <2> DEFINE x == AsText(v)
             m == StringLen(t)
  <2>1. /\ Len(e) - 2 = m /\ StringOf(e, m) = x
        /\ e = Padded(<<m, Len(x)>> \o x, SizeBytes(t))
    BY <1>4, StringBytes
  <2>2. d = Text(StringOf(e, Len(e) - 2)) /\ r = Text(StringOf(e, m))
    BY <1>4 DEF Decoded, DecodedRaw, StringTypes
  <2> HIDE DEF x, m, d, r
  <2>3. d = Text(x) /\ r = Text(x)
    BY <2>1, <2>2
  <2>4. r.text = x
    BY <2>3 DEF Text, Value
  <2>5. PushedRaw(t, r, endian) = Padded(<<m, Len(x)>> \o x, SizeBytes(t))
    BY <1>4, <2>4 DEF PushedRaw, StringTypes, m
  <2> QED
    BY <2>1, <2>3, <2>5 DEF d, r
<1>5. CASE t.type.name # "REAL" /\ t.type.name \notin StringTypes
  <2> DEFINE signed == t.type.name \in SignedTypes
             signedHere == t.type.name \in DecodesSigned
             n == SizeBytes(t)
  <2>1. d = NumberOf(o, signed) /\ r = NumberOf(o, signedHere)
    BY <1>5 DEF Decoded, DecodedRaw
  <2>2. n \in {1, 2, 4}
    BY <1>5, SizeCases
  <2>3. signed \in BOOLEAN /\ signedHere \in BOOLEAN
    OBVIOUS
  <2>4. (signed <=> signedHere) \/ (t.type.name = "TIME" /\ signed /\ ~signedHere /\ n = 4)
    BY SizeCases DEF SignedTypes, DecodesSigned, DwordTypes
  <2> HIDE DEF o, d, r, signed, signedHere, n
  <2>5. IntBytes(r, n) = o
    BY <1>2, <2>1, <2>2, <2>3, NumberTrip DEF n
  <2>6. r = d \/ (t.type.name = "TIME" /\ r.kind = "wide")
    <3>1. CASE signed <=> signedHere
      BY <2>1, <2>3, <3>1
    <3>2. CASE t.type.name = "TIME" /\ signed /\ ~signedHere /\ n = 4
      <4>1. Len(o) = 4
        BY <1>2, <3>2 DEF n
      <4>2. CASE o[1] > 127
        BY <2>1, <3>2, <4>1, <4>2 DEF NumberOf, Value
      <4>3. CASE ~(o[1] > 127)
        <5> DEFINE G(negative) ==
                     LET num[i \in 0 .. Len(o)] ==
                           IF i = 0 THEN IF negative THEN -1 ELSE 0 ELSE 256 * num[i - 1] + o[i]
                     IN  Number(num[Len(o)])
                   high == o[1] > 127
        <5>1. \A b : NumberOf(o, b) =
                       IF Len(o) = 4 /\ high /\ ~b THEN Value("wide", 0, o) ELSE G(b /\ high)
          BY DEF NumberOf
        <5> HIDE DEF G, high
        <5>2. ~high
          BY <4>3 DEF high
        <5>3. (signed /\ high) = FALSE /\ (signedHere /\ high) = FALSE
          BY <5>2
        <5>4. NumberOf(o, signed) = G(FALSE) /\ NumberOf(o, signedHere) = G(FALSE)
          <6>1. NumberOf(o, signed) = G(signed /\ high) /\ NumberOf(o, signedHere) = G(signedHere /\ high)
            BY <5>1, <5>2
          <6> QED
            BY <5>3, <6>1
        <5> QED
          BY <2>1, <5>4
      <4> QED
        BY <4>2, <4>3
    <3> QED
      BY <2>4, <3>1, <3>2
  <2>7. PushedRaw(t, r, endian) = Ordered(IntBytes(r, n), endian)
    BY <1>5 DEF PushedRaw, n
  <2> QED
    BY <1>2, <2>5, <2>6, <2>7 DEF d, r
<1> QED
  BY <1>3, <1>4, <1>5

LEMMA CodecsMeet == Inv /\ ImageInv => CodecsAgree
<1> SUFFICES ASSUME Inv, ImageInv, PackedStrictly,
                    NEW t \in TagsOf(image.schema), t.type.name # "BOOL"
             PROVE  LET endian == image.schema.endian
                        raw == Slice(image.schema, t, image.data)
                        read == DecodedRaw(t, raw, endian)
                    IN  /\ read = Decoded(t, raw, endian) \/ (t.type.name = "TIME" /\ read.kind = "wide")
                        /\ Pulled(t) => PushedRaw(t, read, endian) = raw
  BY DEF CodecsAgree
<1> DEFINE s == image.schema
           raw == Slice(s, t, image.data)
<1>1. raw = Encoded(t, t.init, s.endian)
  BY ImagesStand DEF PackedTagsStand
<1>2. s \in FullSchema /\ t \in TagsOf(s) /\ \E strict \in BOOLEAN : Packs(s, strict)
  BY DEF ImageInv, PackedStrictly
<1>3. TypeParses(t) /\ Encodes(t, t.init)
  BY <1>2 DEF Packs, Builds
<1>4. t.init \in ValueType
  BY <1>2, Placed DEF FullTag, TagType
<1> HIDE DEF s, raw
<1>5. LET read == DecodedRaw(t, raw, s.endian) IN
      /\ read = Decoded(t, raw, s.endian) \/ (t.type.name = "TIME" /\ read.kind = "wide")
      /\ PushedRaw(t, read, s.endian) = raw
  BY <1>1, <1>3, <1>4, OtherCodec
<1> QED
  BY <1>5 DEF s, raw

(* Of every tag in such an image, decode.DecodeRaw, with which serve and sim  *)
(* read, gives what pack.Unpack does, but for a negative TIME, and EncodeRaw,  *)
(* with which sim writes, the bytes read.                                      *)
THEOREM CodecsOfImagesAgree == Spec => []CodecsAgree
<1>1. Init => Inv /\ ImageInv
  BY SchemasInitial, ImageInitial
<1>2. Inv /\ ImageInv /\ [Next]_vars => Inv' /\ ImageInv'
  BY SchemasKept, ImageKept
<1>3. Inv /\ ImageInv => CodecsAgree
  BY CodecsMeet
<1> QED
  BY <1>1, <1>2, <1>3, PTL DEF Spec

----------------------------------------------------------------------------
(* Packing what was unpacked *)

(* The address of a loaded tag is canonical.                                  *)
LEMMA Unmoved ==
  ASSUME NEW a \in Written, a.db # Absent, NEW db, Parses(a, db)
  PROVE  Canonical(Parsed(a, db)) = a
<1> DEFINE p == Parsed(a, db)
           c == Canonical(p)
<1>1. a.area \in FullAreas /\ a = [db |-> a.db, area |-> a.area, byte |-> a.byte, bit |-> a.bit]
  BY DEF Parses, Written
<1>2. p = [db |-> a.db, area |-> a.area, byte |-> a.byte, bit |-> IF a.bit = Absent THEN 0 ELSE a.bit]
  BY DEF Parsed
<1>3. a.area \in BitAreas => a.area = "DBX"
  BY <1>1 DEF BitAreas, FullAreas, StringAreas
<1>4. /\ a.area \in StringAreas => a.bit \in 0 .. 254
      /\ a.area \in BitAreas => a.bit \in 0 .. 7
      /\ a.area \notin StringAreas \cup BitAreas => a.bit = Absent
  BY DEF Parses, BitFits, StringAreas, BitAreas
<1>5. c = [db |-> a.db, area |-> a.area, byte |-> a.byte, bit |-> a.bit]
  <2>1. CASE a.area \in BitAreas \cup StringAreas
    BY <1>2, <1>3, <1>4, <2>1 DEF Canonical, Absent
  <2>2. CASE a.area \notin BitAreas \cup StringAreas
    BY <1>2, <1>4, <2>2 DEF Canonical
  <2> QED
    BY <2>1, <2>2
<1> HIDE DEF c, p
<1>6. c = a
  BY <1>1, <1>5
<1> QED
  BY <1>6 DEF c, p

(* v has the tags of s, each with the value that unpack finds for it in data.  *)
Copies(s, v, data) ==
  /\ v \in FullSchema
  /\ v.db = s.db /\ v.endian = s.endian /\ Len(v.tags) = Len(s.tags)
  /\ v.size = IF Len(data) = 0 THEN AutoSize ELSE Len(data)
  /\ \A i \in 1 .. Len(s.tags) :
       /\ v.tags[i].addr = s.tags[i].addr /\ v.tags[i].type = s.tags[i].type
       /\ v.tags[i].init = UnpackedInit(s, s.tags[i], data)

(* Decimals change no value but a REAL, and none that the file keeps.         *)
LEMMA KeptInFile ==
  ASSUME NEW s, NEW data, RealsKept(s, data), NEW t \in TagsOf(s)
  PROVE  InFile(Decimal(UnpackedInit(s, t, data))) = UnpackedInit(s, t, data)
<1> DEFINE val == UnpackedInit(s, t, data)
           x == Ordered(Slice(s, t, data), s.endian)
<1>1. val.kind = "float" => val.text = x /\ t.type.name = "REAL"
  <2>1. CASE t.type.name = "BOOL"
    <3>1. \A b : Bool(b).kind = "bool"
      BY DEF Bool, Value
    <3> QED
      BY <2>1, <3>1 DEF UnpackedInit
  <2>2. CASE t.type.name # "BOOL" /\ ByteOffset(s, t) + SizeBytes(t) > Len(data)
    BY <2>2 DEF UnpackedInit, Nil, Value
  <2>3. CASE t.type.name # "BOOL" /\ ~(ByteOffset(s, t) + SizeBytes(t) > Len(data))
    <3>1. val = Decoded(t, Slice(s, t, data), s.endian)
      BY <2>3 DEF UnpackedInit
    <3>2. CASE t.type.name = "REAL"
      <4>1. val = RealOf(x)
        BY <3>1, <3>2 DEF Decoded, StringTypes
      <4>2. \A n : Number(n).kind = "number"
        BY DEF Number, Value
      <4>3. Value("float", 0, x).text = x
        BY DEF Value
      <4> HIDE DEF x
      <4> QED
        BY <3>2, <4>1, <4>2, <4>3 DEF RealOf
    <3>3. CASE t.type.name \in StringTypes
      <4>1. t.type.name # "REAL"
        BY <3>3 DEF StringTypes
      <4>2. \A y : Text(y).kind = "text"
        BY DEF Text, Value
      <4> QED
        BY <3>1, <3>3, <4>1, <4>2 DEF Decoded
    <3>4. CASE t.type.name # "REAL" /\ t.type.name \notin StringTypes
      <4>1. \A y, signed : NumberOf(y, signed).kind \in {"wide", "number"}
        BY DEF NumberOf, Number, Value
      <4>2. val = NumberOf(x, t.type.name \in SignedTypes)
        BY <3>1, <3>4 DEF Decoded
      <4> HIDE DEF val, x
      <4>3. val.kind \in {"wide", "number"}
        BY <4>1, <4>2
      <4> QED
        BY <4>3
    <3> QED
      BY <3>2, <3>3, <3>4
  <2> QED
    BY <2>1, <2>2, <2>3
<1>2. t.type.name = "REAL" => x # NegativeZero /\ x \notin DOMAIN Reparsed
  BY DEF RealsKept, FileKeeps
<1> HIDE DEF val, x
<1>3. Decimal(val) = val
  BY <1>1, <1>2 DEF Decimal
<1>4. InFile(val) = val
  BY <1>1, <1>2 DEF InFile
<1> QED
  BY <1>3, <1>4 DEF val

LEMMA UnpackedCopies ==
  ASSUME NEW s \in FullSchema, NEW strict \in BOOLEAN, Packs(s, strict),
         NEW data \in Seq(0 .. 255), RealsKept(s, data)
  PROVE  Copies(s, Load([there |-> TRUE, schema |-> Stored(Unpacked(s, data))], Absent), data)
<1> DEFINE w == Unpacked(s, data)
           u == Stored(w)
           f == [there |-> TRUE, schema |-> u]
           r == LoadRaw(f, Absent)
           v == Load(f, Absent)
           size == IF Len(data) = 0 THEN AutoSize ELSE Len(data)
<1>1. Unpacks(s) /\ \A t \in TagsOf(s) : Parses(t.addr, s.db)
  BY DEF Packs, Builds, Unpacks
<1>2. w \in FullSchema /\ u \in FullSchema
  BY <1>1, UnpackedType, StoredFacts
<1>3. s \in SchemaType /\ Len(s.tags) \in Nat
  BY FullFields, LenProperties
<1>4. /\ u.db = s.db /\ u.endian = s.endian /\ u.size = Len(data) /\ Len(u.tags) = Len(s.tags)
      /\ \A i \in 1 .. Len(s.tags) :
           u.tags[i] = [s.tags[i] EXCEPT !.init = UnpackedInit(s, s.tags[i], data)]
  <2>1. /\ w.db = s.db /\ w.endian = s.endian /\ w.size = Len(data) /\ Len(w.tags) = Len(s.tags)
        /\ \A i \in 1 .. Len(s.tags) :
             w.tags[i] = [s.tags[i] EXCEPT !.init = Decimal(UnpackedInit(s, s.tags[i], data))]
    BY <1>3 DEF Unpacked, SchemaType
  <2> HIDE DEF w
  <2>2. /\ u.db = w.db /\ u.endian = w.endian /\ u.size = w.size /\ Len(u.tags) = Len(w.tags)
        /\ \A i \in 1 .. Len(w.tags) : u.tags[i] = [w.tags[i] EXCEPT !.init = InFile(w.tags[i].init)]
    BY <1>2, StoredFacts
  <2> HIDE DEF u
  <2>3. ASSUME NEW i \in 1 .. Len(s.tags)
        PROVE  u.tags[i] = [s.tags[i] EXCEPT !.init = UnpackedInit(s, s.tags[i], data)]
    <3> DEFINE t == s.tags[i]
               val == UnpackedInit(s, t, data)
               dec == Decimal(val)
    <3>1. t \in TagType /\ t \in TagsOf(s)
      BY <1>3 DEF SchemaType, TagsOf
    <3>2. InFile(dec) = val
      BY <3>1, KeptInFile
    <3>3. w.tags[i] = [t EXCEPT !.init = dec] /\ u.tags[i] = [w.tags[i] EXCEPT !.init = InFile(w.tags[i].init)]
      BY <2>1, <2>2
    <3> HIDE DEF t, val, dec
    <3>4. w.tags[i].init = dec
      BY <3>1, <3>3 DEF TagType
    <3>5. u.tags[i] = [t EXCEPT !.init = val]
      BY <3>2, <3>3, <3>4
    <3> QED
      BY <3>5 DEF t, val
  <2> QED
    BY <2>1, <2>2, <2>3
<1>5. r.db = u.db /\ r.endian = u.endian /\ r.tags = u.tags /\ r.size = (IF u.size = 0 THEN AutoSize ELSE u.size)
  <2>1. WithDB(f.schema, Absent).db = u.db /\ WithDB(f.schema, Absent).endian = u.endian
        /\ WithDB(f.schema, Absent).tags = u.tags /\ WithDB(f.schema, Absent).size = u.size
        /\ WithDB(f.schema, Absent) \in SchemaType
    <3>1. f.schema = u /\ u \in SchemaType
      BY <1>2 DEF FullSchema
    <3> HIDE DEF f, u
    <3> QED
      BY <3>1 DEF WithDB, SchemaType
  <2> QED
    BY <2>1 DEF LoadRaw, SchemaType
<1>6. v \in FullSchema /\ r \in SchemaType
  <2>1. f.schema \in SchemaType /\ Absent \in Nat \cup {Absent}
    BY <1>2 DEF FullSchema
  <2> QED
    BY <2>1, LoadType
<1>7. v.db = r.db /\ v.endian = r.endian /\ v.size = r.size
      /\ v.tags = [i \in 1 .. Len(r.tags) |-> NormalTag(r.tags[i], r.db)]
  BY <1>6 DEF Load, Normal, SchemaType
<1> HIDE DEF u, w, f, r, v
<1>8. Len(u.tags) = Len(s.tags)
  BY <1>4
<1>9. v.tags = [i \in 1 .. Len(s.tags) |-> NormalTag(u.tags[i], s.db)]
  BY <1>4, <1>5, <1>7, <1>8
<1>10. ASSUME NEW i \in 1 .. Len(s.tags)
       PROVE  /\ v.tags[i].addr = s.tags[i].addr /\ v.tags[i].type = s.tags[i].type
              /\ v.tags[i].init = UnpackedInit(s, s.tags[i], data)
  <2> DEFINE t == s.tags[i]
             x == u.tags[i]
             val == UnpackedInit(s, t, data)
  <2>1. t \in FullTag /\ t \in TagsOf(s)
    BY Placed DEF TagsOf
  <2>2. x = [t EXCEPT !.init = val]
    BY <1>4
  <2>3. x \in TagType /\ v.tags[i] = NormalTag(x, s.db)
    <3>1. u.tags \in Seq(FullTag)
      BY <1>2, FullFields
    <3>2. u.tags[i] \in FullTag
      BY <1>8, <3>1, ElementOfSeq
    <3> QED
      BY <1>9, <3>2 DEF FullTag
  <2> HIDE DEF t, x, val
  <2>4. x.addr = t.addr /\ x.type = t.type /\ x.init = val
    BY <2>1, <2>2 DEF FullTag, TagType
  <2>5. NormalTag(x, s.db).addr = Canonical(Parsed(x.addr, s.db)) /\ NormalTag(x, s.db).type = x.type
        /\ NormalTag(x, s.db).init = x.init
    BY <2>3 DEF NormalTag, TagType
  <2>6. Canonical(Parsed(t.addr, s.db)) = t.addr
    <3>1. t.addr \in Written /\ t.addr.db # Absent /\ Parses(t.addr, s.db)
      BY <1>1, <2>1 DEF FullTag, TagType
    <3> QED
      BY <3>1, Unmoved
  <2> QED
    BY <2>3, <2>4, <2>5, <2>6 DEF t, val
<1>11. Len(v.tags) = Len(s.tags)
  BY <1>3, <1>9
<1>12. v.size = size
  BY <1>4, <1>5, <1>7
<1> QED
  BY <1>4, <1>5, <1>6, <1>7, <1>10, <1>11, <1>12 DEF Copies, v, f, u, w

(* Address and type are all that placing and encoding a tag look at.          *)
LEMMA SamePlace ==
  ASSUME NEW s, NEW v, v.db = s.db, NEW t, NEW u, u.addr = t.addr, u.type = t.type
  PROVE  /\ TagStart(v, u) = TagStart(s, t) /\ TagEnd(v, u) = TagEnd(s, t)
         /\ ByteOffset(v, u) = ByteOffset(s, t) /\ BitOf(v, u) = BitOf(s, t)
         /\ SizeBytes(u) = SizeBytes(t) /\ TypeParses(u) = TypeParses(t)
         /\ \A x, endian : Encodes(u, x) = Encodes(t, x) /\ Encoded(u, x, endian) = Encoded(t, x, endian)
<1>1. StringLen(u) = StringLen(t)
  BY DEF StringLen
<1>2. SizeBytes(u) = SizeBytes(t) /\ TypeParses(u) = TypeParses(t)
  BY <1>1 DEF SizeBytes, TypeParses
<1>3. TagStart(v, u) = TagStart(s, t) /\ BitOf(v, u) = BitOf(s, t)
  BY DEF TagStart, BitOf
<1>4. ByteOffset(v, u) = ByteOffset(s, t) /\ TagEnd(v, u) = TagEnd(s, t)
  BY <1>2, <1>3 DEF ByteOffset, TagEnd, BitSize
<1>5. \A x, endian : Encodes(u, x) = Encodes(t, x) /\ Encoded(u, x, endian) = Encoded(t, x, endian)
  BY <1>1, <1>2, Zenon DEF Encodes, Encoded
<1> QED
  BY <1>2, <1>3, <1>4, <1>5

(* data is what Pack made of s, in which tags do not meet.                    *)
ImageOf(s, strict, fill, pad, data) ==
  /\ s \in FullSchema /\ strict \in BOOLEAN /\ fill \in 0 .. 255 /\ pad \in Nat
  /\ Packs(s, strict) /\ AllAligned(s) /\ data = Packed(s, fill, pad)

LEMMA ImageLength ==
  ASSUME NEW s, NEW strict, NEW fill, NEW pad, NEW data, ImageOf(s, strict, fill, pad, data)
  PROVE  /\ data \in Seq(0 .. 255) /\ Len(data) \in Nat
         /\ FinalSize(s) \in Nat /\ FinalSize(s) <= Len(data)
         /\ ComputedSize(s) \in Nat /\ ComputedSize(s) <= Len(data)
<1> USE DEF ImageOf
<1> DEFINE M == FinalSize(s)
           n == Len(data)
           c == ComputedSize(s)
<1>1. PICK p, m : PackedBy(s, fill, pad, p, m)
  BY PackedSteps
<1>2. m \in Nat /\ data = [i \in 1 .. M + m |-> IF i <= M THEN p[Len(s.tags)][i] ELSE fill]
  BY <1>1 DEF PackedBy
<1>3. data \in Seq(0 .. 255)
  BY PackedType
<1>4. DOMAIN data = 1 .. n /\ DOMAIN data = 1 .. M + m /\ n \in Nat
  BY <1>2, <1>3, LenProperties
<1>5. c \in Nat /\ M \in Nat /\ M >= c
  BY SizesAreNat DEF Packs
<1> HIDE DEF M, n, c
<1>6. n = M + m
  BY <1>2, <1>4, <1>5
<1>7. M <= n /\ c <= n
  BY <1>2, <1>5, <1>6
<1> QED
  BY <1>3, <1>4, <1>5, <1>7 DEF M, n, c

LEMMA CopySize ==
  ASSUME NEW s, NEW strict, NEW fill, NEW pad, NEW data, ImageOf(s, strict, fill, pad, data),
         NEW v, Copies(s, v, data)
  PROVE  /\ ComputedSize(v) = ComputedSize(s) /\ FinalSize(v) = Len(data)
         /\ v.size # AutoSize => v.size >= ComputedSize(v)
<1>1. Len(s.tags) \in Nat /\ Len(v.tags) = Len(s.tags)
  BY FullFields, LenProperties DEF Copies, ImageOf
<1>2. \A i \in 1 .. Len(s.tags) : TagEnd(v, v.tags[i]) = TagEnd(s, s.tags[i])
  BY SamePlace DEF Copies
<1>3. {TagEnd(v, u) : u \in TagsOf(v)} = {TagEnd(v, v.tags[i]) : i \in 1 .. Len(s.tags)}
  BY <1>1 DEF TagsOf
<1>4. {TagEnd(s, t) : t \in TagsOf(s)} = {TagEnd(s, s.tags[i]) : i \in 1 .. Len(s.tags)}
  BY DEF TagsOf
<1>5. {TagEnd(v, u) : u \in TagsOf(v)} = {TagEnd(s, t) : t \in TagsOf(s)}
  BY <1>2, <1>3, <1>4
<1>6. ComputedSize(v) = ComputedSize(s)
  BY <1>5 DEF ComputedSize
<1> DEFINE n == Len(data)
           c == ComputedSize(v)
<1>7. n \in Nat /\ c \in Nat /\ c <= n
  BY <1>6, ImageLength
<1>8. v.size = (IF n = 0 THEN AutoSize ELSE n) /\ FinalSize(v) = (IF v.size = AutoSize THEN c ELSE v.size)
  BY DEF Copies, FinalSize
<1> HIDE DEF n, c
<1>9. FinalSize(v) = n /\ (v.size # AutoSize => v.size >= c)
  BY <1>7, <1>8 DEF AutoSize
<1> QED
  BY <1>6, <1>9 DEF n, c

(* Each tag of the copy encodes to what the tag has in the image.              *)
LEMMA CopyTag ==
  ASSUME NEW s, NEW strict, NEW fill, NEW pad, NEW data, ImageOf(s, strict, fill, pad, data),
         NEW v, Copies(s, v, data), NEW i \in 1 .. Len(s.tags)
  PROVE  LET t == s.tags[i]
             u == v.tags[i]
         IN  /\ t \in TagsOf(s) /\ u \in TagsOf(v) /\ u.addr = t.addr /\ u.type = t.type
             /\ t.type.name = "BOOL" => TakenAsBool(u.init) /\ InitBit(u) = InitBit(t)
             /\ t.type.name # "BOOL" =>
                  Encodes(u, u.init) /\ Encoded(u, u.init, v.endian) = Encoded(t, t.init, s.endian)
<1> DEFINE t == s.tags[i]
           u == v.tags[i]
           off == ByteOffset(s, t)
           size == SizeBytes(t)
           n == Len(data)
<1>1. /\ s \in FullSchema /\ strict \in BOOLEAN /\ Packs(s, strict) /\ Aligned(s, t)
      /\ t \in TagsOf(s) /\ u \in TagsOf(v)
  BY DEF ImageOf, AllAligned, TagsOf, Copies
<1>2. v.db = s.db /\ v.endian = s.endian /\ u.addr = t.addr /\ u.type = t.type
      /\ u.init = UnpackedInit(s, t, data)
  BY DEF Copies
<1>3. IF t.type.name = "BOOL" THEN BitIs(data[off + 1], BitOf(s, t)) = IsTrue(t.init)
      ELSE Slice(s, t, data) = Encoded(t, t.init, s.endian)
  <2>1. fill \in 0 .. 255 /\ pad \in Nat /\ AllAligned(s) /\ data = Packed(s, fill, pad)
    BY DEF ImageOf
  <2> HIDE DEF t
  <2> QED
    BY <1>1, <2>1, TagsRead
<1>4. off \in Nat /\ size \in Nat /\ size > 0 /\ FinalSize(s) \in Nat /\ off + size <= FinalSize(s)
      /\ FinalSize(s) <= n /\ n \in Nat
  BY <1>1, Extent, Fits, ImageLength DEF Packs
<1>5. TypeParses(t) /\ t.init \in ValueType
  BY <1>1, Placed DEF FullTag, TagType, Packs, Builds
<1> HIDE DEF t, u, off, size, n
<1>6. off < n /\ ~(off + size > n)
  BY <1>4
<1>7. CASE t.type.name = "BOOL"
  <2>1. u.init = Bool(BitIs(data[off + 1], BitOf(s, t)))
    <3>1. u.init = Bool(off < n /\ BitIs(data[off + 1], BitOf(s, t)))
      BY <1>2, <1>7 DEF UnpackedInit, off, n
    <3>2. (off < n /\ BitIs(data[off + 1], BitOf(s, t))) = BitIs(data[off + 1], BitOf(s, t))
      BY <1>6 DEF BitIs
    <3> QED
      BY <3>1, <3>2
  <2> DEFINE b == BitIs(data[off + 1], BitOf(s, t))
  <2>2. b \in BOOLEAN /\ (b <=> IsTrue(t.init))
    BY <1>3, <1>7 DEF BitIs
  <2> HIDE DEF b
  <2>3. u.init.kind = "bool" /\ u.init.num = IF b THEN 1 ELSE 0
    BY <2>1 DEF Bool, Value, b
  <2>4. TakenAsBool(u.init)
    BY <2>3 DEF TakenAsBool
  <2>5. IsTrue(u.init) <=> b
    BY <2>2, <2>3 DEF IsTrue
  <2>6. InitBit(u) = InitBit(t)
    BY <2>2, <2>5 DEF InitBit
  <2> QED
    BY <1>1, <1>2, <1>7, <2>4, <2>6 DEF t, u
<1>8. CASE t.type.name # "BOOL"
  <2> DEFINE e == Encoded(t, t.init, s.endian)
             d == Decoded(t, e, s.endian)
  <2>1. u.init = d
    BY <1>2, <1>3, <1>6, <1>8 DEF UnpackedInit, off, size, n
  <2>2. Encodes(t, t.init)
    BY <1>1, <1>8 DEF Packs
  <2>3. Encodes(t, d) /\ Encoded(t, d, s.endian) = e
    BY <1>5, <1>8, <2>2, RoundTrip
  <2> HIDE DEF d, e
  <2>4. \A x, endian : Encodes(u, x) = Encodes(t, x) /\ Encoded(u, x, endian) = Encoded(t, x, endian)
    BY <1>2, SamePlace
  <2>5. Encodes(u, u.init) /\ Encoded(u, u.init, v.endian) = e
    BY <1>2, <2>1, <2>3, <2>4
  <2> QED
    BY <1>1, <1>2, <1>8, <2>5 DEF t, u, e
<1> QED
  BY <1>7, <1>8

LEMMA CopyPacks ==
  ASSUME NEW s, NEW strict, NEW fill, NEW pad, NEW data, ImageOf(s, strict, fill, pad, data),
         NEW v, Copies(s, v, data)
  PROVE  Packs(v, FALSE)
<1>1. Packs(s, strict) /\ s \in FullSchema /\ Len(v.tags) = Len(s.tags) /\ v.endian = s.endian /\ v.db = s.db
  BY DEF ImageOf, Copies
<1>2. ASSUME NEW u \in TagsOf(v)
      PROVE  /\ Parses(u.addr, v.db) /\ TypeParses(u)
             /\ IF u.type.name = "BOOL" THEN TakenAsBool(u.init)
                ELSE Encodes(u, u.init) /\ ByteOffset(v, u) + SizeBytes(u) <= FinalSize(v)
  <2>1. PICK i \in 1 .. Len(s.tags) : u = v.tags[i]
    BY <1>1 DEF TagsOf
  <2> DEFINE t == s.tags[i]
  <2>2. /\ t \in TagsOf(s) /\ u.addr = t.addr /\ u.type = t.type
        /\ t.type.name = "BOOL" => TakenAsBool(u.init)
        /\ t.type.name # "BOOL" => Encodes(u, u.init)
    BY <2>1, CopyTag
  <2>3. Parses(t.addr, s.db) /\ TypeParses(t)
        /\ (t.type.name # "BOOL" => ByteOffset(s, t) + SizeBytes(t) <= FinalSize(s))
    BY <1>1, <2>2 DEF Packs, Builds
  <2> HIDE DEF t
  <2>4. TypeParses(u) = TypeParses(t) /\ ByteOffset(v, u) = ByteOffset(s, t) /\ SizeBytes(u) = SizeBytes(t)
    BY <1>1, <2>2, SamePlace
  <2> DEFINE a == ByteOffset(s, t)
             b == SizeBytes(t)
             M == FinalSize(s)
             n == FinalSize(v)
  <2>5. a \in Nat /\ b \in Nat /\ M \in Nat /\ n \in Nat /\ M <= n
    <3>1. a \in Nat
      BY <1>1, <2>2, Placed
    <3>2. b \in Nat
      BY <2>3, SizeCases, SizeIsNat
    <3> QED
      BY <3>1, <3>2, ImageLength, CopySize
  <2>6. t.type.name # "BOOL" => a + b <= M
    BY <2>3
  <2> HIDE DEF a, b, M, n
  <2>7. t.type.name # "BOOL" => a + b <= n
    BY <2>5, <2>6
  <2>8. Parses(u.addr, v.db) /\ TypeParses(u)
    BY <1>1, <2>2, <2>3, <2>4
  <2>9. CASE t.type.name = "BOOL"
    BY <2>2, <2>8, <2>9
  <2>10. CASE t.type.name # "BOOL"
    BY <2>2, <2>4, <2>7, <2>8, <2>10 DEF a, b, n
  <2> QED
    BY <2>9, <2>10
<1>3. NoOverlap(v)
  <2>1. \A i \in 1 .. Len(s.tags) :
          TagStart(v, v.tags[i]) = TagStart(s, s.tags[i]) /\ TagEnd(v, v.tags[i]) = TagEnd(s, s.tags[i])
    BY SamePlace DEF Copies
  <2>2. NoOverlap(s)
    BY <1>1 DEF Packs, Builds
  <2> QED
    BY <1>1, <2>1, <2>2, Zenon DEF NoOverlap
<1>4. v.size # AutoSize => v.size >= ComputedSize(v)
  BY CopySize
<1>5. Builds(v, FALSE)
  BY <1>2, <1>3, <1>4, Zenon DEF Builds
<1>6. EndianKnown(v)
  BY <1>1 DEF Packs, EndianKnown
<1> QED
  BY <1>2, <1>5, <1>6, Zenon DEF Packs

Within(j, off, n) == j - off \in 1 .. n

LEMMA PutAt ==
  ASSUME NEW s \in FullSchema, NEW strict \in BOOLEAN, Packs(s, strict), NEW t \in TagsOf(s),
         t.type.name # "BOOL", FinalSize(s) \in Nat,
         NEW bytes \in [1 .. FinalSize(s) -> 0 .. 255], NEW i \in 1 .. FinalSize(s)
  PROVE  /\ Within(i, ByteOffset(s, t), SizeBytes(t)) =>
              Put(s, bytes, t)[i] = Encoded(t, t.init, s.endian)[i - ByteOffset(s, t)]
         /\ ~Within(i, ByteOffset(s, t), SizeBytes(t)) => Put(s, bytes, t)[i] = bytes[i]
BY PutByte, Zenon DEF Within

Extended(b, M, n, fill, c) == \A j \in 1 .. n : c[j] = IF j <= M THEN b[j] ELSE fill

AlikeIn(s, fill, data, b, c) ==
  /\ b \in [1 .. FinalSize(s) -> 0 .. 255] /\ c \in [1 .. Len(data) -> 0 .. 255]
  /\ Extended(b, FinalSize(s), Len(data), fill, c)

(* A tag and its copy are put at the same place, in bytes that begin alike.    *)
LEMMA CopyPut ==
  ASSUME NEW s, NEW strict, NEW fill, NEW pad, NEW data, ImageOf(s, strict, fill, pad, data),
         NEW v, Copies(s, v, data), NEW i \in 1 .. Len(s.tags),
         NEW b, NEW c, AlikeIn(s, fill, data, b, c)
  PROVE  Extended(Put(s, b, s.tags[i]), FinalSize(s), Len(data), fill, Put(v, c, v.tags[i]))
<1> DEFINE t == s.tags[i]
           u == v.tags[i]
           M == FinalSize(s)
           n == Len(data)
           off == ByteOffset(s, t)
           size == SizeBytes(t)
           e == Encoded(t, t.init, s.endian)
<1>0. /\ b \in [1 .. FinalSize(s) -> 0 .. 255] /\ c \in [1 .. Len(data) -> 0 .. 255]
      /\ Extended(b, FinalSize(s), Len(data), fill, c)
  BY DEF AlikeIn
<1>1. /\ s \in FullSchema /\ strict \in BOOLEAN /\ Packs(s, strict) /\ v \in FullSchema /\ Packs(v, FALSE)
      /\ FinalSize(v) = n /\ FALSE \in BOOLEAN
  <2>1. s \in FullSchema /\ strict \in BOOLEAN /\ Packs(s, strict) /\ v \in FullSchema
    BY DEF ImageOf, Copies
  <2>2. Packs(v, FALSE) /\ FinalSize(v) = n
    BY CopyPacks, CopySize
  <2> QED
    BY <2>1, <2>2
<1>2. /\ t \in TagsOf(s) /\ u \in TagsOf(v) /\ u.type = t.type
      /\ t.type.name = "BOOL" => InitBit(u) = InitBit(t)
      /\ t.type.name # "BOOL" => Encoded(u, u.init, v.endian) = e
  BY CopyTag
<1>3. ByteOffset(v, u) = off /\ BitOf(v, u) = BitOf(s, t) /\ SizeBytes(u) = size
  <2>1. v.db = s.db /\ u.addr = t.addr /\ u.type = t.type
    BY DEF Copies
  <2> HIDE DEF t, u
  <2> QED
    BY <2>1, SamePlace DEF off, size
<1>4. Aligned(s, t)
  BY <1>2 DEF ImageOf, AllAligned
<1>5. off \in Nat /\ size \in Nat /\ size > 0 /\ M \in Nat /\ off + size <= M /\ n \in Nat /\ M <= n
  BY <1>1, <1>2, <1>4, Extent, Fits, ImageLength DEF Packs
<1>6. FinalSize(s) \in Nat /\ FinalSize(v) \in Nat /\ c \in [1 .. FinalSize(v) -> 0 .. 255]
  BY <1>0, <1>1, <1>5
<1> SUFFICES ASSUME NEW j \in 1 .. n
             PROVE  Put(v, c, u)[j] = IF j <= M THEN Put(s, b, t)[j] ELSE fill
  BY Zenon DEF Extended
<1>7. c[j] = IF j <= M THEN b[j] ELSE fill
  BY <1>0, Zenon DEF Extended
<1>8. j <= M => j \in 1 .. FinalSize(s)
  BY <1>5
<1>9. j \in 1 .. FinalSize(v)
  BY <1>1
<1>10. CASE t.type.name = "BOOL"
  <2> DEFINE w(y) == WithBit(y, BitOf(s, t), InitBit(t))
  <2>1. /\ j = off + 1 => Put(v, c, u)[j] = w(c[j])
        /\ j # off + 1 => Put(v, c, u)[j] = c[j]
    <3>1. /\ j = ByteOffset(v, u) + 1 => Put(v, c, u)[j] = WithBit(c[j], BitOf(v, u), InitBit(u))
          /\ j # ByteOffset(v, u) + 1 => Put(v, c, u)[j] = c[j]
      <4>1. u.type.name = "BOOL"
        BY <1>2, <1>10
      <4> HIDE DEF u, n
      <4> QED
        BY <1>1, <1>2, <1>6, <1>9, <4>1, <1>0, PutBit, Zenon
    <3>2. InitBit(u) = InitBit(t)
      BY <1>2, <1>10
    <3> HIDE DEF u, t, off
    <3> QED
      BY <1>3, <3>1, <3>2
  <2>2. j <= M => /\ j = off + 1 => Put(s, b, t)[j] = w(b[j])
                  /\ j # off + 1 => Put(s, b, t)[j] = b[j]
    BY <1>1, <1>2, <1>6, <1>8, <1>10, <1>0, PutBit, Zenon
  <2> HIDE DEF w, t, u, off, size, M, n
  <2>3. j = off + 1 => j <= M
    BY <1>5
  <2> QED
    BY <1>7, <2>1, <2>2, <2>3
<1>11. CASE t.type.name # "BOOL"
  <2>1. /\ Within(j, off, size) => Put(v, c, u)[j] = e[j - off]
        /\ ~Within(j, off, size) => Put(v, c, u)[j] = c[j]
    <3>1. /\ Within(j, ByteOffset(v, u), SizeBytes(u)) =>
                Put(v, c, u)[j] = Encoded(u, u.init, v.endian)[j - ByteOffset(v, u)]
          /\ ~Within(j, ByteOffset(v, u), SizeBytes(u)) => Put(v, c, u)[j] = c[j]
      <4>1. u.type.name # "BOOL" /\ Packs(v, FALSE) /\ v \in FullSchema /\ u \in TagsOf(v)
        BY <1>1, <1>2, <1>11
      <4> HIDE DEF u, n
      <4> QED
        BY <1>1, <1>6, <1>9, <1>0, <4>1, PutAt
    <3>2. Encoded(u, u.init, v.endian) = e
      BY <1>2, <1>11
    <3> HIDE DEF u, t, off, size, e
    <3> QED
      BY <1>3, <3>1, <3>2
  <2>2. j <= M => /\ Within(j, off, size) => Put(s, b, t)[j] = e[j - off]
                  /\ ~Within(j, off, size) => Put(s, b, t)[j] = b[j]
    <3> SUFFICES ASSUME j <= M
                 PROVE  /\ Within(j, off, size) => Put(s, b, t)[j] = e[j - off]
                        /\ ~Within(j, off, size) => Put(s, b, t)[j] = b[j]
      OBVIOUS
    <3>1. j \in 1 .. FinalSize(s) /\ t \in TagsOf(s) /\ t.type.name # "BOOL" /\ FinalSize(s) \in Nat
      BY <1>2, <1>6, <1>8, <1>11
    <3> HIDE DEF t
    <3> QED
      BY <1>1, <1>0, <3>1, PutAt
  <2> HIDE DEF t, u, off, size, e, M, n
  <2>3. Within(j, off, size) => j <= M
    BY <1>5 DEF Within
  <2> QED
    BY <1>7, <2>1, <2>2, <2>3
<1> QED
  BY <1>10, <1>11

LEMMA CopyImage ==
  ASSUME NEW s, NEW strict, NEW fill, NEW pad, NEW data, ImageOf(s, strict, fill, pad, data),
         NEW v, Copies(s, v, data)
  PROVE  Packed(v, fill, 0) = data
<1> DEFINE N == Len(s.tags)
           M == FinalSize(s)
           n == Len(data)
<1>1. /\ s \in FullSchema /\ strict \in BOOLEAN /\ fill \in 0 .. 255 /\ pad \in Nat /\ Packs(s, strict)
      /\ v \in FullSchema /\ Packs(v, FALSE) /\ FALSE \in BOOLEAN /\ 0 \in Nat
      /\ Len(v.tags) = N /\ FinalSize(v) = n /\ data = Packed(s, fill, pad)
  <2>1. /\ s \in FullSchema /\ strict \in BOOLEAN /\ fill \in 0 .. 255 /\ pad \in Nat /\ Packs(s, strict)
        /\ v \in FullSchema /\ Len(v.tags) = N /\ data = Packed(s, fill, pad)
    BY DEF ImageOf, Copies
  <2>2. Packs(v, FALSE) /\ FinalSize(v) = n
    BY CopyPacks, CopySize
  <2> QED
    BY <2>1, <2>2
<1>2. N \in Nat /\ M \in Nat /\ n \in Nat /\ M <= n /\ data \in Seq(0 .. 255)
  BY <1>1, FullFields, LenProperties, ImageLength
<1>3. PICK p, m : PackedBy(s, fill, pad, p, m)
  BY <1>1, PackedSteps
<1>4. PICK q, z : PackedBy(v, fill, 0, q, z)
  BY <1>1, PackedSteps
<1>5. /\ p \in [0 .. N -> [1 .. M -> 0 .. 255]] /\ m \in Nat
      /\ p[0] = [j \in 1 .. M |-> fill]
      /\ \A k \in 1 .. N : p[k] = Put(s, p[k - 1], s.tags[k])
      /\ data = [j \in 1 .. M + m |-> IF j <= M THEN p[N][j] ELSE fill]
  BY <1>1, <1>3 DEF PackedBy
<1>6. /\ q \in [0 .. N -> [1 .. n -> 0 .. 255]] /\ z = 0
      /\ q[0] = [j \in 1 .. n |-> fill]
      /\ \A k \in 1 .. N : q[k] = Put(v, q[k - 1], v.tags[k])
      /\ Packed(v, fill, 0) = [j \in 1 .. n + z |-> IF j <= n THEN q[N][j] ELSE fill]
  BY <1>1, <1>4 DEF PackedBy
<1> DEFINE T == {k \in 0 .. N : Extended(p[k], M, n, fill, q[k])}
<1>7. 0 \in T
  <2>1. Extended(p[0], M, n, fill, q[0])
    <3> SUFFICES ASSUME NEW j \in 1 .. n PROVE q[0][j] = IF j <= M THEN p[0][j] ELSE fill
      BY Zenon DEF Extended
    <3> HIDE DEF M, n, N
    <3>1. q[0][j] = fill
      BY <1>6
    <3>2. j <= M => p[0][j] = fill
      BY <1>2, <1>5
    <3> QED
      BY <3>1, <3>2
  <2>2. 0 \in 0 .. N
    BY <1>2
  <2> QED
    BY <2>1, <2>2
<1>8. ASSUME NEW k \in 1 .. N, k - 1 \in T PROVE k \in T
  <2>1. k \in 0 .. N /\ k - 1 \in 0 .. N
    <3> HIDE DEF N
    <3> QED
      BY <1>2
  <2> DEFINE b == p[k - 1]
             c == q[k - 1]
  <2>2. b \in [1 .. M -> 0 .. 255] /\ c \in [1 .. n -> 0 .. 255] /\ Extended(b, M, n, fill, c)
    BY <1>5, <1>6, <1>8, <2>1
  <2> HIDE DEF b, c
  <2>3. Extended(Put(s, b, s.tags[k]), M, n, fill, Put(v, c, v.tags[k]))
    <3>1. k \in 1 .. Len(s.tags) /\ AlikeIn(s, fill, data, b, c)
      BY <2>2 DEF AlikeIn
    <3> HIDE DEF T
    <3> QED
      BY <3>1, CopyPut
  <2>4. p[k] = Put(s, b, s.tags[k]) /\ q[k] = Put(v, c, v.tags[k])
    BY <1>5, <1>6 DEF b, c
  <2> QED
    BY <2>1, <2>3, <2>4
<1>9. N \in T
  <2>1. \A k \in 1 .. N : k - 1 \in T => k \in T
    BY <1>8
  <2> HIDE DEF T, N
  <2>2. \A k \in 0 .. N : k \in T
    BY <1>2, <1>7, <2>1, Climb
  <2> QED
    BY <1>2, <2>2
<1>10. \A j \in 1 .. n : q[N][j] = IF j <= M THEN p[N][j] ELSE fill
  BY <1>9, Zenon DEF Extended
<1>11. n = M + m
  <2>1. DOMAIN data = 1 .. n /\ DOMAIN data = 1 .. M + m
    BY <1>2, <1>5, LenProperties
  <2> HIDE DEF n, M
  <2> QED
    BY <1>2, <1>5, <2>1
<1> HIDE DEF N, M, n, T
<1>12. Packed(v, fill, 0) = [j \in 1 .. n |-> q[N][j]]
  <2>1. n + z = n /\ \A j \in 1 .. n : j <= n
    BY <1>2, <1>6
  <2> QED
    BY <1>6, <2>1
<1>13. data = [j \in 1 .. n |-> IF j <= M THEN p[N][j] ELSE fill]
  BY <1>5, <1>11
<1> QED
  BY <1>10, <1>12, <1>13

LEMMA ImagesRepack == Inv /\ ImageInv => RepackIsStable
<1> SUFFICES ASSUME Inv, ImageInv, PackedStrictly, RealsKept(image.schema, image.data)
             PROVE  LET u == Stored(Unpacked(image.schema, image.data))
                        v == Load([there |-> TRUE, schema |-> u], Absent)
                    IN  Packs(v, FALSE) /\ Packed(v, image.fill, 0) = image.data
  BY DEF RepackIsStable
<1> DEFINE s == image.schema
           fill == image.fill
           data == image.data
           v == Load([there |-> TRUE, schema |-> Stored(Unpacked(s, data))], Absent)
<1>0. RealsKept(s, data)
  OBVIOUS
<1>1. s \in FullSchema /\ CheckPasses([there |-> TRUE, schema |-> s], Absent, TRUE)
  BY DEF ImageInv, PackedStrictly
<1>2. PICK strict \in BOOLEAN, pad \in Nat : Packs(s, strict) /\ data = Packed(s, fill, pad)
  BY DEF ImageInv, PackedStrictly
<1>3. fill \in 0 .. 255 /\ data \in Seq(0 .. 255)
  BY DEF Inv, TypeOK
<1> HIDE DEF s, fill, data
<1>4. ImageOf(s, strict, fill, pad, data)
  BY <1>1, <1>2, <1>3, CheckedAligned DEF ImageOf
<1>5. Copies(s, v, data)
  BY <1>0, <1>1, <1>2, <1>3, UnpackedCopies
<1> HIDE DEF v
<1>6. Packs(v, FALSE) /\ Packed(v, fill, 0) = data
  BY <1>4, <1>5, CopyPacks, CopyImage
<1> QED
  BY <1>6 DEF v, s, fill, data

(* Unpacking an image whose schema passes check --strict, saving, loading and  *)
(* packing again makes the same image: what pack.Unpack decodes has the bytes  *)
(* it was decoded from, and its size takes the place of --pad-to.  An image    *)
(* with a REAL that comes back from its decimal in the file as another         *)
(* (schema.go:111 on -0, for one) is excepted.                                 *)
THEOREM RepackingIsStable == Spec => []RepackIsStable
<1>1. Init => Inv /\ ImageInv
  BY SchemasInitial, ImageInitial
<1>2. Inv /\ ImageInv /\ [Next]_vars => Inv' /\ ImageInv'
  BY SchemasKept, ImageKept
<1>3. Inv /\ ImageInv => RepackIsStable
  BY ImagesRepack
<1> QED
  BY <1>1, <1>2, <1>3, PTL DEF Spec
=============================================================================
