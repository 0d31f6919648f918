--------------------------- MODULE Heartbeat_proofs ---------------------------
(***************************************************************************)
(* The safety properties of the heartbeat loop for every setting of the    *)
(* flags, every count and timeout, and dials that take any bounded time;   *)
(* and those of the controller that runs such loops in `s7db serve`, for   *)
(* any number of heartbeat tags, Starts and outages.                       *)
(***************************************************************************)
EXTENDS Heartbeat, HmiHeartbeat, TLAPS

USE OptionsAssumption, TimeAssumption

(* The clear check is made with --clear-within only.                         *)
ClearIsAsked == at = "clear" => options.clear

(* A dial is tried again within the timeout, and after one pause more.       *)
Clock ==
  /\ at = "wait" => elapsed <= Timeout
  /\ at = "dial" => elapsed <= 2 * Timeout + 1

(* In mode toggle the last toggle is what the PLC acknowledged last, and a   *)
(* beat writes the other value; only the first one asks the PLC.             *)
NextToggle ==
  Mode = "toggle" =>
    /\ acked = last
    /\ at = "read" => last = "none"
    /\ at = "write" /\ last # "none" => wrote = (last = "FALSE")

IInv == Inv /\ ClearIsAsked /\ Clock /\ NextToggle

----------------------------------------------------------------------------
LEMMA DoubledIsPause ==
  ASSUME backoff \in {1, 2, 4, 8, 16, 32}
  PROVE  Doubled \in {1, 2, 4, 8, 16, 32} /\ Doubled <= 2 * backoff
BY DEF Doubled

(* Init. *)
LEMMA InitInv == Init => IInv
<1> SUFFICES ASSUME Init PROVE IInv
  OBVIOUS
<1>1. TypeOK
  <2>1. 0 \in 0 .. Count /\ 1 \in {1, 2, 4, 8, 16, 32} OBVIOUS
  <2>2. at = "dial" /\ exit = "none" /\ bit \in BOOLEAN /\ cancelled = FALSE /\ wrote = FALSE
    BY DEF Init
  <2>3. beat \in Nat /\ beats \in 0 .. Count /\ backoff \in {1, 2, 4, 8, 16, 32} /\ elapsed \in Nat
    BY <2>1 DEF Init
  <2>4. options \in Options /\ socket = "none" /\ last = "none" /\ acked = "none"
    BY DEF Init
  <2>5. QED BY <2>2, <2>3, <2>4 DEF TypeOK
<1>2. CallsOnFreshConnection BY DEF Init, CallsOnFreshConnection
<1>3. GivesUpInTime BY DialEnds DEF Init, GivesUpInTime
<1>4. ClearIsAsked /\ Clock /\ NextToggle
  BY DEF Init, ClearIsAsked, Clock, NextToggle
<1>5. QED BY <1>1, <1>2, <1>3, <1>4 DEF IInv, Inv

(* The types, which no step leaves.                                          *)
LEMMA TypeStep == IInv /\ [Next]_vars => TypeOK'
<1> SUFFICES ASSUME IInv, [Next]_vars PROVE TypeOK'
  OBVIOUS
<1> USE DEF IInv, Inv, TypeOK, dial, FirstPause
<1>1. ASSUME UNCHANGED options, Dial PROVE TypeOK' BY <1>1 DEF Dial
<1>2. ASSUME UNCHANGED options, NEW d \in DialTimes, DialFails(d) PROVE TypeOK'
  BY <1>2 DEF DialFails, Since
<1>3. ASSUME UNCHANGED options, NEW d \in DialTimes, GiveUp(d) PROVE TypeOK'
  BY <1>3 DEF GiveUp, Since, Return
<1>4. ASSUME UNCHANGED options, Wait PROVE TypeOK' BY <1>4, DoubledIsPause DEF Wait
<1>5. ASSUME UNCHANGED options, WaitCancelled \/ HeadCancelled \/ ClearCancelled \/ SleepCancelled
      PROVE  TypeOK'
  <2>1. CASE WaitCancelled BY <1>5, <2>1 DEF WaitCancelled, Return
  <2>2. CASE HeadCancelled BY <1>5, <2>2 DEF HeadCancelled, Return
  <2>3. CASE ClearCancelled BY <1>5, <2>3 DEF ClearCancelled, Return
  <2>4. CASE SleepCancelled BY <1>5, <2>4 DEF SleepCancelled, Return
  <2>5. QED BY <1>5, <2>1, <2>2, <2>3, <2>4
<1>6. ASSUME UNCHANGED options, Head \/ Read \/ ReadBack PROVE TypeOK'
  <2>1. CASE Head
    <3>1. wrote' \in BOOLEAN BY <2>1 DEF Head
    <3>2. QED BY <1>6, <2>1, <3>1 DEF Head
  <2>2. CASE Read
    <3>1. wrote' \in BOOLEAN BY <2>2 DEF Read
    <3>2. QED BY <1>6, <2>2, <3>1 DEF Read
  <2>3. CASE ReadBack BY <1>6, <2>3 DEF ReadBack
  <2>4. QED BY <1>6, <2>1, <2>2, <2>3
<1>7. ASSUME UNCHANGED options, Write PROVE TypeOK' BY <1>7 DEF Write, Toggled, Name
<1>8. ASSUME UNCHANGED options, CallFails PROVE TypeOK' BY <1>8 DEF CallFails, CloseFailed, UpTo
<1>9. ASSUME UNCHANGED options, Clear PROVE TypeOK' BY <1>9 DEF Clear, Return
<1>10. ASSUME UNCHANGED options, BeatDone PROVE TypeOK'
  <2>1. beats' \in 0 .. Count BY <1>10 DEF BeatDone, UpTo
  <2>2. CASE LastBeat BY <1>10, <2>1, <2>2 DEF BeatDone, Return
  <2>3. CASE ~LastBeat BY <1>10, <2>1, <2>3 DEF BeatDone
  <2>4. QED BY <2>2, <2>3
<1>11. ASSUME UNCHANGED options, Sleep PROVE TypeOK' BY <1>11 DEF Sleep, UpTo
<1>12. ASSUME UNCHANGED options, Cancel \/ PlcProgram PROVE TypeOK'
  <2>1. CASE Cancel BY <1>12, <2>1 DEF Cancel
  <2>2. CASE PlcProgram
    <3>1. bit' \in BOOLEAN BY <2>2 DEF PlcProgram
    <3>2. QED BY <1>12, <2>2, <3>1 DEF PlcProgram
  <2>3. QED BY <1>12, <2>1, <2>2
<1>13. ASSUME UNCHANGED vars PROVE TypeOK' BY <1>13 DEF vars
<1>14. QED
  BY <1>1, <1>2, <1>3, <1>4, <1>5, <1>6, <1>7, <1>8, <1>9, <1>10, <1>11, <1>12, <1>13
  DEF Next, Run

(* Every way to a call passes a dial that gave a connection, and every       *)
(* failure but the clear check's closes it.                                  *)
LEMMA SocketStep ==
  IInv /\ [Next]_vars => CallsOnFreshConnection' /\ ClearIsAsked'
<1> SUFFICES ASSUME IInv, [Next]_vars PROVE CallsOnFreshConnection' /\ ClearIsAsked'
  OBVIOUS
<1> USE DEF IInv, Inv, TypeOK, CallsOnFreshConnection, ClearIsAsked
<1> DEFINE Goal == CallsOnFreshConnection' /\ ClearIsAsked'
<1>1. ASSUME UNCHANGED options, Dial PROVE Goal BY <1>1 DEF Dial
<1>2. ASSUME UNCHANGED options, NEW d \in DialTimes, DialFails(d) PROVE Goal
  BY <1>2 DEF DialFails
<1>3. ASSUME UNCHANGED options, NEW d \in DialTimes, GiveUp(d) PROVE Goal
  BY <1>3 DEF GiveUp, Return
<1>4. ASSUME UNCHANGED options, Wait PROVE Goal BY <1>4 DEF Wait
<1>5. ASSUME UNCHANGED options, WaitCancelled PROVE Goal BY <1>5 DEF WaitCancelled, Return
<1>6. ASSUME UNCHANGED options, HeadCancelled PROVE Goal BY <1>6 DEF HeadCancelled, Return
<1>7. ASSUME UNCHANGED options, ClearCancelled PROVE Goal BY <1>7 DEF ClearCancelled, Return
<1>8. ASSUME UNCHANGED options, SleepCancelled PROVE Goal BY <1>8 DEF SleepCancelled, Return
<1>9. ASSUME UNCHANGED options, Head PROVE Goal BY <1>9 DEF Head
<1>10. ASSUME UNCHANGED options, Read PROVE Goal BY <1>10 DEF Read
<1>11. ASSUME UNCHANGED options, ReadBack PROVE Goal BY <1>11 DEF ReadBack
<1>12. ASSUME UNCHANGED options, Write PROVE Goal BY <1>12 DEF Write
<1>13. ASSUME UNCHANGED options, CallFails PROVE Goal BY <1>13 DEF CallFails, CloseFailed
<1>14. ASSUME UNCHANGED options, Clear PROVE Goal BY <1>14 DEF Clear, Return
<1>15. ASSUME UNCHANGED options, BeatDone PROVE Goal BY <1>15 DEF BeatDone, Return
<1>16. ASSUME UNCHANGED options, Sleep PROVE Goal BY <1>16 DEF Sleep
<1>17. ASSUME UNCHANGED options, Cancel \/ PlcProgram PROVE Goal BY <1>17 DEF Cancel, PlcProgram
<1>18. ASSUME UNCHANGED vars PROVE Goal BY <1>18 DEF vars
<1>19. QED
  BY <1>1, <1>2, <1>3, <1>4, <1>5, <1>6, <1>7, <1>8, <1>9, <1>10, <1>11, <1>12, <1>13,
     <1>14, <1>15, <1>16, <1>17, <1>18
  DEF Next, Run

(* A step with which neither the clock nor the place of a dial begins.       *)
LEMMA ClockKept ==
  ASSUME IInv, UNCHANGED dial, at' \notin {"wait", "dial"} \/ at' = at
  PROVE  GivesUpInTime' /\ Clock'
BY DEF IInv, Inv, GivesUpInTime, Clock, dial

LEMMA ClockReset ==
  ASSUME IInv, FirstPause, at' # "wait"
  PROVE  GivesUpInTime' /\ Clock'
<1>1. backoff' = 1 /\ elapsed' = 0 BY DEF FirstPause
<1>2. Clock' BY <1>1, at' # "wait" DEF Clock
<1>3. PICK d \in DialTimes : \A e \in DialTimes : e <= d BY DialEnds
<1>4. \A e \in DialTimes : e <= d /\ elapsed' <= 2 * Timeout + 1 + d BY <1>1, <1>3
<1>5. QED BY <1>1, <1>2, <1>3, <1>4 DEF GivesUpInTime

(* The time between the first failed dial and the end.                       *)
LEMMA ClockRuns ==
  ASSUME IInv, NEW e \in DialTimes, elapsed' \in Nat,
         elapsed' <= 2 * Timeout + 1 + e, at' \in {"wait", "dial"} => backoff' <= elapsed' + 1
  PROVE  GivesUpInTime'
<1>1. PICK d \in DialTimes : \A f \in DialTimes : f <= d BY DialEnds
<1>2. elapsed' <= 2 * Timeout + 1 + d BY <1>1
<1>3. QED BY <1>1, <1>2 DEF GivesUpInTime

LEMMA ClockStep == IInv /\ [Next]_vars => GivesUpInTime' /\ Clock'
<1> SUFFICES ASSUME IInv, [Next]_vars PROVE GivesUpInTime' /\ Clock'
  OBVIOUS
<1> DEFINE Goal == GivesUpInTime' /\ Clock'
<1>1. /\ backoff \in {1, 2, 4, 8, 16, 32} /\ elapsed \in Nat
      /\ at \in {"wait", "dial"} => backoff <= elapsed + 1
  BY DEF IInv, Inv, TypeOK, GivesUpInTime
<1>2. ASSUME Dial PROVE Goal BY <1>2, ClockReset DEF Dial
<1>3. ASSUME CallFails PROVE Goal BY <1>3, ClockReset DEF CallFails
<1>4. ASSUME NEW d \in DialTimes, DialFails(d) PROVE Goal
  <2>1. elapsed' \in Nat /\ elapsed' <= Timeout /\ backoff' <= elapsed' + 1 /\ at' = "wait"
    BY <1>1, <1>4 DEF DialFails, Since
  <2>2. elapsed' <= 2 * Timeout + 1 + d BY <2>1
  <2>3. QED BY <2>1, <2>2, ClockRuns DEF Clock
<1>5. ASSUME NEW d \in DialTimes, GiveUp(d) PROVE Goal
  <2>1. elapsed <= 2 * Timeout + 1 BY <1>5 DEF IInv, Clock, GiveUp
  <2>2. elapsed' \in Nat /\ elapsed' <= 2 * Timeout + 1 + d /\ at' = "exit"
    BY <1>1, <1>5, <2>1 DEF GiveUp, Since, Return
  <2>3. QED BY <2>2, ClockRuns DEF Clock
<1>6. ASSUME Wait PROVE Goal
  <2>1. elapsed <= Timeout /\ at = "wait" BY <1>6 DEF Wait, IInv, Clock
  <2>2. /\ elapsed' = elapsed + backoff /\ at' = "dial"
        /\ backoff' \in {1, 2, 4, 8, 16, 32} /\ backoff' <= 2 * backoff
    BY <1>1, <1>6, DoubledIsPause DEF Wait
  <2>3. elapsed' \in Nat /\ elapsed' <= 2 * Timeout + 1 /\ backoff' <= elapsed' + 1
    BY <1>1, <2>1, <2>2
  <2>4. PICK d \in DialTimes : TRUE BY DialEnds
  <2>5. elapsed' <= 2 * Timeout + 1 + d BY <2>3, <2>4
  <2>6. QED BY <2>2, <2>3, <2>5, ClockRuns DEF Clock
<1>7. ASSUME WaitCancelled \/ HeadCancelled \/ ClearCancelled \/ SleepCancelled PROVE Goal
  BY <1>7, ClockKept DEF WaitCancelled, HeadCancelled, ClearCancelled, SleepCancelled, Return
<1>8. ASSUME Head \/ Read \/ Write \/ ReadBack PROVE Goal
  BY <1>8, ClockKept DEF Head, Read, Write, ReadBack
<1>9. ASSUME Clear \/ BeatDone \/ Sleep PROVE Goal
  BY <1>9, ClockKept DEF Clear, BeatDone, Sleep, Return
<1>10. ASSUME Cancel \/ PlcProgram PROVE Goal BY <1>10, ClockKept DEF Cancel, PlcProgram
<1>11. ASSUME UNCHANGED vars PROVE Goal BY <1>11, ClockKept DEF vars, dial
<1>12. QED
  BY <1>2, <1>3, <1>4, <1>5, <1>6, <1>7, <1>8, <1>9, <1>10, <1>11 DEF Next, Run

(* Failed calls change neither the last toggle nor what was acknowledged.    *)
LEMMA ToggleStep == IInv /\ [Next]_vars => NextToggle'
<1> SUFFICES ASSUME IInv, [Next]_vars PROVE NextToggle'
  OBVIOUS
<1> USE DEF IInv, Inv, TypeOK, NextToggle, Mode
<1>1. ASSUME UNCHANGED <<options, last, acked>>, at' \notin {"read", "write"} \/ UNCHANGED <<at, wrote>>
      PROVE  NextToggle'
  BY <1>1
<1>2. ASSUME UNCHANGED options, Head PROVE NextToggle' BY <1>2 DEF Head
<1>3. ASSUME UNCHANGED options, Read PROVE NextToggle' BY <1>3 DEF Read
<1>4. ASSUME UNCHANGED options, Write PROVE NextToggle' BY <1>4 DEF Write, Toggled
<1>5. ASSUME UNCHANGED options, Dial PROVE NextToggle' BY <1>1, <1>5 DEF Dial
<1>6. ASSUME UNCHANGED options, NEW d \in DialTimes, DialFails(d) \/ GiveUp(d) PROVE NextToggle'
  BY <1>1, <1>6 DEF DialFails, GiveUp, Return
<1>7. ASSUME UNCHANGED options,
             Wait \/ WaitCancelled \/ HeadCancelled \/ ClearCancelled \/ SleepCancelled
      PROVE  NextToggle'
  BY <1>1, <1>7 DEF Wait, WaitCancelled, HeadCancelled, ClearCancelled, SleepCancelled, Return
<1>8. ASSUME UNCHANGED options, ReadBack \/ CallFails \/ Clear \/ BeatDone \/ Sleep PROVE NextToggle'
  BY <1>1, <1>8 DEF ReadBack, CallFails, Clear, BeatDone, Sleep, Return
<1>9. ASSUME UNCHANGED options, Cancel \/ PlcProgram PROVE NextToggle'
  BY <1>1, <1>9 DEF Cancel, PlcProgram
<1>10. ASSUME UNCHANGED vars PROVE NextToggle' BY <1>1, <1>10 DEF vars
<1>11. QED BY <1>2, <1>3, <1>4, <1>5, <1>6, <1>7, <1>8, <1>9, <1>10 DEF Next, Run

----------------------------------------------------------------------------
LEMMA Inductive == Spec => []IInv
<1>1. IInv /\ [Next]_vars => IInv'
  BY TypeStep, SocketStep, ClockStep, ToggleStep DEF IInv, Inv
<1>2. QED BY InitInv, <1>1, PTL DEF Spec

(* No beat begins without a connection or on one that failed a beat's call,  *)
(* and the PLC is given up no later than a pause and a dial after the        *)
(* timeout, for every timeout (heartbeat.go:64).                             *)
THEOREM HeartbeatInvariant == Spec => []Inv
<1>1. IInv => Inv BY DEF IInv
<1>2. QED BY Inductive, <1>1, PTL

(* The values a PLC acknowledges in mode toggle alternate, whatever calls    *)
(* failed before or after they took effect (heartbeat.go:136).               *)
THEOREM TogglesAlternate == Spec => Alternates
<1>1. IInv /\ [Next]_vars => [Mode = "toggle" /\ Write => acked' # acked]_vars
  <2> SUFFICES ASSUME IInv, Mode = "toggle", Write PROVE acked' # acked
    OBVIOUS
  <2>1. acked = last /\ (last # "none" => wrote = (last = "FALSE"))
    BY DEF IInv, NextToggle, Write
  <2>2. acked' = (IF wrote THEN "TRUE" ELSE "FALSE") /\ wrote \in BOOLEAN
    BY DEF IInv, Inv, TypeOK, Write, Name
  <2>3. QED BY <2>1, <2>2
<1>2. QED BY Inductive, <1>1, PTL DEF Spec, Alternates
----------------------------------------------------------------------------
(* HmiHeartbeat. *)
(* While the controller says that the heartbeat runs, the loops that the last *)
(* Start has come to so far are there: one of them that ends, whose telling   *)
(* waits for that Start to end, says that it runs no more.                    *)
StartedSoFar ==
  running =>
    /\ gen \in Gens
    /\ \A t \in Begun :
         starting = 0 \/ t < starting => loop[<<gen, t>>] \notin {"none", "gone"}

HmiIInv ==
  /\ HmiTypeOK
  /\ starting # 0 => gen \in Gens /\ (malformed = 0 \/ starting <= malformed)
  /\ OneMarks
  /\ StartedSoFar
LEMMA HmiNumbers ==
  /\ MaxStarts \in Nat /\ 1 <= MaxStarts
  /\ HbTags \in Nat /\ 1 <= HbTags
  /\ MaxOutages \in Nat
  /\ Settings \subseteq BOOLEAN \X (0 .. HbTags)
BY CountsAssumption

LEMMA HmiInitial == HmiInit => HmiIInv
<1> SUFFICES ASSUME HmiInit PROVE HmiIInv
  OBVIOUS
<1>1. 0 \in 0 .. 0 /\ 0 \in 0 .. MaxStarts /\ 0 \in 0 .. HbTags /\ 0 \in 0 .. MaxOutages
  BY HmiNumbers
<1>2. serve \in BOOLEAN /\ malformed \in 0 .. HbTags
  BY HmiNumbers DEF HmiInit
<1>3. HmiTypeOK
  BY <1>1, <1>2 DEF HmiInit, HmiTypeOK
<1> QED
  BY <1>3 DEF HmiInit, HmiIInv, OneMarks, StartedSoFar

(* The counters, without the rest of the types.                              *)
LEMMA HmiCounters ==
  ASSUME HmiTypeOK
  PROVE  /\ gen \in Nat /\ gen <= MaxStarts
         /\ handle \in Nat /\ handle <= gen
         /\ starting \in Nat /\ starting <= HbTags
         /\ outages \in Nat /\ outages <= MaxOutages
         /\ malformed \in Nat /\ malformed <= HbTags
<1>1. /\ gen \in 0 .. MaxStarts /\ handle \in 0 .. gen
      /\ starting \in 0 .. HbTags /\ outages \in 0 .. MaxOutages /\ malformed \in 0 .. HbTags
  BY DEF HmiTypeOK
<1> QED
  BY <1>1, HmiNumbers

(* The PLC, and the polls. *)
LEMMA HmiOutside ==
  ASSUME HmiIInv, Outage \/ Back \/ Poll
  PROVE  HmiIInv'
<1> USE DEF HmiIInv
<1>1. UNCHANGED <<serve, malformed, exited, running, handle, starting, gen, request, over,
                  stopped, lost, loop>>
  BY DEF Outage, Back, Poll, program, controller
<1>2. link' \in {"none", "live", "dead"} /\ reachable' \in BOOLEAN /\ up' \in BOOLEAN
  BY DEF Outage, Back, Poll, CallWorks, HmiTypeOK
<1>3. outages' \in 0 .. MaxOutages
  <2>1. \/ outages' = outages
        \/ outages < MaxOutages /\ outages' = outages + 1
    BY DEF Outage, Back, Poll
  <2> QED
    BY <2>1, HmiCounters, HmiNumbers
<1>4. HmiTypeOK'
  BY <1>1, <1>2, <1>3 DEF HmiTypeOK
<1> QED
  BY <1>1, <1>4 DEF OneMarks, StartedSoFar, Begun

LEMMA HmiStart ==
  ASSUME HmiIInv, NEW r \in BOOLEAN, StartBegin(r)
  PROVE  HmiIInv'
<1> USE DEF HmiIInv, StartBegin
<1>1. gen \in Nat /\ gen' = gen + 1 /\ gen' \in 1 .. MaxStarts
  BY HmiCounters, HmiNumbers
<1>2. UNCHANGED <<serve, malformed, exited, over, loop, link, reachable, outages, up>>
  BY DEF program, plc
<1>3. request' \subseteq 1 .. gen' /\ over' \subseteq 1 .. gen' /\ lost' \subseteq 1 .. gen'
  <2>1. request \subseteq 1 .. gen /\ over \subseteq 1 .. gen /\ lost \subseteq 1 .. gen
    BY DEF HmiTypeOK
  <2>2. 1 .. gen \subseteq 1 .. gen' /\ gen' \in 1 .. gen'
    BY <1>1
  <2>3. handle # 0 => handle \in 1 .. gen
    BY HmiCounters
  <2> QED
    BY <1>2, <2>1, <2>2, <2>3
<1>4. HmiTypeOK'
  <2>1. gen' \in 0 .. MaxStarts /\ handle' \in 0 .. gen' /\ starting' \in 0 .. HbTags
    BY <1>1, HmiNumbers
  <2> QED
    BY <1>2, <1>3, <2>1 DEF HmiTypeOK
<1>5. gen' \in Gens /\ starting' = 1 /\ (malformed' = 0 \/ 1 <= malformed')
  BY <1>1, <1>2, HmiCounters DEF Gens
<1>6. StartedSoFar'
  <2>1. \A t \in 1 .. HbTags : ~(t < 1)
    BY HmiNumbers
  <2> QED
    BY <1>5, <2>1 DEF StartedSoFar, Begun
<1> QED
  BY <1>2, <1>4, <1>5, <1>6 DEF OneMarks

(* The next loop of a Start is born where none of this Start was told of yet. *)
LEMMA HmiStartLoop ==
  ASSUME HmiIInv, StartLoop
  PROVE  HmiIInv'
<1> USE DEF HmiIInv, StartLoop
<1>1. /\ UNCHANGED <<serve, malformed, exited, running, handle, gen, request, over, stopped,
                     lost, link, reachable, outages, up>>
      /\ gen \in Gens /\ starting \in 1 .. HbTags
      /\ <<gen, starting>> \in Loops
  <2>1. starting \in 1 .. HbTags
    BY HmiCounters, HmiNumbers
  <2> QED
    BY <2>1 DEF program, plc, Loops
<1>2. starting' \in 0 .. HbTags /\ (starting' # 0 => malformed = 0 \/ starting' <= malformed)
  BY <1>1, HmiNumbers, HmiCounters
<1>3. HmiTypeOK'
  BY <1>1, <1>2 DEF HmiTypeOK
<1>4. OneMarks'
  BY <1>1 DEF OneMarks, HmiTypeOK
<1>5. ASSUME running, NEW t \in Begun, starting' = 0 \/ t < starting'
      PROVE  loop'[<<gen, t>>] \notin {"none", "gone"}
  <2>1. <<gen, t>> \in Loops /\ t \in 1 .. HbTags
    BY <1>1 DEF Loops, Begun
  <2>2. CASE t = starting
    BY <1>1, <2>1, <2>2 DEF HmiTypeOK
  <2>3. CASE t # starting
    <3>1. t < starting
      BY <1>1, <1>5, <2>1, <2>3, HmiNumbers
    <3>2. <<gen, t>> # <<gen, starting>>
      BY <2>3
    <3>3. loop[<<gen, t>>] \notin {"none", "gone"}
      BY <1>5, <3>1 DEF StartedSoFar
    <3> QED
      BY <1>1, <2>1, <3>2, <3>3 DEF HmiTypeOK
  <2> QED
    BY <2>2, <2>3
<1>6. StartedSoFar'
  BY <1>1, <1>5 DEF StartedSoFar, Begun
<1> QED
  BY <1>1, <1>2, <1>3, <1>4, <1>6

(* The tags that a failing Start has been through are those it begins loops   *)
(* for.                                                                      *)
LEMMA HmiStartFails ==
  ASSUME HmiIInv, StartFails
  PROVE  HmiIInv'
<1> USE DEF HmiIInv, StartFails
<1>1. UNCHANGED <<serve, malformed, running, handle, gen, request, over, stopped, lost, loop,
                  link, reachable, outages, up>>
  BY DEF plc
<1>2. starting' \in 0 .. HbTags /\ exited' \in BOOLEAN
  BY HmiNumbers
<1>3. HmiTypeOK'
  BY <1>1, <1>2 DEF HmiTypeOK
<1>4. \A t \in Begun : t < starting
  BY DEF Begun
<1>5. StartedSoFar'
  BY <1>1, <1>4 DEF StartedSoFar, Begun
<1> QED
  BY <1>1, <1>3, <1>5 DEF OneMarks

LEMMA HmiStop ==
  ASSUME HmiIInv, StopHeartbeat \/ \E g \in Gens : RequestEnds(g)
  PROVE  HmiIInv'
<1> USE DEF HmiIInv
<1>1. UNCHANGED <<serve, malformed, exited, starting, gen, request, lost, loop,
                  link, reachable, outages, up>>
  BY DEF StopHeartbeat, RequestEnds, program, plc
<1>2. /\ running' \in BOOLEAN /\ stopped' \in BOOLEAN
      /\ handle' \in 0 .. gen
      /\ running' => running
  <2>1. 0 \in 0 .. gen
    BY HmiCounters
  <2>2. /\ running \in BOOLEAN /\ stopped \in BOOLEAN
        /\ handle \in 0 .. gen
    BY DEF HmiTypeOK
  <2>3. CASE StopHeartbeat
    BY <2>1, <2>2, <2>3 DEF StopHeartbeat
  <2>4. CASE \E g \in Gens : RequestEnds(g)
    BY <2>2, <2>4 DEF RequestEnds
  <2> QED
    BY <2>3, <2>4
<1>3. over' \subseteq 1 .. gen
  <2>1. handle # 0 => handle \in 1 .. gen
    BY HmiCounters
  <2> QED
    BY <2>1 DEF StopHeartbeat, RequestEnds, Over, HmiTypeOK
<1>4. HmiTypeOK'
  BY <1>1, <1>2, <1>3 DEF HmiTypeOK
<1> QED
  BY <1>1, <1>2, <1>4 DEF OneMarks, StartedSoFar, Begun

(* A step of a loop that the controller is not told of.                       *)
Unnoticed(l) ==
  \/ LoopDials(l) \/ LoopGivesUp(l) \/ LoopHead(l)
  \/ LoopWrites(l) \/ LoopMarks(l) \/ LoopCloses(l) \/ LoopReturns(l)

LEMMA HmiLoopSteps ==
  ASSUME HmiIInv, NEW l \in Loops, Unnoticed(l)
  PROVE  HmiIInv'
<1> USE DEF HmiIInv
<1>1. UNCHANGED <<serve, malformed, exited, running, handle, starting, gen, request, over,
                  stopped, lost, reachable, outages, up>>
  BY DEF Unnoticed, LoopDials, LoopGivesUp, LoopHead, LoopWrites, LoopMarks,
         LoopCloses, LoopReturns, program, controller, plc
<1>2. PICK where \in {"dial", "head", "write", "mark", "return", "tell"} :
        /\ loop' = [loop EXCEPT ![l] = where]
        /\ where = "mark" => IoFree
  BY DEF Unnoticed, LoopDials, LoopGivesUp, LoopHead, LoopWrites, LoopMarks,
         LoopCloses, LoopReturns, Go
<1>3. loop[l] \notin {"none", "gone"}
  BY DEF Unnoticed, LoopDials, LoopGivesUp, LoopHead, LoopWrites, LoopMarks,
         LoopCloses, LoopReturns
<1>4. link' \in {"none", "live", "dead"}
  BY DEF Unnoticed, LoopDials, LoopGivesUp, LoopHead, LoopWrites, LoopMarks,
         LoopCloses, LoopReturns, plc, HmiTypeOK
<1>5. HmiTypeOK'
  BY <1>1, <1>2, <1>4 DEF HmiTypeOK
<1>6. OneMarks'
  BY <1>2 DEF OneMarks, HmiTypeOK, IoFree
<1>7. StartedSoFar'
  <2> SUFFICES ASSUME running, NEW t \in Begun, starting = 0 \/ t < starting
               PROVE  loop'[<<gen, t>>] \notin {"none", "gone"}
    BY <1>1 DEF StartedSoFar, Begun
  <2>1. <<gen, t>> \in Loops /\ loop[<<gen, t>>] \notin {"none", "gone"}
    BY DEF StartedSoFar, Begun, Loops
  <2> QED
    BY <1>2, <2>1 DEF HmiTypeOK
<1> QED
  BY <1>1, <1>5, <1>6, <1>7

LEMMA HmiTells ==
  ASSUME HmiIInv, NEW l \in Loops, LoopTells(l)
  PROVE  HmiIInv'
<1> USE DEF HmiIInv, LoopTells, Told, Go
<1>1. HmiTypeOK'
  BY DEF HmiTypeOK, program, plc
<1>2. OneMarks'
  BY DEF OneMarks, HmiTypeOK
<1>3. StartedSoFar'
  BY DEF StartedSoFar
<1> QED
  BY <1>1, <1>2, <1>3 DEF program

LEMMA HmiKept == HmiIInv /\ [HmiNext]_hmiVars => HmiIInv'
<1> SUFFICES ASSUME HmiIInv, [HmiNext]_hmiVars PROVE HmiIInv'
  OBVIOUS
<1>1. CASE UNCHANGED hmiVars
  BY <1>1 DEF hmiVars, program, controller, plc, HmiIInv, HmiTypeOK, OneMarks, StartedSoFar, Begun
<1>2. CASE \E l \in Loops : Loop(l)
  BY <1>2, HmiLoopSteps, HmiTells DEF Loop, Unnoticed
<1> QED
  BY <1>1, <1>2, HmiOutside, HmiStart, HmiStartLoop, HmiStartFails, HmiStop DEF HmiNext

(* While /api/v1/heartbeat reports running, every loop that the last Start has *)
(* begun is there, those of all tags unless it failed at a malformed one,     *)
(* whatever loops of earlier Starts, that a Stop has not ended yet, say when  *)
(* they end; and one loop at most marks its beat with ioMu held.              *)
THEOREM ReportedRuns == HmiSpec => []HmiInv
<1>1. HmiIInv => HmiInv
  BY DEF HmiIInv, HmiInv, RunningHasLoops, StartedSoFar
<1> QED
  BY <1>1, HmiInitial, HmiKept, PTL DEF HmiSpec
============================================================================
