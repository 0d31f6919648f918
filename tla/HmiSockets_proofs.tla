--------------------------- MODULE HmiSockets_proofs ---------------------------
(***************************************************************************)
(* The safety properties of WebSocket clients and their requests for any   *)
(* clients, tags, queue and number of requests.                            *)
(***************************************************************************)
EXTENDS HmiSockets, TLAPS

USE SetsAssumption, SizesAssumption

Held(s) == {s[i] : i \in 1 .. Len(s)}
Distinct(s) == \A i, j \in 1 .. Len(s) : s[i] = s[j] => i = j
WasAsked(r) == r[2] <= Len(asked[r[1]])

AskedOK == asked \in [Clients -> Seq([tag : Tags \cup Unknown, raw : BOOLEAN])]

(* A client in the hub, or one a broadcast has yet to reach, is read from.   *)
HubReads ==
  /\ \A c \in hub \cup telling : reader[c] = "read"
  /\ \A c \in Clients : reader[c] = "read" => chan[c] = "open"

(* A request that has no answer yet is in one place, and once.               *)
OnePlace ==
  /\ Distinct(queue) /\ Distinct(toAck) /\ \A t \in Analog : Distinct(pending[t])
  /\ at # "ack" => toAck = <<>>
  /\ Held(queue) \cap Held(toAck) = {}
  /\ \A t \in Analog : Held(pending[t]) \cap (Held(queue) \cup Held(toAck)) = {}
  /\ \A t \in Analog : \A r \in Held(pending[t]) : Of(r).tag = t

Unanswered ==
  /\ \A r \in Held(queue) \cup Held(toAck) : WasAsked(r) /\ acks[r] = <<>>
  /\ \A t \in Analog : \A r \in Held(pending[t]) : WasAsked(r) /\ acks[r] = <<>>
  /\ \A r \in Requests : ~WasAsked(r) => acks[r] = <<>>

(* In s, the sequence of requests taken, r comes before w or is w.            *)
Before(s, r, w) == \E i, j \in 1 .. Len(s) : i <= j /\ s[i] = r /\ s[j] = w

(* The last request of a bucket was taken last, and what is being answered   *)
(* `ok` is a written request and what it stands for.                         *)
TakenInOrder ==
  /\ Distinct(taken) /\ Held(taken) \cap Held(queue) = {}
  /\ \A r \in Held(taken) : WasAsked(r)
  /\ written \subseteq Held(taken)
  /\ \A t \in Analog : \A r \in Held(pending[t]) : Before(taken, r, Written(pending[t]))
  /\ at = "ack" /\ result = "ok" =>
       \E w \in written : \A r \in Held(toAck) : Before(taken, r, w) /\ Of(r).tag = Of(w).tag

IInv == Inv /\ OkIsWritten /\ AskedOK /\ HubReads /\ OnePlace /\ Unanswered /\ TakenInOrder

----------------------------------------------------------------------------
(* Sequences *)

LEMMA Appended ==
  ASSUME NEW S, NEW s \in Seq(S), NEW x \in S
  PROVE  /\ Append(s, x) \in Seq(S) /\ Len(Append(s, x)) = Len(s) + 1
         /\ \A i \in 1 .. Len(s) : Append(s, x)[i] = s[i]
         /\ Append(s, x)[Len(s) + 1] = x
         /\ Held(Append(s, x)) = Held(s) \cup {x}
         /\ Distinct(s) /\ x \notin Held(s) => Distinct(Append(s, x))
<1> DEFINE a == Append(s, x)
<1>1. /\ a \in Seq(S) /\ Len(a) = Len(s) + 1 /\ Len(s) \in Nat
      /\ \A i \in 1 .. Len(s) : a[i] = s[i]
      /\ a[Len(s) + 1] = x
  OBVIOUS
<1>2. 1 .. Len(a) = 1 .. Len(s) \cup {Len(s) + 1} BY <1>1
<1> HIDE DEF a
<1>3. Held(a) = Held(s) \cup {x} BY <1>1, <1>2 DEF Held
<1>4. ASSUME Distinct(s), x \notin Held(s) PROVE Distinct(a)
  <2>1. \A i \in 1 .. Len(s) : s[i] # x BY <1>4 DEF Held
  <2>2. SUFFICES ASSUME NEW i \in 1 .. Len(a), NEW j \in 1 .. Len(a), a[i] = a[j] PROVE i = j
    BY DEF Distinct
  <2>3. QED BY <1>1, <1>2, <1>4, <2>1, <2>2 DEF Distinct
<1>5. QED BY <1>1, <1>3, <1>4 DEF a

LEMMA Tailed ==
  ASSUME NEW S, NEW s \in Seq(S), s # <<>>
  PROVE  /\ Tail(s) \in Seq(S) /\ Len(Tail(s)) = Len(s) - 1
         /\ Head(s) \in Held(s) /\ Head(s) \in S
         /\ Held(Tail(s)) \subseteq Held(s)
         /\ Distinct(s) => Distinct(Tail(s)) /\ Held(Tail(s)) = Held(s) \ {Head(s)}
<1> DEFINE a == Tail(s)
<1>1. /\ a \in Seq(S) /\ Len(s) \in Nat /\ Len(s) >= 1 /\ Len(a) = Len(s) - 1
      /\ \A i \in 1 .. Len(a) : a[i] = s[i + 1]
      /\ Head(s) = s[1] /\ s[1] \in S
  OBVIOUS
<1> HIDE DEF a
<1>2. Head(s) \in Held(s) BY <1>1 DEF Held
<1>3. Held(a) \subseteq Held(s) BY <1>1 DEF Held
<1>4. ASSUME Distinct(s) PROVE Distinct(a) /\ Held(a) = Held(s) \ {Head(s)}
  <2>1. Distinct(a)
    <3> SUFFICES ASSUME NEW i \in 1 .. Len(a), NEW j \in 1 .. Len(a), a[i] = a[j] PROVE i = j
      BY DEF Distinct
    <3>1. i + 1 \in 1 .. Len(s) /\ j + 1 \in 1 .. Len(s) /\ s[i + 1] = s[j + 1] BY <1>1
    <3>2. i + 1 = j + 1 BY <1>4, <3>1 DEF Distinct
    <3>3. QED BY <3>2
  <2>2. Head(s) \notin Held(a)
    <3> SUFFICES ASSUME NEW i \in 1 .. Len(a), a[i] = s[1] PROVE FALSE
      BY <1>1 DEF Held
    <3>1. i + 1 \in 1 .. Len(s) /\ 1 \in 1 .. Len(s) /\ s[i + 1] = s[1] BY <1>1
    <3>2. i + 1 = 1 BY <1>4, <3>1 DEF Distinct
    <3>3. QED BY <3>2
  <2>3. \A r \in Held(s) \ {Head(s)} : r \in Held(a)
    <3> SUFFICES ASSUME NEW i \in 1 .. Len(s), s[i] # s[1] PROVE s[i] \in Held(a)
      BY <1>1 DEF Held
    <3>1. i # 1 OBVIOUS
    <3>2. i - 1 \in 1 .. Len(a) /\ a[i - 1] = s[(i - 1) + 1] /\ (i - 1) + 1 = i BY <1>1, <3>1
    <3>3. QED BY <3>2 DEF Held
  <2>4. QED BY <1>3, <2>1, <2>2, <2>3
<1>5. QED BY <1>1, <1>2, <1>3, <1>4 DEF a

LEMMA HeldType == ASSUME NEW S, NEW s \in Seq(S) PROVE Held(s) \subseteq S
BY DEF Held

LEMMA HeldSingle ==
  ASSUME NEW S, NEW x \in S
  PROVE  <<x>> \in Seq(S) /\ Held(<<x>>) = {x} /\ Distinct(<<x>>) /\ <<x>> # <<>>
BY DEF Held, Distinct

LEMMA HeldEmpty == Held(<<>>) = {} /\ Distinct(<<>>)
BY DEF Held, Distinct

LEMMA LastHeld ==
  ASSUME NEW S, NEW s \in Seq(S), s # <<>>
  PROVE  Written(s) \in Held(s)
<1>1. Len(s) \in 1 .. Len(s) OBVIOUS
<1>2. QED BY <1>1 DEF Held, Written

LEMMA RequestType ==
  ASSUME NEW r \in Requests PROVE r[1] \in Clients /\ r[2] \in 1 .. MaxSets(r[1])
BY DEF Requests

LEMMA AnswersType ==
  ASSUME TypeOK, NEW r \in Requests
  PROVE  acks[r] \in Seq({"ok", "err", "busy", "lost"})
BY DEF TypeOK

----------------------------------------------------------------------------
LEMMA InitInv == Init => IInv
<1> SUFFICES ASSUME Init PROVE IInv
  OBVIOUS
<1> USE DEF Init
<1>1. TypeOK
  <2>1. /\ queue \in Seq(Requests) /\ toAck \in Seq(Requests) /\ taken \in Seq(Requests)
        /\ Len(queue) <= QueueSize
    OBVIOUS
  <2>2. acks \in [Requests -> Seq({"ok", "err", "busy", "lost"})]
        /\ pending \in [Analog -> Seq(Requests)]
    OBVIOUS
  <2>3. \A c \in Clients : Len(asked[c]) <= MaxSets(c)
    <3> SUFFICES ASSUME NEW c \in Clients PROVE Len(asked[c]) <= MaxSets(c)
      OBVIOUS
    <3>1. asked[c] = <<>> /\ Len(asked[c]) = 0 OBVIOUS
    <3>2. MaxSets(c) \in Nat BY SizesAssumption
    <3>3. QED BY <3>1, <3>2
  <2>4. plc \in [Tags -> Requests \cup {NoRequest}] OBVIOUS
  <2>5. /\ reader \in [Clients -> {"none", "read", "leaving", "gone"}]
        /\ chan \in [Clients -> {"none", "open", "closed"}]
        /\ hub \subseteq Clients /\ telling \subseteq Clients
    OBVIOUS
  <2>6. QED BY <2>1, <2>2, <2>3, <2>4, <2>5 DEF TypeOK
<1>2. HubIsOpen /\ HubReads BY DEF HubIsOpen, HubReads
<1>3. AnsweredOnce BY DEF AnsweredOnce
<1>4. OkIsWritten BY DEF OkIsWritten
<1>5. AskedOK BY DEF AskedOK
<1>6. OnePlace BY HeldEmpty DEF OnePlace
<1>7. Unanswered BY HeldEmpty DEF Unanswered
<1>8. TakenInOrder BY HeldEmpty DEF TakenInOrder
<1>9. QED BY <1>1, <1>2, <1>3, <1>4, <1>5, <1>6, <1>7, <1>8 DEF IInv, Inv

(* What connections, broadcasts and their ends leave alone.                  *)
LEMMA RequestsKept ==
  ASSUME IInv, UNCHANGED <<asked, queue, loopVars, plc, acks, written>>
  PROVE  OkIsWritten' /\ AskedOK' /\ OnePlace' /\ Unanswered' /\ TakenInOrder' /\ AnsweredOnce'
<1> USE DEF loopVars
<1>1. OkIsWritten' BY DEF IInv, OkIsWritten, Of
<1>2. AskedOK' /\ AnsweredOnce' BY DEF IInv, Inv, AskedOK, AnsweredOnce
<1>3. OnePlace' BY DEF IInv, OnePlace, Of
<1>4. Unanswered' BY DEF IInv, Unanswered, WasAsked
<1>5. TakenInOrder' BY DEF IInv, TakenInOrder, WasAsked, Before, Of
<1>6. QED BY <1>1, <1>2, <1>3, <1>4, <1>5

LEMMA ClientsInv ==
  ASSUME IInv, NEW c \in Clients, Connect(c) \/ ReadError(c) \/ CloseSend(c)
  PROVE  IInv'
<1>1. UNCHANGED <<asked, queue, loopVars, plc, acks, written, crashed, telling>>
  BY DEF Connect, ReadError, CloseSend, loopVars
<1>2. TypeOK' /\ HubReads' /\ HubIsOpen'
  <2>1. CASE Connect(c)
    BY <1>1, <2>1 DEF Connect, IInv, Inv, TypeOK, HubReads, HubIsOpen, loopVars
  <2>2. CASE ReadError(c)
    BY <1>1, <2>2 DEF ReadError, IInv, Inv, TypeOK, HubReads, HubIsOpen, loopVars
  <2>3. CASE CloseSend(c)
    <3>1. c \notin hub \cup telling BY <2>3 DEF CloseSend, IInv, HubReads
    <3>2. QED BY <1>1, <2>3, <3>1 DEF CloseSend, IInv, Inv, TypeOK, HubReads, HubIsOpen, loopVars
  <2>4. QED BY <2>1, <2>2, <2>3
<1>3. QED BY <1>1, <1>2, RequestsKept DEF IInv, Inv

LEMMA BroadcastInv ==
  ASSUME IInv, Broadcast \/ \E c \in Clients : BroadcastTo(c)
  PROVE  IInv'
<1>1. UNCHANGED <<asked, queue, loopVars, plc, acks, written, reader, hub, chan>>
  BY DEF Broadcast, BroadcastTo, loopVars
<1>2. telling' \subseteq hub \cup telling /\ crashed' \in BOOLEAN
  BY DEF Broadcast, BroadcastTo, IInv, Inv, TypeOK
<1>3. TypeOK' BY <1>1, <1>2 DEF IInv, Inv, TypeOK, loopVars
<1>4. HubReads' /\ HubIsOpen' BY <1>1, <1>2 DEF IInv, Inv, HubReads, HubIsOpen
<1>5. QED BY <1>1, <1>3, <1>4, RequestsKept DEF IInv, Inv

(* tick, the end of a flush, the end of the loop                             *)
LEMMA BetweenInv ==
  ASSUME IInv, Tick \/ Flushed \/ Stop
  PROVE  IInv'
<1>1. /\ UNCHANGED <<clientVars, asked, queue, pending, back, toAck, result, taken, plc, crashed,
                      acks, written>>
      /\ at # "ack" /\ at' \in {"select", "flush", "stopped"}
  BY DEF Tick, Flushed, Stop
<1>2. toAck = <<>> BY <1>1 DEF IInv, OnePlace
<1>3. TypeOK' BY <1>1, <1>2 DEF IInv, Inv, TypeOK, clientVars
<1>4. HubReads' /\ HubIsOpen' /\ AnsweredOnce' /\ AskedOK'
  BY <1>1 DEF IInv, Inv, HubReads, HubIsOpen, AnsweredOnce, AskedOK, clientVars
<1>5. OkIsWritten' BY <1>1 DEF IInv, OkIsWritten, Of
<1>6. OnePlace' BY <1>1, <1>2 DEF IInv, OnePlace, Of
<1>7. Unanswered' BY <1>1 DEF IInv, Unanswered, WasAsked
<1>8. TakenInOrder'
  <2>1. at' # "ack" BY <1>1
  <2>2. QED BY <1>1, <2>1 DEF IInv, TakenInOrder, WasAsked, Before, Written
<1>9. QED BY <1>3, <1>4, <1>5, <1>6, <1>7, <1>8 DEF IInv, Inv

----------------------------------------------------------------------------
(* A new request is in no place yet, and the old ones are as they were.      *)
LEMMA ReadSetInv ==
  ASSUME IInv, NEW c \in Clients, NEW t \in Tags \cup Unknown, NEW raw \in BOOLEAN, ReadSet(c, t, raw)
  PROVE  IInv'
<1> DEFINE n == Len(asked[c]) + 1
<1> DEFINE entry == [tag |-> t, raw |-> raw]
<1>1. /\ reader[c] = "read" /\ Len(asked[c]) < MaxSets(c)
      /\ asked' = [asked EXCEPT ![c] = Append(@, entry)]
      /\ UNCHANGED <<clientVars, loopVars, plc, written>>
      /\ \/ /\ Len(queue) < QueueSize
            /\ queue' = Append(queue, <<c, n>>)
            /\ UNCHANGED <<crashed, acks>>
         \/ SendAck(<<c, n>>, "busy") /\ UNCHANGED queue
  BY DEF ReadSet, HasRoom, Enqueued
<1>2. /\ asked[c] \in Seq([tag : Tags \cup Unknown, raw : BOOLEAN])
      /\ entry \in [tag : Tags \cup Unknown, raw : BOOLEAN]
      /\ Len(asked[c]) \in Nat /\ n \in Nat /\ n = Len(asked[c]) + 1
  <2>1. asked[c] \in Seq([tag : Tags \cup Unknown, raw : BOOLEAN]) BY DEF IInv, AskedOK
  <2>2. Len(asked[c]) \in Nat BY <2>1
  <2>3. entry \in [tag : Tags \cup Unknown, raw : BOOLEAN] OBVIOUS
  <2>4. QED BY <2>1, <2>2, <2>3
<1> HIDE DEF entry
<1>3. /\ Len(asked'[c]) = n /\ \A m \in 1 .. Len(asked[c]) : asked'[c][m] = asked[c][m]
      /\ \A d \in Clients \ {c} : asked'[d] = asked[d]
      /\ asked'[c] \in Seq([tag : Tags \cup Unknown, raw : BOOLEAN])
  <2>1. asked'[c] = Append(asked[c], entry) /\ \A d \in Clients \ {c} : asked'[d] = asked[d]
    BY <1>1 DEF IInv, AskedOK
  <2>2. QED BY <1>2, <2>1, Appended
<1>4. PICK r \in Requests : r = <<c, n>>
  <2>1. MaxSets(c) \in Nat /\ n \in 1 .. MaxSets(c) BY <1>1, <1>2
  <2>2. <<c, n>> \in {c} \X (1 .. MaxSets(c)) BY <2>1
  <2>3. QED BY <2>2 DEF Requests
<1>5. ~WasAsked(r) /\ r[1] = c /\ r[2] = n /\ acks[r] = <<>>
  BY <1>2, <1>4 DEF WasAsked, IInv, Unanswered
<1>6. ASSUME NEW q \in Requests
      PROVE  /\ WasAsked(q) => q # r /\ WasAsked(q)' /\ Of(q)' = Of(q)
             /\ ~WasAsked(q)' => ~WasAsked(q) /\ q # r
  <2>1. q[1] \in Clients /\ q[2] \in Nat /\ q[2] >= 1 BY RequestType
  <2>2. CASE q[1] = c BY <1>2, <1>3, <1>5, <2>1, <2>2 DEF WasAsked, Of
  <2>3. CASE q[1] # c BY <1>3, <1>5, <2>1, <2>3 DEF WasAsked, Of
  <2>4. QED BY <2>2, <2>3
<1>7. /\ queue \in Seq(Requests) /\ Held(queue) \subseteq Requests
      /\ Held(toAck) \subseteq Requests /\ Held(taken) \subseteq Requests
      /\ \A u \in Analog : Held(pending[u]) \subseteq Requests
  BY HeldType DEF IInv, Inv, TypeOK
<1>8. /\ r \notin Held(queue) /\ r \notin Held(toAck) /\ r \notin Held(taken)
      /\ \A u \in Analog : r \notin Held(pending[u])
  BY <1>5 DEF IInv, Unanswered, TakenInOrder
<1>9. /\ queue' \in Seq(Requests) /\ Len(queue') <= QueueSize /\ Distinct(queue')
      /\ queue' = queue \/ (Held(queue') = Held(queue) \cup {r} /\ acks' = acks)
  <2>1. CASE queue' = queue BY <2>1 DEF IInv, Inv, TypeOK, OnePlace
  <2>2. CASE queue' = Append(queue, r) /\ Len(queue) < QueueSize /\ acks' = acks
    BY <1>7, <1>8, <2>2, Appended DEF IInv, OnePlace
  <2>3. QED BY <1>1, <1>4, <2>1, <2>2
<1>10. /\ acks' = acks
          \/ /\ queue' = queue
             /\ \E h \in {"busy", "lost"} : acks' = [acks EXCEPT ![r] = <<h>>]
       /\ crashed' \in BOOLEAN
  <2>1. CASE UNCHANGED <<crashed, acks>> BY <2>1 DEF IInv, Inv, TypeOK
  <2>2. CASE SendAck(r, "busy") /\ queue' = queue
    <3>1. CASE chan[r[1]] = "closed" BY <2>2, <3>1 DEF SendAck
    <3>2. CASE chan[r[1]] # "closed"
      <4>1. PICK h \in {"busy", "lost"} : acks' = [acks EXCEPT ![r] = Append(@, h)]
        BY <2>2, <3>2 DEF SendAck
      <4>2. acks' = [acks EXCEPT ![r] = <<h>>] BY <1>5, <4>1 DEF IInv, Inv, TypeOK
      <4>3. QED BY <2>2, <3>2, <4>2 DEF SendAck, IInv, Inv, TypeOK
    <3>3. QED BY <3>1, <3>2
  <2>3. QED BY <1>1, <1>4, <2>1, <2>2
<1>11. /\ acks' \in [Requests -> Seq({"ok", "err", "busy", "lost"})]
       /\ \A q \in Requests : q # r => acks'[q] = acks[q]
       /\ Len(acks'[r]) <= 1 /\ acks'[r] # <<"ok">>
       /\ r \in Held(queue') => acks'[r] = <<>>
  <2>1. CASE acks' = acks BY <1>5, <2>1 DEF IInv, Inv, TypeOK
  <2>2. CASE queue' = queue /\ \E h \in {"busy", "lost"} : acks' = [acks EXCEPT ![r] = <<h>>]
    <3>1. PICK h \in {"busy", "lost"} : acks' = [acks EXCEPT ![r] = <<h>>] BY <2>2
    <3>2. acks'[r] = <<h>> /\ <<h>> \in Seq({"ok", "err", "busy", "lost"}) /\ <<h>> # <<"ok">>
      BY <3>1 DEF IInv, Inv, TypeOK
    <3>3. QED BY <1>8, <2>2, <3>1, <3>2 DEF IInv, Inv, TypeOK
  <2>3. QED BY <1>10, <2>1, <2>2
<1> USE DEF clientVars, loopVars
<1>12. TypeOK'
  <2>1. \A d \in Clients : Len(asked'[d]) <= MaxSets(d)
    <3>1. MaxSets(c) \in Nat /\ n <= MaxSets(c) BY <1>1, <1>2
    <3>2. QED BY <1>3, <3>1 DEF IInv, Inv, TypeOK
  <2>2. QED BY <1>1, <1>9, <1>10, <1>11, <2>1 DEF IInv, Inv, TypeOK
<1>13. HubReads' /\ HubIsOpen' BY <1>1 DEF IInv, Inv, HubReads, HubIsOpen
<1>14. AnsweredOnce' BY <1>11 DEF IInv, Inv, AnsweredOnce
<1>15. AskedOK'
  <2>1. DOMAIN asked' = Clients BY <1>1 DEF IInv, AskedOK
  <2>2. QED BY <1>1, <1>3, <2>1 DEF IInv, AskedOK
<1>16. Unanswered'
  <2>1. WasAsked(r)' BY <1>2, <1>3, <1>5 DEF WasAsked
  <2>2. ASSUME NEW q \in Held(queue') \cup Held(toAck) PROVE WasAsked(q)' /\ acks'[q] = <<>>
    <3>1. CASE q = r /\ r \in Held(queue') BY <2>1, <1>11, <3>1
    <3>2. CASE q \in Held(queue) \cup Held(toAck)
      BY <1>6, <1>7, <1>11, <3>2 DEF IInv, Unanswered
    <3>3. QED BY <2>2, <1>8, <1>9, <3>1, <3>2
  <2>3. ASSUME NEW u \in Analog, NEW q \in Held(pending[u]) PROVE WasAsked(q)' /\ acks'[q] = <<>>
    BY <1>6, <1>7, <1>11 DEF IInv, Unanswered
  <2>4. ASSUME NEW q \in Requests, ~WasAsked(q)' PROVE acks'[q] = <<>>
    BY <2>4, <1>6, <1>11 DEF IInv, Unanswered
  <2>5. QED BY <1>1, <2>2, <2>3, <2>4 DEF Unanswered
<1>17. OnePlace'
  <2>1. \A u \in Analog : \A q \in Held(pending'[u]) : Of(q)' = u \/ Of(q)'.tag = u
    BY <1>1, <1>6, <1>7 DEF IInv, OnePlace, Unanswered
  <2>2. \A u \in Analog : \A q \in Held(pending[u]) : Of(q)'.tag = u
    BY <1>6, <1>7 DEF IInv, OnePlace, Unanswered
  <2>3. QED BY <1>1, <1>8, <1>9, <2>2 DEF IInv, OnePlace
<1>18. \A q, w : Before(taken', q, w) <=> Before(taken, q, w) BY <1>1 DEF Before
<1>19. TakenInOrder'
  <2>1. \A q \in Held(taken) : WasAsked(q)' /\ Of(q)' = Of(q)
    BY <1>6, <1>7 DEF IInv, TakenInOrder
  <2>2. Held(taken') \cap Held(queue') = {} BY <1>1, <1>8, <1>9 DEF IInv, TakenInOrder
  <2>3. at' = "ack" /\ result' = "ok" =>
          \E w \in written' : \A q \in Held(toAck') : Before(taken', q, w) /\ Of(q)'.tag = Of(w)'.tag
    <3> SUFFICES ASSUME at = "ack", result = "ok"
                 PROVE  \E w \in written : \A q \in Held(toAck) : Before(taken', q, w) /\ Of(q)'.tag = Of(w)'.tag
      BY <1>1
    <3>1. PICK w \in written : \A q \in Held(toAck) : Before(taken, q, w) /\ Of(q).tag = Of(w).tag
      BY DEF IInv, TakenInOrder
    <3>2. Of(w)' = Of(w) BY <2>1 DEF IInv, TakenInOrder
    <3>3. \A q \in Held(toAck) : Of(q)' = Of(q) BY <1>6, <1>7 DEF IInv, Unanswered
    <3>4. QED BY <1>18, <3>1, <3>2, <3>3
  <2>4. QED BY <1>1, <1>18, <2>1, <2>2, <2>3 DEF IInv, TakenInOrder
<1>20. OkIsWritten'
  <2> SUFFICES ASSUME NEW i \in 1 .. Len(taken), acks'[taken[i]] = <<"ok">>
               PROVE  \E j \in i .. Len(taken) : taken[j] \in written /\ Of(taken[j])'.tag = Of(taken[i])'.tag
    BY <1>1 DEF OkIsWritten
  <2>1. \A j \in 1 .. Len(taken) : taken[j] \in Held(taken) BY DEF Held
  <2>2. taken[i] # r BY <1>8, <2>1
  <2>3. acks[taken[i]] = <<"ok">> BY <1>7, <1>11, <2>1, <2>2
  <2>4. PICK j \in i .. Len(taken) : taken[j] \in written /\ Of(taken[j]).tag = Of(taken[i]).tag
    BY <2>3 DEF IInv, OkIsWritten
  <2>5. j \in 1 .. Len(taken) BY DEF IInv, Inv, TypeOK
  <2>6. Of(taken[j])' = Of(taken[j]) /\ Of(taken[i])' = Of(taken[i])
    BY <1>1, <1>6, <1>7, <2>1, <2>5 DEF IInv, TakenInOrder
  <2>7. QED BY <2>4, <2>6
<1>21. QED
  BY <1>12, <1>13, <1>14, <1>15, <1>16, <1>17, <1>19, <1>20 DEF IInv, Inv

----------------------------------------------------------------------------
(* The head of the queue is taken: it comes after all that were.             *)
LEMMA Taken ==
  ASSUME IInv, TakeHead, NEW h, h = Head(queue), acks' = acks, asked' = asked, written \subseteq written'
  PROVE  /\ h \in Requests /\ h \in Held(queue)
         /\ queue' \in Seq(Requests) /\ Len(queue') <= QueueSize
         /\ Distinct(queue') /\ Held(queue') = Held(queue) \ {h}
         /\ taken' \in Seq(Requests) /\ Distinct(taken')
         /\ Held(taken') = Held(taken) \cup {h}
         /\ Held(taken') \cap Held(queue') = {}
         /\ \A r \in Held(taken') : WasAsked(r)'
         /\ \A r \in Held(taken') : Before(taken', r, h)
         /\ \A r, w : Before(taken, r, w) => Before(taken', r, w)
         /\ OkIsWritten' /\ AskedOK' /\ AnsweredOnce' /\ (\A r : Of(r)' = Of(r))
<1>1. queue \in Seq(Requests) /\ queue # <<>> /\ queue' = Tail(queue) /\ taken \in Seq(Requests)
      /\ taken' = Append(taken, h) /\ Len(queue) \in Nat /\ Len(queue) <= QueueSize
      /\ Len(taken) \in Nat
  BY DEF TakeHead, IInv, Inv, TypeOK
<1>2. /\ h \in Requests /\ h \in Held(queue) /\ queue' \in Seq(Requests)
      /\ Len(queue') <= QueueSize /\ Distinct(queue') /\ Held(queue') = Held(queue) \ {h}
  BY <1>1, Tailed DEF IInv, OnePlace
<1>3. h \notin Held(taken) BY <1>2 DEF IInv, TakenInOrder
<1>4. /\ taken' \in Seq(Requests) /\ Len(taken') = Len(taken) + 1
      /\ \A i \in 1 .. Len(taken) : taken'[i] = taken[i]
      /\ taken'[Len(taken) + 1] = h
      /\ Held(taken') = Held(taken) \cup {h} /\ Distinct(taken')
  BY <1>1, <1>2, <1>3, Appended DEF IInv, TakenInOrder
<1>5. Held(taken') \cap Held(queue') = {} BY <1>2, <1>4 DEF IInv, TakenInOrder
<1>6. \A r \in Held(taken') : WasAsked(r)'
  <2>1. WasAsked(h) BY <1>2 DEF IInv, Unanswered
  <2>2. QED BY <1>4, <2>1 DEF IInv, TakenInOrder, WasAsked
<1>7. ASSUME NEW r \in Held(taken') PROVE Before(taken', r, h)
  <2>1. PICK i \in 1 .. Len(taken') : taken'[i] = r BY DEF Held
  <2>2. Len(taken') \in 1 .. Len(taken') /\ i <= Len(taken') /\ taken'[Len(taken')] = h
    BY <1>1, <1>4
  <2>3. QED BY <2>1, <2>2 DEF Before
<1>8. ASSUME NEW r, NEW w, Before(taken, r, w) PROVE Before(taken', r, w)
  <2>1. PICK i \in 1 .. Len(taken), j \in 1 .. Len(taken) : i <= j /\ taken[i] = r /\ taken[j] = w
    BY <1>8 DEF Before
  <2>2. i \in 1 .. Len(taken') /\ j \in 1 .. Len(taken') BY <1>1, <1>4
  <2>3. QED BY <1>4, <2>1, <2>2 DEF Before
<1>9. OkIsWritten'
  <2> SUFFICES ASSUME NEW i \in 1 .. Len(taken'), acks[taken'[i]] = <<"ok">>
               PROVE  \E j \in i .. Len(taken') : taken'[j] \in written' /\ Of(taken'[j]).tag = Of(taken'[i]).tag
    BY DEF OkIsWritten, Of
  <2>1. acks[h] = <<>> BY <1>2 DEF IInv, Unanswered
  <2>2. i \in 1 .. Len(taken)
    <3>1. acks[taken'[i]] # <<>> OBVIOUS
    <3>2. taken'[i] # h BY <2>1, <3>1
    <3>3. QED BY <1>1, <1>4, <3>2
  <2>3. PICK j \in i .. Len(taken) : taken[j] \in written /\ Of(taken[j]).tag = Of(taken[i]).tag
    BY <1>4, <2>2 DEF IInv, OkIsWritten
  <2>4. j \in i .. Len(taken') /\ j \in 1 .. Len(taken) BY <1>1, <1>4, <2>2
  <2>5. QED BY <1>4, <2>2, <2>3, <2>4
<1>10. AskedOK' /\ AnsweredOnce' /\ \A r : Of(r)' = Of(r)
  BY DEF IInv, Inv, AskedOK, AnsweredOnce, Of
<1>11. QED BY <1>2, <1>4, <1>5, <1>6, <1>7, <1>8, <1>9, <1>10

(* applyWrite keeps the types and writes what it answers `ok` for.           *)
LEMMA Applied ==
  ASSUME TypeOK, NEW r \in Requests, Apply(r)
  PROVE  /\ result' \in {"ok", "err"} /\ plc' \in [Tags -> Requests \cup {NoRequest}]
         /\ written \subseteq written' /\ written' \subseteq written \cup {r}
         /\ result' = "ok" => r \in written'
BY DEF Apply, TypeOK

(* The head is answered next, refused or written.                            *)
LEMMA AnsweredNextInv ==
  ASSUME IInv, Refuse \/ WriteAtOnce
  PROVE  IInv'
<1>h. PICK h \in Requests : h = Head(queue)
  BY Tailed DEF Refuse, WriteAtOnce, TakeHead, IInv, Inv, TypeOK
<1>1. /\ TakeHead /\ UNCHANGED <<clientVars, asked, pending, crashed, acks>>
      /\ at = "select" /\ at' = "ack" /\ back' = "select" /\ toAck' = <<h>>
  BY <1>h DEF Refuse, WriteAtOnce, TakeHead
<1>3. /\ result' \in {"ok", "err"} /\ plc' \in [Tags -> Requests \cup {NoRequest}]
      /\ written \subseteq written' /\ written' \subseteq written \cup {h}
      /\ result' = "ok" => h \in written'
  <2>1. CASE Refuse BY <2>1 DEF Refuse, IInv, Inv, TypeOK
  <2>2. CASE WriteAtOnce BY <1>h, <2>2, Applied DEF WriteAtOnce, IInv, Inv
  <2>3. QED BY <2>1, <2>2
<1>4. /\ h \in Held(queue)
      /\ queue' \in Seq(Requests) /\ Len(queue') <= QueueSize
      /\ Distinct(queue') /\ Held(queue') = Held(queue) \ {h}
      /\ taken' \in Seq(Requests) /\ Distinct(taken')
      /\ Held(taken') = Held(taken) \cup {h}
      /\ Held(taken') \cap Held(queue') = {}
      /\ \A r \in Held(taken') : WasAsked(r)' /\ Before(taken', r, h)
      /\ \A r, w : Before(taken, r, w) => Before(taken', r, w)
      /\ OkIsWritten' /\ AskedOK' /\ AnsweredOnce' /\ (\A r : Of(r)' = Of(r))
  BY <1>1, <1>3, <1>h, Taken
<1>5. /\ toAck' \in Seq(Requests) /\ toAck' # <<>> /\ Held(toAck') = {h} /\ Distinct(toAck')
  BY <1>1, <1>h, HeldSingle
<1>6. TypeOK' BY <1>1, <1>3, <1>4, <1>5 DEF IInv, Inv, TypeOK, clientVars
<1>7. HubReads' /\ HubIsOpen' BY <1>1 DEF IInv, Inv, HubReads, HubIsOpen, clientVars
<1>8. OnePlace' BY <1>1, <1>4, <1>5 DEF IInv, OnePlace
<1>9. Unanswered' BY <1>1, <1>4, <1>5 DEF IInv, Unanswered, WasAsked
<1>10. TakenInOrder'
  <2>1. \A t \in Analog : \A r \in Held(pending'[t]) : Before(taken', r, Written(pending'[t]))
    BY <1>1, <1>4 DEF IInv, TakenInOrder, Written
  <2>2. \A r \in Held(toAck') : Before(taken', r, h) /\ Of(r)'.tag = Of(h)'.tag
    BY <1>4, <1>5
  <2>3. written' \subseteq Held(taken') BY <1>3, <1>4 DEF IInv, TakenInOrder
  <2>4. QED BY <1>3, <1>4, <2>1, <2>2, <2>3 DEF TakenInOrder
<1>11. QED BY <1>4, <1>6, <1>7, <1>8, <1>9, <1>10 DEF IInv, Inv

(* The head goes to its tag's bucket, behind what was taken before it.       *)
LEMMA CollectInv ==
  ASSUME IInv, Collect
  PROVE  IInv'
<1>h. PICK h \in Requests : h = Head(queue)
  BY Tailed DEF Collect, TakeHead, IInv, Inv, TypeOK
<1>u. PICK u \in Analog : u = Of(h).tag
  BY <1>h DEF Collect, Collected
<1>1. /\ TakeHead /\ UNCHANGED <<clientVars, asked, at, back, toAck, result, plc, crashed, acks, written>>
      /\ at = "select" /\ u \in Analog /\ pending' = [pending EXCEPT ![u] = Append(@, h)]
  BY <1>h, <1>u DEF Collect, TakeHead, Collected
<1>2. /\ h \in Requests /\ h \in Held(queue)
      /\ queue' \in Seq(Requests) /\ Len(queue') <= QueueSize
      /\ Distinct(queue') /\ Held(queue') = Held(queue) \ {h}
      /\ taken' \in Seq(Requests) /\ Distinct(taken')
      /\ Held(taken') = Held(taken) \cup {h}
      /\ Held(taken') \cap Held(queue') = {}
      /\ \A r \in Held(taken') : WasAsked(r)' /\ Before(taken', r, h)
      /\ \A r, w : Before(taken, r, w) => Before(taken', r, w)
      /\ OkIsWritten' /\ AskedOK' /\ AnsweredOnce' /\ (\A r : Of(r)' = Of(r))
  BY <1>1, <1>h, Taken
<1>3. toAck = <<>> /\ Held(toAck) = {} BY <1>1, HeldEmpty DEF IInv, OnePlace
<1>4. h \notin Held(pending[u]) /\ pending[u] \in Seq(Requests)
  BY <1>1, <1>2 DEF IInv, Inv, TypeOK, OnePlace
<1>5. /\ pending'[u] = Append(pending[u], h) /\ pending' \in [Analog -> Seq(Requests)]
      /\ \A t \in Analog \ {u} : pending'[t] = pending[t]
  BY <1>1, <1>2, <1>4 DEF IInv, Inv, TypeOK
<1>6. /\ Len(pending'[u]) = Len(pending[u]) + 1 /\ pending'[u][Len(pending[u]) + 1] = h
      /\ Held(pending'[u]) = Held(pending[u]) \cup {h} /\ Distinct(pending'[u])
  BY <1>1, <1>2, <1>4, <1>5, Appended DEF IInv, OnePlace
<1>7. Of(h).tag = u BY <1>u
<1>8. Written(pending'[u]) = h BY <1>6 DEF Written
<1>9. TypeOK' BY <1>1, <1>2, <1>5 DEF IInv, Inv, TypeOK, clientVars
<1>10. HubReads' /\ HubIsOpen' BY <1>1 DEF IInv, Inv, HubReads, HubIsOpen, clientVars
<1>11. OnePlace'
  <2>1. \A t \in Analog : Distinct(pending'[t]) BY <1>1, <1>5, <1>6 DEF IInv, OnePlace
  <2>2. ASSUME NEW t \in Analog
        PROVE  /\ Held(pending'[t]) \cap (Held(queue') \cup Held(toAck')) = {}
               /\ \A r \in Held(pending'[t]) : Of(r)'.tag = t
    <3>1. CASE t = u BY <1>1, <1>2, <1>3, <1>6, <1>7, <3>1 DEF IInv, OnePlace
    <3>2. CASE t # u BY <1>1, <1>2, <1>3, <1>5, <3>2 DEF IInv, OnePlace
    <3>3. QED BY <3>1, <3>2
  <2>3. QED BY <1>1, <1>2, <1>3, <2>1, <2>2 DEF IInv, OnePlace
<1>12. Unanswered'
  <2>1. ASSUME NEW t \in Analog, NEW r \in Held(pending'[t]) PROVE WasAsked(r) /\ acks[r] = <<>>
    <3>1. r \in Held(pending[t]) \/ r = h
      <4>1. CASE t = u BY <1>6, <4>1
      <4>2. CASE t # u BY <1>5, <4>2
      <4>3. QED BY <4>1, <4>2
    <3>2. QED BY <1>2, <3>1 DEF IInv, Unanswered
  <2>2. QED BY <1>1, <1>2, <1>3, <2>1 DEF IInv, Unanswered, WasAsked
<1>13. TakenInOrder'
  <2>1. ASSUME NEW t \in Analog, NEW r \in Held(pending'[t]) PROVE Before(taken', r, Written(pending'[t]))
    <3>1. CASE t = u
      <4>1. CASE r = h BY <1>2, <1>8, <3>1, <4>1
      <4>2. CASE r \in Held(pending[u])
        <5>1. Before(taken, r, Written(pending[u])) BY <1>1, <4>2 DEF IInv, TakenInOrder
        <5>2. r \in Held(taken) BY <5>1 DEF Before, Held
        <5>3. QED BY <1>2, <1>8, <3>1, <5>2
      <4>3. QED BY <1>6, <2>1, <3>1, <4>1, <4>2
    <3>2. CASE t # u BY <1>2, <1>5, <3>2 DEF IInv, TakenInOrder
    <3>3. QED BY <3>1, <3>2
  <2>3. written' \subseteq Held(taken') BY <1>1, <1>2 DEF IInv, TakenInOrder
  <2>4. at' # "ack" BY <1>1
  <2>5. QED BY <1>2, <2>1, <2>3, <2>4 DEF TakenInOrder, Written
<1>14. QED BY <1>2, <1>9, <1>10, <1>11, <1>12, <1>13 DEF IInv, Inv

(* A bucket is answered next; its last request is written.                   *)
LEMMA FlushInv ==
  ASSUME IInv, NEW t \in Analog, FlushTag(t)
  PROVE  IInv'
<1>1. /\ at = "flush" /\ pending[t] # <<>> /\ pending' = [pending EXCEPT ![t] = <<>>]
      /\ Apply(Written(pending[t]))
      /\ at' = "ack" /\ back' = "flush" /\ toAck' = pending[t]
      /\ UNCHANGED <<clientVars, asked, queue, taken, crashed, acks>>
  BY DEF FlushTag, Emptied
<1>2. pending[t] \in Seq(Requests) /\ Written(pending[t]) \in Held(pending[t])
  BY <1>1, LastHeld DEF IInv, Inv, TypeOK
<1>3. PICK w \in Requests : w = Written(pending[t])
  BY <1>2, HeldType
<1>4. /\ result' \in {"ok", "err"} /\ plc' \in [Tags -> Requests \cup {NoRequest}]
      /\ written \subseteq written' /\ written' \subseteq written \cup {w}
      /\ result' = "ok" => w \in written'
  BY <1>1, <1>3, Applied DEF IInv, Inv
<1>5. /\ pending' \in [Analog -> Seq(Requests)]
      /\ pending'[t] = <<>> /\ Held(pending'[t]) = {} /\ Distinct(pending'[t])
      /\ \A u \in Analog \ {t} : pending'[u] = pending[u]
  BY <1>1, HeldEmpty DEF IInv, Inv, TypeOK
<1>6. \A r : Of(r)' = Of(r) /\ (WasAsked(r)' <=> WasAsked(r)) BY <1>1 DEF Of, WasAsked
<1>7. TypeOK' BY <1>1, <1>2, <1>4, <1>5 DEF IInv, Inv, TypeOK, clientVars
<1>8. HubReads' /\ HubIsOpen' /\ AnsweredOnce' /\ AskedOK'
  BY <1>1 DEF IInv, Inv, HubReads, HubIsOpen, AnsweredOnce, AskedOK, clientVars
<1>9. OkIsWritten'
  BY <1>1, <1>4, <1>6 DEF IInv, OkIsWritten
<1>10. OnePlace'
  <2>1. ASSUME NEW u \in Analog
        PROVE  /\ Distinct(pending'[u])
               /\ Held(pending'[u]) \cap (Held(queue) \cup Held(pending[t])) = {}
               /\ \A r \in Held(pending'[u]) : Of(r).tag = u
    <3>1. CASE u = t
      <4>1. Held(pending'[u]) = {} /\ Distinct(pending'[u]) BY <1>5, <3>1, Zenon
      <4>2. QED BY <4>1
    <3>2. CASE u # t
      <4>1. pending'[u] = pending[u] BY <1>5, <3>2
      <4>2. /\ Distinct(pending[u]) /\ Held(pending[u]) \cap Held(queue) = {}
            /\ \A r \in Held(pending[u]) : Of(r).tag = u
        BY DEF IInv, OnePlace
      <4>3. Held(pending[u]) \cap Held(pending[t]) = {} BY <3>2 DEF IInv, OnePlace
      <4>4. QED BY <4>1, <4>2, <4>3
    <3>3. QED BY <3>1, <3>2
  <2>2. Held(queue) \cap Held(pending[t]) = {} BY DEF IInv, OnePlace
  <2>3. Distinct(queue) /\ Distinct(pending[t]) BY DEF IInv, OnePlace
  <2>4. QED BY <1>1, <1>6, <2>1, <2>2, <2>3 DEF OnePlace
<1>11. Unanswered'
  <2>1. \A u \in Analog : Held(pending'[u]) \subseteq Held(pending[u]) BY <1>5
  <2>2. QED BY <1>1, <1>6, <2>1 DEF IInv, Unanswered
<1>12. TakenInOrder'
  <2>1. \A r \in Held(pending[t]) : Before(taken, r, w) /\ Of(r).tag = t
    BY <1>3 DEF IInv, TakenInOrder, OnePlace
  <2>2. Of(w).tag = t BY <1>2, <1>3, <2>1
  <2>3. w \in Held(taken) BY <1>2, <1>3, <2>1 DEF Before, Held
  <2>4. ASSUME NEW u \in Analog, NEW r \in Held(pending'[u]) PROVE Before(taken, r, Written(pending'[u]))
    BY <1>5 DEF IInv, TakenInOrder
  <2>5. result' = "ok" =>
          \E v \in written' : \A r \in Held(toAck') : Before(taken, r, v) /\ Of(r).tag = Of(v).tag
    BY <1>1, <1>4, <2>1, <2>2
  <2>6. written' \subseteq Held(taken) BY <1>4, <2>3 DEF IInv, TakenInOrder
  <2>7. QED BY <1>1, <1>6, <2>4, <2>5, <2>6 DEF IInv, TakenInOrder, Written
<1>13. QED BY <1>7, <1>8, <1>9, <1>10, <1>11, <1>12 DEF IInv, Inv

(* One more is answered: no other place holds it, and what it stands for is  *)
(* written if the answer is `ok`.                                            *)
LEMMA AckInv ==
  ASSUME IInv, Ack
  PROVE  IInv'
<1>1. /\ at = "ack" /\ SendAck(Head(toAck), result) /\ toAck' = Tail(toAck)
      /\ at' = IF Len(toAck) = 1 THEN back ELSE "ack"
      /\ UNCHANGED <<clientVars, asked, queue, pending, back, result, taken, plc, written>>
  BY DEF Ack
<1>2. toAck \in Seq(Requests) /\ toAck # <<>> /\ Distinct(toAck) /\ Len(toAck) \in Nat
  BY <1>1 DEF IInv, Inv, TypeOK, OnePlace
<1>3. PICK h \in Requests : h = Head(toAck)
  BY <1>2, Tailed
<1>4. /\ h \in Held(toAck) /\ toAck' \in Seq(Requests) /\ Len(toAck') = Len(toAck) - 1
      /\ Distinct(toAck') /\ Held(toAck') = Held(toAck) \ {h}
  BY <1>1, <1>2, <1>3, Tailed
<1>5. acks[h] = <<>> /\ WasAsked(h) BY <1>4 DEF IInv, Unanswered
<1>6. /\ crashed' \in BOOLEAN
      /\ acks' \in [Requests -> Seq({"ok", "err", "busy", "lost"})]
      /\ \A q \in Requests : q # h => acks'[q] = acks[q]
      /\ Len(acks'[h]) <= 1
      /\ acks'[h] = <<"ok">> => result = "ok"
  <2>1. CASE chan[h[1]] = "closed"
    <3>1. crashed' = TRUE /\ acks' = acks BY <1>1, <1>3, <2>1 DEF SendAck
    <3>2. acks'[h] = <<>> /\ <<>> # <<"ok">> BY <1>5, <3>1
    <3>3. QED BY <3>1, <3>2 DEF IInv, Inv, TypeOK
  <2>2. CASE chan[h[1]] # "closed"
    <3>1. PICK how \in {result, "lost"} : acks' = [acks EXCEPT ![h] = Append(@, how)]
      BY <1>1, <1>3, <2>2 DEF SendAck
    <3>2. crashed' = crashed BY <1>1, <1>3, <2>2 DEF SendAck
    <3>3. how \in {"ok", "err", "busy", "lost"} BY DEF IInv, Inv, TypeOK
    <3>4. acks'[h] = Append(<<>>, how) BY <1>5, <3>1 DEF IInv, Inv, TypeOK
    <3>5. Append(<<>>, how) = <<how>> OBVIOUS
    <3>6. <<how>> \in Seq({"ok", "err", "busy", "lost"}) /\ Len(<<how>>) = 1 BY <3>3
    <3>7. acks'[h] \in Seq({"ok", "err", "busy", "lost"}) /\ Len(acks'[h]) <= 1
      BY <3>4, <3>5, <3>6
    <3>8. acks'[h] = <<"ok">> => result = "ok"
      <4>1. <<how>> = <<"ok">> => how = "ok" OBVIOUS
      <4>2. QED BY <3>4, <3>5, <4>1
    <3>9. QED BY <3>1, <3>2, <3>7, <3>8 DEF IInv, Inv, TypeOK
  <2>3. QED BY <2>1, <2>2
<1>7. \A r : Of(r)' = Of(r) /\ (WasAsked(r)' <=> WasAsked(r)) BY <1>1 DEF Of, WasAsked
<1>8. at' # "ack" => toAck' = <<>>
  <2>1. CASE Len(toAck) = 1 BY <1>1, <1>4, <2>1
  <2>2. CASE Len(toAck) # 1 BY <1>1, <2>2
  <2>3. QED BY <2>1, <2>2
<1>9. TypeOK'
  <2>1. at' \in {"select", "flush", "ack"} /\ (at' = "ack" => toAck' # <<>>)
    <3>1. CASE Len(toAck) = 1 BY <1>1, <3>1 DEF IInv, Inv, TypeOK
    <3>2. CASE Len(toAck) # 1
      <4>1. Len(toAck') # 0 BY <1>4, <1>2, <3>2
      <4>2. QED BY <1>1, <3>2, <4>1
    <3>3. QED BY <3>1, <3>2
  <2>2. QED BY <1>1, <1>4, <1>6, <2>1 DEF IInv, Inv, TypeOK, clientVars
<1>10. HubReads' /\ HubIsOpen' /\ AskedOK'
  BY <1>1 DEF IInv, Inv, HubReads, HubIsOpen, AskedOK, clientVars
<1>11. AnsweredOnce' BY <1>6 DEF IInv, Inv, AnsweredOnce
<1>12. OkIsWritten'
  <2> SUFFICES ASSUME NEW i \in 1 .. Len(taken), acks'[taken[i]] = <<"ok">>
               PROVE  \E j \in i .. Len(taken) : taken[j] \in written /\ Of(taken[j]).tag = Of(taken[i]).tag
    BY <1>1, <1>7 DEF OkIsWritten
  <2>1. taken[i] \in Requests BY DEF IInv, Inv, TypeOK
  <2>2. CASE taken[i] # h BY <1>6, <2>1, <2>2 DEF IInv, OkIsWritten
  <2>3. CASE taken[i] = h
    <3>1. PICK w \in written : Before(taken, h, w) /\ Of(h).tag = Of(w).tag
      BY <1>1, <1>4, <1>6, <2>3 DEF IInv, TakenInOrder
    <3>2. PICK k \in 1 .. Len(taken), j \in 1 .. Len(taken) : k <= j /\ taken[k] = h /\ taken[j] = w
      BY <3>1 DEF Before
    <3>3. k = i BY <2>3, <3>2 DEF IInv, TakenInOrder, Distinct
    <3>4. QED BY <2>3, <3>1, <3>2, <3>3
  <2>4. QED BY <2>2, <2>3
<1>13. OnePlace' BY <1>1, <1>4, <1>7, <1>8 DEF IInv, OnePlace
<1>14. Unanswered'
  <2>1. h \notin Held(queue) /\ \A t \in Analog : h \notin Held(pending[t])
    BY <1>4 DEF IInv, OnePlace
  <2>2. /\ Held(queue) \subseteq Requests /\ Held(toAck) \subseteq Requests
        /\ \A t \in Analog : Held(pending[t]) \subseteq Requests
    BY HeldType DEF IInv, Inv, TypeOK
  <2>3. ASSUME NEW r \in Held(queue) \cup Held(toAck') PROVE WasAsked(r) /\ acks'[r] = <<>>
    BY <1>4, <1>6, <2>1, <2>2 DEF IInv, Unanswered
  <2>4. ASSUME NEW t \in Analog, NEW r \in Held(pending[t]) PROVE WasAsked(r) /\ acks'[r] = <<>>
    BY <1>6, <2>1, <2>2 DEF IInv, Unanswered
  <2>5. ASSUME NEW r \in Requests, ~WasAsked(r) PROVE acks'[r] = <<>>
    BY <2>5, <1>5, <1>6 DEF IInv, Unanswered
  <2>6. QED BY <1>1, <1>7, <2>3, <2>4, <2>5 DEF Unanswered
<1>15. TakenInOrder'
  <2>1. at' = "ack" /\ result = "ok" =>
          \E w \in written : \A r \in Held(toAck') : Before(taken, r, w) /\ Of(r).tag = Of(w).tag
    BY <1>1, <1>4 DEF IInv, TakenInOrder
  <2>2. QED BY <1>1, <1>7, <2>1 DEF IInv, TakenInOrder, Written
<1>16. QED BY <1>9, <1>10, <1>11, <1>12, <1>13, <1>14, <1>15 DEF IInv, Inv

LEMMA StutterInv == ASSUME IInv, UNCHANGED vars PROVE IInv'
<1>1. UNCHANGED <<asked, queue, loopVars, plc, acks, written, clientVars, crashed>> BY DEF vars
<1>2. TypeOK' /\ HubReads' /\ HubIsOpen'
  BY <1>1 DEF IInv, Inv, TypeOK, HubReads, HubIsOpen, clientVars, loopVars
<1>3. QED BY <1>1, <1>2, RequestsKept DEF IInv, Inv

LEMMA Inductive == IInv /\ [Next]_vars => IInv'
<1> SUFFICES ASSUME IInv, [Next]_vars PROVE IInv'
  OBVIOUS
<1>1. CASE \E c \in Clients : Connect(c) \/ ReadError(c) \/ CloseSend(c)
  BY <1>1, ClientsInv
<1>2. CASE Broadcast \/ \E c \in Clients : BroadcastTo(c) BY <1>2, BroadcastInv
<1>3. CASE \E c \in Clients, t \in Tags \cup Unknown, raw \in BOOLEAN : ReadSet(c, t, raw)
  BY <1>3, ReadSetInv
<1>4. CASE Refuse \/ WriteAtOnce BY <1>4, AnsweredNextInv
<1>5. CASE Collect BY <1>5, CollectInv
<1>6. CASE Tick \/ Flushed \/ Stop BY <1>6, BetweenInv
<1>7. CASE \E t \in Analog : FlushTag(t) BY <1>7, FlushInv
<1>8. CASE Ack BY <1>8, AckInv
<1>9. CASE UNCHANGED vars BY <1>9, StutterInv
<1>10. QED
  BY <1>1, <1>2, <1>3, <1>4, <1>5, <1>6, <1>7, <1>8, <1>9 DEF Next, Coalesce

(* The types and bounds; no broadcast finds a closed channel (HubIsOpen); no *)
(* request is answered twice (AnsweredOnce).                                 *)
THEOREM SocketsInvariant == Spec => []Inv
<1>1. Init => IInv BY InitInv
<1>2. IInv /\ [Next]_vars => IInv' BY Inductive
<1>3. IInv => Inv BY DEF IInv
<1>4. QED BY <1>1, <1>2, <1>3, PTL DEF Spec

(* A request answered `ok` was written, or one for the same tag that was     *)
(* taken later was, whatever mix of clients and tags the buckets collected.  *)
THEOREM OkWasWritten == Spec => []OkIsWritten
<1>1. Init => IInv BY InitInv
<1>2. IInv /\ [Next]_vars => IInv' BY Inductive
<1>3. IInv => OkIsWritten BY DEF IInv
<1>4. QED BY <1>1, <1>2, <1>3, PTL DEF Spec

----------------------------------------------------------------------------
(* The order of one client's requests *)

(* r came before q, if they are of one client. *)
Older(r, q) == r[1] = q[1] => r[2] < q[2]

(* A client's requests go through the queue in the order they were made, so  *)
(* the value of a tag is older than what is queued; a collected one is older *)
(* than what its tag's bucket holds by now.                                  *)
OldestFirst ==
  /\ \A i, j \in 1 .. Len(queue) : i < j => Older(queue[i], queue[j])
  /\ \A r \in Held(taken), q \in Held(queue) : Older(r, q)
  /\ \A t \in Tags : plc[t] # NoRequest => plc[t] \in Held(taken)
  /\ \A t \in Analog : \A r \in Held(pending[t]) :
       Collected(r) /\ (plc[t] # NoRequest /\ Collected(plc[t]) => Older(plc[t], r))

NewerOnly ==
  \A t \in Tags :
    LET old == plc[t]  new == plc'[t] IN
    old # NoRequest /\ new # old /\ old[1] = new[1] /\ (Collected(old) <=> Collected(new))
      => new[2] > old[2]

LEMMA OldestFirstInit == Init => OldestFirst
<1> SUFFICES ASSUME Init PROVE OldestFirst
  OBVIOUS
<1>1. /\ queue = <<>> /\ taken = <<>> /\ \A t \in Analog : pending[t] = <<>>
      /\ \A t \in Tags : plc[t] = NoRequest
  BY DEF Init
<1>2. 1 .. Len(queue) = {} BY <1>1
<1>3. QED BY <1>1, <1>2, HeldEmpty DEF OldestFirst

LEMMA OldestFirstKept ==
  ASSUME OldestFirst, UNCHANGED <<asked, queue, pending, taken, plc>>
  PROVE  OldestFirst'
BY DEF OldestFirst, Collected, Of

(* A new request has a higher number than every request of its client.       *)
LEMMA OldestFirstReadSet ==
  ASSUME IInv, OldestFirst,
         NEW c \in Clients, NEW u \in Tags \cup Unknown, NEW raw \in BOOLEAN, ReadSet(c, u, raw)
  PROVE  OldestFirst'
<1> DEFINE r == <<c, Len(asked[c]) + 1>>
<1> DEFINE entry == [tag |-> u, raw |-> raw]
<1>1. /\ asked' = [asked EXCEPT ![c] = Append(@, entry)]
      /\ UNCHANGED <<pending, taken, plc>>
      /\ queue' = queue \/ queue' = Append(queue, r)
      /\ Len(asked[c]) < MaxSets(c)
  BY DEF ReadSet, Enqueued, loopVars
<1>2. /\ asked[c] \in Seq([tag : Tags \cup Unknown, raw : BOOLEAN]) /\ Len(asked[c]) \in Nat
      /\ DOMAIN asked = Clients
  <2>1. asked[c] \in Seq([tag : Tags \cup Unknown, raw : BOOLEAN]) BY DEF IInv, AskedOK
  <2>2. DOMAIN asked = Clients BY DEF IInv, AskedOK
  <2>3. QED BY <2>1, <2>2
<1>3. r \in Requests /\ r[1] = c /\ r[2] = Len(asked[c]) + 1
  <2>1. MaxSets(c) \in Nat BY SizesAssumption
  <2>2. Len(asked[c]) + 1 \in 1 .. MaxSets(c) BY <1>1, <1>2, <2>1
  <2>3. QED BY <2>2 DEF Requests
<1>4. /\ queue \in Seq(Requests) /\ taken \in Seq(Requests)
      /\ \A t \in Analog : pending[t] \in Seq(Requests)
  BY DEF IInv, Inv, TypeOK
<1>5. /\ Held(queue) \subseteq Requests /\ Held(taken) \subseteq Requests
      /\ \A t \in Analog : Held(pending[t]) \subseteq Requests
  BY <1>4, HeldType
<1>6. ASSUME NEW q \in Requests, WasAsked(q)
      PROVE  Older(q, r) /\ Of(q)' = Of(q) /\ (Collected(q)' <=> Collected(q))
  <2>1. q[1] \in Clients /\ q[2] \in Nat /\ q[2] >= 1 BY RequestType
  <2>2. Older(q, r) BY <1>2, <1>3, <1>6, <2>1 DEF Older, WasAsked
  <2>3. Of(q)' = Of(q)
    <3>1. CASE q[1] = c
      <4>1. asked'[c] = Append(asked[c], entry) BY <1>1, <1>2
      <4>2. q[2] \in 1 .. Len(asked[c]) BY <1>2, <1>6, <2>1, <3>1 DEF WasAsked
      <4>3. entry \in [tag : Tags \cup Unknown, raw : BOOLEAN] OBVIOUS
      <4>4. asked'[c][q[2]] = asked[c][q[2]] BY <1>2, <4>1, <4>2, <4>3, Appended
      <4>5. QED BY <3>1, <4>4 DEF Of
    <3>2. CASE q[1] # c BY <1>1, <1>2, <2>1, <3>2 DEF Of
    <3>3. QED BY <3>1, <3>2
  <2>4. QED BY <2>2, <2>3 DEF Collected
<1>7. /\ \A q \in Held(queue) \cup Held(taken) : WasAsked(q)
      /\ \A t \in Analog : \A q \in Held(pending[t]) : WasAsked(q)
  BY DEF IInv, Unanswered, TakenInOrder
<1> HIDE DEF r, entry
<1>8. \A i, j \in 1 .. Len(queue') : i < j => Older(queue'[i], queue'[j])
  <2>1. CASE queue' = queue BY <2>1 DEF OldestFirst
  <2>2. CASE queue' = Append(queue, r)
    <3>1. /\ Len(queue') = Len(queue) + 1 /\ Len(queue) \in Nat
          /\ \A i \in 1 .. Len(queue) : queue'[i] = queue[i] /\ queue[i] \in Held(queue)
          /\ queue'[Len(queue) + 1] = r
      BY <1>3, <1>4, <2>2, Appended DEF Held
    <3>2. SUFFICES ASSUME NEW i \in 1 .. Len(queue'), NEW j \in 1 .. Len(queue'), i < j
                   PROVE  Older(queue'[i], queue'[j])
      OBVIOUS
    <3>3. i \in 1 .. Len(queue) /\ (j \in 1 .. Len(queue) \/ j = Len(queue) + 1) BY <3>1, <3>2
    <3>4. CASE j \in 1 .. Len(queue) BY <3>1, <3>2, <3>3, <3>4 DEF OldestFirst
    <3>5. CASE j = Len(queue) + 1 BY <1>5, <1>6, <1>7, <3>1, <3>3, <3>5
    <3>6. QED BY <3>3, <3>4, <3>5
  <2>3. QED BY <1>1, <2>1, <2>2
<1>9. \A q \in Held(taken), p \in Held(queue') : Older(q, p)
  <2>1. Held(queue') \subseteq Held(queue) \cup {r}
    <3>1. CASE queue' = queue BY <3>1
    <3>2. CASE queue' = Append(queue, r)
      <4>1. Held(Append(queue, r)) = Held(queue) \cup {r} BY <1>3, <1>4, Appended
      <4>2. QED BY <3>2, <4>1
    <3>3. QED BY <1>1, <3>1, <3>2
  <2>2. QED BY <1>5, <1>6, <1>7, <2>1 DEF OldestFirst
<1>10. \A t \in Tags : plc[t] # NoRequest => plc[t] \in Held(taken)
  BY DEF OldestFirst
<1>11. ASSUME NEW t \in Analog, NEW q \in Held(pending[t])
       PROVE  Collected(q)' /\ (plc[t] # NoRequest /\ Collected(plc[t])' => Older(plc[t], q))
  <2>1. t \in Tags BY SetsAssumption
  <2>2. Collected(q)' BY <1>5, <1>6, <1>7 DEF OldestFirst
  <2>3. ASSUME plc[t] # NoRequest, Collected(plc[t])' PROVE Older(plc[t], q)
    <3>1. plc[t] \in Held(taken) BY <1>10, <2>1, <2>3
    <3>2. Collected(plc[t]) BY <1>1, <1>5, <1>6, <1>7, <2>3, <3>1
    <3>3. QED BY <2>3, <3>2 DEF OldestFirst
  <2>4. QED BY <2>2, <2>3
<1>12. QED
  <2>1. \A t \in Analog : \A q \in Held(pending'[t]) :
          Collected(q)' /\ (plc'[t] # NoRequest /\ Collected(plc[t])' => Older(plc'[t], q))
    BY <1>1, <1>11
  <2>2. QED BY <1>1, <1>8, <1>9, <1>10, <2>1 DEF OldestFirst

(* The head of the queue is newer than what was taken before.                *)
LEMMA OldestFirstTaken ==
  ASSUME IInv, OldestFirst, TakeHead, NEW h, h = Head(queue), asked' = asked
  PROVE  /\ h \in Requests /\ \A r \in Held(taken) : Older(r, h)
         /\ \A i, j \in 1 .. Len(queue') : i < j => Older(queue'[i], queue'[j])
         /\ \A r \in Held(taken'), q \in Held(queue') : Older(r, q)
         /\ h \in Held(taken') /\ Held(taken) \subseteq Held(taken')
<1>1. /\ queue \in Seq(Requests) /\ queue # <<>> /\ queue' = Tail(queue) /\ taken \in Seq(Requests)
      /\ taken' = Append(taken, h)
  BY DEF TakeHead, IInv, Inv, TypeOK
<1>2. /\ h \in Requests /\ h \in Held(queue) BY <1>1, Tailed
<1>3. Held(taken') = Held(taken) \cup {h} BY <1>1, <1>2, Appended
<1>4. /\ Len(queue') = Len(queue) - 1 /\ Len(queue) \in Nat /\ h = queue[1]
      /\ \A i \in 1 .. Len(queue') : queue'[i] = queue[i + 1]
  BY <1>1
<1>5. \A i, j \in 1 .. Len(queue') : i < j => Older(queue'[i], queue'[j])
  BY <1>4 DEF OldestFirst
<1>6. \A q \in Held(queue') : Older(h, q)
  BY <1>4 DEF OldestFirst, Held
<1>7. \A r \in Held(taken) : Older(r, h) BY <1>2 DEF OldestFirst
<1>8. Held(queue') \subseteq Held(queue) BY <1>1, Tailed
<1>9. QED BY <1>2, <1>3, <1>5, <1>6, <1>7, <1>8 DEF OldestFirst

LEMMA OldestFirstTake ==
  ASSUME IInv, OldestFirst, Refuse \/ WriteAtOnce \/ Collect
  PROVE  OldestFirst' /\ NewerOnly
<1>h. PICK h \in Requests : h = Head(queue)
  BY Tailed DEF Refuse, WriteAtOnce, Collect, TakeHead, IInv, Inv, TypeOK
<1>1. TakeHead /\ UNCHANGED asked BY DEF Refuse, WriteAtOnce, Collect
<1>2. /\ \A r \in Held(taken) : Older(r, h)
      /\ \A i, j \in 1 .. Len(queue') : i < j => Older(queue'[i], queue'[j])
      /\ \A r \in Held(taken'), q \in Held(queue') : Older(r, q)
      /\ h \in Held(taken') /\ Held(taken) \subseteq Held(taken')
  BY <1>1, <1>h, OldestFirstTaken
<1>3. \A r : Of(r)' = Of(r) /\ (Collected(r)' <=> Collected(r)) BY <1>1 DEF Of, Collected
<1>4. plc \in [Tags -> Requests \cup {NoRequest}] /\ Analog \subseteq Tags
  BY SetsAssumption DEF IInv, Inv, TypeOK
<1>5. CASE UNCHANGED <<pending, plc>>
  <2>1. NewerOnly BY <1>5 DEF NewerOnly
  <2>2. QED BY <1>2, <1>3, <1>5, <2>1 DEF OldestFirst
<1>6. CASE WriteAtOnce /\ plc' = [plc EXCEPT ![Of(h).tag] = h]
  <2>1. pending' = pending /\ ~Collected(h) BY <1>6, <1>h DEF WriteAtOnce
  <2>2. \A t \in Tags : plc'[t] = plc[t] \/ plc'[t] = h BY <1>4, <1>6
  <2>3. NewerOnly
    <3> SUFFICES ASSUME NEW t \in Tags, plc[t] # NoRequest, plc'[t] # plc[t], plc[t][1] = plc'[t][1]
                 PROVE  plc'[t][2] > plc[t][2]
      BY DEF NewerOnly
    <3>1. plc[t] \in Held(taken) /\ plc'[t] = h BY <2>2 DEF OldestFirst
    <3>2. plc[t] \in Requests BY <1>4
    <3>3. plc[t][2] \in Nat /\ h[2] \in Nat BY <3>2, RequestType
    <3>4. QED BY <1>2, <3>1, <3>3 DEF Older
  <2>4. \A t \in Tags : plc'[t] # NoRequest => plc'[t] \in Held(taken')
    BY <1>2, <2>2 DEF OldestFirst
  <2>5. ASSUME NEW t \in Analog, NEW q \in Held(pending[t])
        PROVE  Collected(q) /\ (plc'[t] # NoRequest /\ Collected(plc'[t]) => Older(plc'[t], q))
    <3>1. plc'[t] = plc[t] \/ plc'[t] = h BY <1>4, <2>2
    <3>2. QED BY <2>1, <3>1 DEF OldestFirst
  <2>6. QED BY <1>2, <1>3, <2>1, <2>3, <2>4, <2>5 DEF OldestFirst
<1>7. CASE Collect
  <2>1. plc' = plc /\ Collected(h) /\ pending' = [pending EXCEPT ![Of(h).tag] = Append(@, h)]
    BY <1>7, <1>h DEF Collect
  <2>2. NewerOnly BY <2>1 DEF NewerOnly
  <2>3. ASSUME NEW t \in Analog, NEW q \in Held(pending'[t])
        PROVE  Collected(q) /\ (plc[t] # NoRequest /\ Collected(plc[t]) => Older(plc[t], q))
    <3>1. q = h \/ q \in Held(pending[t])
      <4>1. CASE t = Of(h).tag
        <5>1. pending'[t] = Append(pending[t], h) /\ pending[t] \in Seq(Requests)
          BY <2>1, <4>1 DEF IInv, Inv, TypeOK
        <5>2. QED BY <2>3, <5>1, Appended
      <4>2. CASE t # Of(h).tag BY <2>1, <2>3, <4>2 DEF IInv, Inv, TypeOK
      <4>3. QED BY <4>1, <4>2
    <3>2. CASE q = h BY <1>2, <1>4, <2>1, <3>2 DEF OldestFirst
    <3>3. CASE q \in Held(pending[t]) BY <3>3 DEF OldestFirst
    <3>4. QED BY <3>1, <3>2, <3>3
  <2>4. \A t \in Tags : plc'[t] # NoRequest => plc'[t] \in Held(taken')
    BY <1>2, <2>1 DEF OldestFirst
  <2>5. QED BY <1>2, <1>3, <2>1, <2>2, <2>3, <2>4 DEF OldestFirst
<1>8. QED
  <2>1. CASE Refuse BY <1>5, <2>1 DEF Refuse
  <2>2. CASE WriteAtOnce
    <3>1. pending' = pending /\ (plc' = plc \/ plc' = [plc EXCEPT ![Of(h).tag] = h])
      BY <1>h, <2>2 DEF WriteAtOnce, Apply
    <3>2. QED BY <1>5, <1>6, <2>2, <3>1
  <2>3. QED BY <1>7, <2>1, <2>2

(* The last of a bucket is newer than the collected value its tag had.       *)
LEMMA OldestFirstFlush ==
  ASSUME IInv, OldestFirst, NEW t \in Analog, FlushTag(t)
  PROVE  OldestFirst' /\ NewerOnly
<1> DEFINE w == Written(pending[t])
<1>1. /\ pending[t] # <<>> /\ pending' = [pending EXCEPT ![t] = <<>>]
      /\ plc' = plc \/ plc' = [plc EXCEPT ![Of(w).tag] = w]
      /\ UNCHANGED <<asked, queue, taken>>
  BY DEF FlushTag, Emptied, Apply
<1>2. pending \in [Analog -> Seq(Requests)] /\ plc \in [Tags -> Requests \cup {NoRequest}]
  BY DEF IInv, Inv, TypeOK
<1>3. w \in Held(pending[t]) /\ w \in Requests /\ t \in Tags
  BY <1>1, <1>2, LastHeld, HeldType, SetsAssumption
<1>4. Of(w).tag = t /\ Collected(w) /\ w \in Held(taken)
  <2>1. Of(w).tag = t BY <1>3 DEF IInv, OnePlace
  <2>2. Collected(w) BY <1>3 DEF OldestFirst
  <2>3. Before(taken, w, w) BY <1>3 DEF IInv, TakenInOrder
  <2>4. QED BY <2>1, <2>2, <2>3 DEF Before, Held
<1> HIDE DEF w
<1>5. \A r : Of(r)' = Of(r) /\ (Collected(r)' <=> Collected(r)) BY <1>1 DEF Of, Collected
<1>6. /\ plc'[t] = plc[t] \/ plc'[t] = w
      /\ \A u \in Tags \ {t} : plc'[u] = plc[u]
  BY <1>1, <1>2, <1>3, <1>4
<1>7. NewerOnly
  <2> SUFFICES ASSUME NEW u \in Tags, plc[u] # NoRequest, plc'[u] # plc[u], plc[u][1] = plc'[u][1],
                      Collected(plc[u]) <=> Collected(plc'[u])
               PROVE  plc'[u][2] > plc[u][2]
    BY DEF NewerOnly
  <2>1. u = t /\ plc'[u] = w BY <1>6
  <2>2. Older(plc[t], w) BY <1>3, <1>4, <2>1 DEF OldestFirst
  <2>3. plc[t] \in Requests BY <1>2, <2>1
  <2>4. plc[t][2] \in Nat /\ w[2] \in Nat BY <1>3, <2>3, RequestType
  <2>5. QED BY <2>1, <2>2, <2>4 DEF Older
<1>8. \A u \in Tags : plc'[u] # NoRequest => plc'[u] \in Held(taken)
  BY <1>4, <1>6 DEF OldestFirst
<1>9. ASSUME NEW u \in Analog, NEW q \in Held(pending'[u])
      PROVE  Collected(q) /\ (plc'[u] # NoRequest /\ Collected(plc'[u]) => Older(plc'[u], q))
  <2>1. u # t
    <3>1. pending'[t] = <<>> BY <1>1, <1>2
    <3>2. QED BY <1>9, <3>1, HeldEmpty
  <2>2. pending'[u] = pending[u] /\ plc'[u] = plc[u] BY <1>1, <1>2, <1>6, <2>1, SetsAssumption
  <2>3. QED BY <1>9, <2>2 DEF OldestFirst
<1>10. QED BY <1>1, <1>5, <1>7, <1>8, <1>9 DEF OldestFirst

LEMMA OldestFirstNext ==
  ASSUME IInv, OldestFirst, [Next]_vars
  PROVE  OldestFirst' /\ NewerOnly
<1>1. CASE UNCHANGED <<asked, queue, pending, taken, plc>>
  BY <1>1, OldestFirstKept DEF NewerOnly
<1>2. CASE \E c \in Clients, t \in Tags \cup Unknown, raw \in BOOLEAN : ReadSet(c, t, raw)
  <2>1. plc' = plc BY <1>2 DEF ReadSet
  <2>2. QED BY <1>2, <2>1, OldestFirstReadSet DEF NewerOnly
<1>3. CASE Refuse \/ WriteAtOnce \/ Collect BY <1>3, OldestFirstTake
<1>4. CASE \E t \in Analog : FlushTag(t) BY <1>4, OldestFirstFlush
<1>5. CASE \E c \in Clients : Connect(c) \/ ReadError(c) \/ CloseSend(c) \/ BroadcastTo(c)
  BY <1>1, <1>5 DEF Connect, ReadError, CloseSend, BroadcastTo, loopVars
<1>6. CASE Broadcast \/ Tick \/ Flushed \/ Ack \/ Stop
  BY <1>1, <1>6 DEF Broadcast, Tick, Flushed, Ack, Stop, loopVars
<1>7. CASE UNCHANGED vars BY <1>1, <1>7 DEF vars, loopVars
<1>8. QED BY <1>2, <1>3, <1>4, <1>5, <1>6, <1>7 DEF Next, Coalesce

(* No value of a tag gives way to an older one of the same kind by the same  *)
(* client, through every mix of queueing, bucketing and failed writes.       *)
THEOREM NewestStays == Spec => NotOverwrittenByOlder
<1>1. Init => IInv /\ OldestFirst BY InitInv, OldestFirstInit
<1>2. IInv /\ OldestFirst /\ [Next]_vars => (IInv /\ OldestFirst)' BY Inductive, OldestFirstNext
<1>3. IInv /\ OldestFirst /\ [Next]_vars => [NewerOnly]_vars BY OldestFirstNext
<1>4. Spec => [][NewerOnly]_vars BY <1>1, <1>2, <1>3, PTL DEF Spec
<1>5. QED BY <1>4 DEF NotOverwrittenByOlder, NewerOnly
=============================================================================
