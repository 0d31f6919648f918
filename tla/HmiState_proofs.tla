---------------------------- MODULE HmiState_proofs ----------------------------
(***************************************************************************)
(* The safety properties of what viewers are shown, for any tags, values,  *)
(* viewers, writes and failures.                                           *)
(***************************************************************************)
EXTENDS HmiState, TLAPS

USE TagsAssumption, ValuesAssumption, ViewersAssumption, BoundsAssumption,
    WritesAssumption

ReaderOK == reader = [v \in Viewers |-> reader[v]]

(* What is on its way to the state or to a viewer was in the PLC.            *)
WereHeld ==
  /\ \A t \in Tags : plc[t] \in held[t]
  /\ poll.at = "store" => poll.raw \in held[PollTag]
  /\ \A i \in 1 .. Len(poll.updates) : poll.updates[i].value \in held[poll.updates[i].tag]
  /\ \A w \in Puts : put[w].at \in {"store", "send"} => put[w].raw \in held[put[w].tag]
  /\ \A v \in Viewers : \A t \in DOMAIN reader[v].snap :
       reader[v].snap[t] \in held[t] \cup {NoValue}

Untouched == \A w \in Puts : put[w].at = "start"

(* A poll has updates of tags it is past, for all viewers until it sends     *)
(* them, and while nobody writes they are what the state has.                *)
PollFollows ==
  /\ poll.at \in {"read", "store"} =>
       /\ poll.to = Viewers
       /\ \A i \in 1 .. Len(poll.updates) : \E k \in 1 .. poll.next - 1 :
            poll.updates[i].tag = TagSeq[k]
  /\ Untouched =>
       \A i \in 1 .. Len(poll.updates) : poll.updates[i].value = state[poll.updates[i].tag]

EarlyStay == \A v \in Early : sub[v] = Tags /\ reader[v].at = "read"

IInv == Inv /\ ReaderOK /\ WereHeld /\ PollFollows /\ EarlyStay

PutType == [Puts -> [at : {"start", "store", "send", "done", "failed"}, tag : Tags,
                     raw : Kept, to : SUBSET Viewers]]

LEMMA TagAt == ASSUME NEW i \in 1 .. Len(TagSeq) PROVE TagSeq[i] \in Tags
BY DEF Tags

LEMMA Length == Len(TagSeq) \in Nat
OBVIOUS

----------------------------------------------------------------------------
LEMMA InitInv == Init => IInv
<1> SUFFICES ASSUME Init PROVE IInv
  OBVIOUS
<1> USE DEF Init, Idle, None
<1>1. poll.updates = <<>> /\ Len(poll.updates) = 0 /\ poll.updates \in Seq(Updates)
  OBVIOUS
<1>2. TypeOK
  <2>1. poll \in [at : {"read", "store", "send"}, next : 1 .. Len(TagSeq) + 1, raw : Kept,
                  updates : Seq(Updates), good : BOOLEAN, bad : BOOLEAN, to : SUBSET Viewers]
    BY <1>1, Length DEF Kept
  <2>2. put \in [Puts -> [at : {"start", "store", "send", "done", "failed"}, tag : Tags,
                          raw : Kept, to : SUBSET Viewers]]
    <3>1. Puts # {} => TagSeq[1] \in Tags BY Length, TagAt
    <3>2. QED BY <3>1 DEF Kept
  <2>3. QED BY <2>1, <2>2 DEF TypeOK, Kept
<1>3. ShownWasHeld BY DEF ShownWasHeld
<1>4. ShownOrPending BY DEF ShownOrPending, Undisturbed
<1>5. ReaderOK BY DEF ReaderOK
<1>6. WereHeld /\ PollFollows BY <1>1 DEF WereHeld, PollFollows
<1>7. EarlyStay BY DEF EarlyStay
<1>8. QED BY <1>2, <1>3, <1>4, <1>5, <1>6, <1>7 DEF IInv, Inv

----------------------------------------------------------------------------
(* What a step of the PLC, or a failing call, does to IInv: the values held  *)
(* only grow.                                                               *)

LEMMA SetTagHolds ==
  ASSUME IInv, NEW t \in Tags, NEW x \in Values, SetTag(t, x)
  PROVE  /\ plc' \in [Tags -> Values] /\ held' \in [Tags -> SUBSET Values]
         /\ \A u \in Tags : held[u] \subseteq held'[u] /\ plc'[u] \in held'[u]
         /\ x \in held'[t]
BY DEF IInv, Inv, TypeOK, WereHeld, SetTag

LEMMA HeldGrows ==
  ASSUME IInv, UNCHANGED <<state, poll, reader, shown>>,
         \A u \in Tags : held[u] \subseteq held'[u] /\ plc'[u] \in held'[u],
         \A w \in Puts : put'[w].at \in {"store", "send"} => put'[w].raw \in held'[put'[w].tag]
  PROVE  ShownWasHeld' /\ WereHeld'
<1> USE DEF IInv, Inv, TypeOK
<1>1. ShownWasHeld' BY DEF ShownWasHeld
<1>2. (poll.at = "store" => poll.raw \in held[PollTag])'
  <2>1. poll.at = "store" => PollTag \in Tags BY TagAt, Length DEF PollTag
  <2>2. QED BY <2>1 DEF WereHeld, PollTag
<1>3. (\A i \in 1 .. Len(poll.updates) : poll.updates[i].value \in held[poll.updates[i].tag])'
  <2>1. \A i \in 1 .. Len(poll.updates) : poll.updates[i] \in Updates OBVIOUS
  <2>2. \A i \in 1 .. Len(poll.updates) : poll.updates[i].tag \in Tags BY <2>1 DEF Updates
  <2>3. QED BY <2>2 DEF WereHeld
<1>4. (\A v \in Viewers : \A t \in DOMAIN reader[v].snap :
         reader[v].snap[t] \in held[t] \cup {NoValue})'
  BY DEF WereHeld
<1>5. QED BY <1>1, <1>2, <1>3, <1>4 DEF WereHeld

LEMMA ProgramStep ==
  ASSUME IInv, NEW t \in Tags, NEW x \in Values, PlcProgram(t, x) PROVE IInv'
<1> USE DEF IInv, Inv, PlcProgram
<1>1. ShownWasHeld' /\ WereHeld' BY SetTagHolds, HeldGrows DEF WereHeld, TypeOK
<1>2. TypeOK' BY SetTagHolds DEF TypeOK
<1>3. ShownOrPending' BY DEF ShownOrPending, Undisturbed
<1>4. (ReaderOK /\ PollFollows /\ EarlyStay)' BY DEF ReaderOK, PollFollows, Untouched, EarlyStay
<1>5. QED BY <1>1, <1>2, <1>3, <1>4

LEMMA PutWriteStep ==
  ASSUME IInv, NEW w \in Puts, NEW t \in Tags, NEW x \in Values, PutWrite(w, t, x)
  PROVE  IInv'
<1> USE DEF IInv, Inv, PutWrite
<1>1. put' = [put EXCEPT ![w] = [at |-> "store", tag |-> t, raw |-> x, to |-> Viewers]]
  OBVIOUS
<1>2. ShownWasHeld' /\ WereHeld'
  <2>1. \A u \in Puts : put'[u].at \in {"store", "send"} => put'[u].raw \in held'[put'[u].tag]
    BY <1>1, SetTagHolds DEF TypeOK, WereHeld
  <2>2. QED BY <2>1, SetTagHolds, HeldGrows
<1>3. TypeOK' BY SetTagHolds DEF TypeOK, Kept
<1>4. ~Untouched' /\ Undisturbed' = {} BY <1>1 DEF Untouched, Undisturbed, TypeOK
<1>5. (ShownOrPending /\ ReaderOK /\ PollFollows /\ EarlyStay)'
  BY <1>4 DEF ShownOrPending, ReaderOK, PollFollows, Untouched, EarlyStay
<1>6. QED BY <1>2, <1>3, <1>5

LEMMA PutAt ==
  ASSUME TypeOK, NEW w \in Puts, NEW a \in {"store", "send", "done", "failed"},
         put' = [put EXCEPT ![w].at = a]
  PROVE  put' \in PutType
<1>1. put \in PutType BY DEF TypeOK, PutType
<1>2. [put[w] EXCEPT !.at = a] \in
        [at : {"start", "store", "send", "done", "failed"}, tag : Tags, raw : Kept,
         to : SUBSET Viewers]
  BY <1>1 DEF PutType
<1>3. QED BY <1>1, <1>2 DEF PutType

LEMMA PutFailsStep ==
  ASSUME IInv, NEW w \in Puts, NEW t \in Tags, NEW x \in Values, PutFails(w, t, x)
  PROVE  IInv'
<1> USE DEF IInv, Inv, PutFails
<1>1. put' = [put EXCEPT ![w].at = "failed"] OBVIOUS
<1>2. /\ plc' \in [Tags -> Values] /\ held' \in [Tags -> SUBSET Values]
      /\ \A u \in Tags : held[u] \subseteq held'[u] /\ plc'[u] \in held'[u]
  <2>1. CASE SetTag(t, x) BY <2>1, SetTagHolds
  <2>2. CASE UNCHANGED <<plc, held>> BY <2>2 DEF TypeOK, WereHeld
  <2>3. QED BY <2>1, <2>2
<1>3. ShownWasHeld' /\ WereHeld'
  <2>1. \A u \in Puts : put'[u].at \in {"store", "send"} => put'[u].raw \in held'[put'[u].tag]
    BY <1>1, <1>2 DEF TypeOK, WereHeld
  <2>2. QED BY <2>1, <1>2, HeldGrows
<1>4. TypeOK'
  <2>1. failed' \in 0 .. MaxFails BY DEF TypeOK, CallFails
  <2>2. put' \in PutType BY <1>1, PutAt DEF PutType
  <2>3. \A u \in Puts : put'[u].at \in {"store", "send"} => put'[u].raw \in Values
    BY <1>1 DEF TypeOK
  <2>4. QED BY <1>2, <2>1, <2>2, <2>3 DEF TypeOK, PutType
<1>5. ~Untouched' /\ Undisturbed' = {} BY <1>1 DEF Untouched, Undisturbed, TypeOK
<1>6. (ShownOrPending /\ ReaderOK /\ PollFollows /\ EarlyStay)'
  BY <1>5 DEF ShownOrPending, ReaderOK, PollFollows, Untouched, EarlyStay
<1>7. QED BY <1>3, <1>4, <1>6

----------------------------------------------------------------------------
(* A message of values that were held changes what one viewer is shown.     *)

ShownHeld == \A u \in Viewers, t \in Tags : shown[u][t] \in held[t] \cup {NoValue}

LEMMA MessageShows ==
  ASSUME IInv, NEW v \in Viewers, NEW m, DOMAIN m \subseteq Tags, Message(v, m),
         \A t \in DOMAIN m : m[t] \in Kept /\ m[t] \in held[t] \cup {NoValue},
         UNCHANGED held
  PROVE  /\ shown' \in [Viewers -> [Tags -> Kept]] /\ ShownHeld'
         /\ \A u \in Viewers \ {v} : shown'[u] = shown[u]
         /\ v \notin Slow =>
              \A t \in Tags : shown'[v][t] = IF t \in DOMAIN m THEN m[t] ELSE shown[v][t]
<1> DEFINE s == [t \in Tags |-> IF t \in DOMAIN m THEN m[t] ELSE shown[v][t]]
<1>1. shown \in [Viewers -> [Tags -> Kept]] /\ ShownHeld
  BY DEF IInv, Inv, TypeOK, ShownWasHeld, ShownHeld
<1>2. s \in [Tags -> Kept] /\ \A t \in Tags : s[t] \in held[t] \cup {NoValue}
  BY <1>1 DEF ShownHeld
<1>3. shown' = [shown EXCEPT ![v] = s] \/ (v \in Slow /\ shown' = shown)
  BY DEF Message
<1>4. \A t \in Tags : s[t] = IF t \in DOMAIN m THEN m[t] ELSE shown[v][t] OBVIOUS
<1> HIDE DEF s
<1>5. QED BY <1>1, <1>2, <1>3, <1>4 DEF ShownHeld

LEMMA TellShows ==
  ASSUME IInv, NEW v \in Viewers, NEW u \in Updates, u.value \in held[u.tag], Tell(v, u),
         UNCHANGED held
  PROVE  /\ shown' \in [Viewers -> [Tags -> Kept]] /\ ShownHeld'
         /\ \A o \in Viewers \ {v} : shown'[o] = shown[o]
         /\ v \notin Slow /\ sub[v] = Tags =>
              \A t \in Tags : shown'[v][t] = IF t = u.tag THEN u.value ELSE shown[v][t]
<1> DEFINE m == [t \in {u.tag} |-> u.value]
<1>1. u.tag \in Tags /\ u.value \in Kept BY DEF Updates, Kept
<1>2. CASE u.tag \in sub[v]
  <2>1. Message(v, m) BY <1>2 DEF Tell
  <2>2. DOMAIN m = {u.tag} /\ m[u.tag] = u.value OBVIOUS
  <2> HIDE DEF m
  <2>3. /\ DOMAIN m \subseteq Tags
        /\ \A t \in DOMAIN m : m[t] \in Kept /\ m[t] \in held[t] \cup {NoValue}
    BY <1>1, <2>2
  <2>4. QED BY <2>1, <2>2, <2>3, MessageShows
<1>3. CASE u.tag \notin sub[v]
  <2>1. shown' = shown BY <1>3 DEF Tell
  <2>2. sub[v] # Tags BY <1>1, <1>3
  <2>3. QED BY <2>1, <2>2 DEF IInv, Inv, TypeOK, ShownWasHeld, ShownHeld
<1>4. QED BY <1>2, <1>3

----------------------------------------------------------------------------
(* applyWrite, once it has begun: nothing is promised of the viewers. *)

LEMMA PutStoreStep == ASSUME IInv, NEW w \in Puts, PutStore(w) PROVE IInv'
<1> USE DEF IInv, Inv, PutStore
<1>1. put[w].tag \in Tags /\ put[w].raw \in Values /\ put[w].raw \in held[put[w].tag]
  BY DEF TypeOK, WereHeld
<1>2. TypeOK'
  <2>1. put' \in PutType BY PutAt
  <2>2. state' \in [Tags -> Kept] BY <1>1 DEF TypeOK, Kept
  <2>3. \A u \in Puts : put'[u].at \in {"store", "send"} => put'[u].raw \in Values
    BY DEF TypeOK
  <2>4. QED BY <2>1, <2>2, <2>3 DEF TypeOK, PutType
<1>3. ShownWasHeld' BY <1>1 DEF ShownWasHeld, TypeOK
<1>4. WereHeld' BY DEF WereHeld, TypeOK, PollTag
<1>5. ~Untouched' /\ Undisturbed' = {} BY DEF Untouched, Undisturbed, TypeOK
<1>6. (ShownOrPending /\ ReaderOK /\ PollFollows /\ EarlyStay)'
  BY <1>5 DEF ShownOrPending, ReaderOK, PollFollows, Untouched, EarlyStay
<1>7. QED BY <1>2, <1>3, <1>4, <1>6

LEMMA PutSendStep ==
  ASSUME IInv, NEW w \in Puts, NEW v \in Viewers, PutSend(w, v) PROVE IInv'
<1> USE DEF IInv, Inv, PutSend
<1> DEFINE u == Update(put[w].tag, put[w].raw)
<1>1. u \in Updates /\ u.value \in held[u.tag] BY DEF Update, Updates, TypeOK, WereHeld
<1>2. Tell(v, u) /\ UNCHANGED held OBVIOUS
<1> HIDE DEF u
<1>3. shown' \in [Viewers -> [Tags -> Kept]] /\ ShownHeld' BY <1>1, <1>2, TellShows
<1>4. /\ put' \in PutType
      /\ \A o \in Puts : put'[o].at = put[o].at /\ put'[o].raw = put[o].raw
                         /\ put'[o].tag = put[o].tag
  <2>1. put \in PutType BY DEF TypeOK, PutType
  <2>2. [put[w] EXCEPT !.to = @ \ {v}] \in
          [at : {"start", "store", "send", "done", "failed"}, tag : Tags, raw : Kept,
           to : SUBSET Viewers]
    BY <2>1 DEF PutType
  <2>3. QED BY <2>1, <2>2 DEF PutType
<1>5. TypeOK' BY <1>3, <1>4 DEF TypeOK, PutType
<1>6. ShownWasHeld' BY <1>3 DEF ShownWasHeld, ShownHeld
<1>7. WereHeld' BY <1>4 DEF WereHeld, TypeOK, PollTag
<1>8. ~Untouched' /\ Undisturbed' = {} BY <1>4 DEF Untouched, Undisturbed, TypeOK
<1>9. (ShownOrPending /\ ReaderOK /\ PollFollows /\ EarlyStay)'
  BY <1>8 DEF ShownOrPending, ReaderOK, PollFollows, Untouched, EarlyStay
<1>10. QED BY <1>5, <1>6, <1>7, <1>9

LEMMA PutDoneStep == ASSUME IInv, NEW w \in Puts, PutDone(w) PROVE IInv'
<1> USE DEF IInv, Inv, PutDone
<1>1. TypeOK'
  <2>1. put' \in PutType BY PutAt
  <2>2. \A u \in Puts : put'[u].at \in {"store", "send"} => put'[u].raw \in Values
    BY DEF TypeOK
  <2>3. QED BY <2>1, <2>2 DEF TypeOK, PutType
<1>2. ShownWasHeld' BY DEF ShownWasHeld
<1>3. WereHeld' BY DEF WereHeld, TypeOK, PollTag
<1>4. ~Untouched' /\ Undisturbed' = {} BY DEF Untouched, Undisturbed, TypeOK
<1>5. (ShownOrPending /\ ReaderOK /\ PollFollows /\ EarlyStay)'
  BY <1>4 DEF ShownOrPending, ReaderOK, PollFollows, Untouched, EarlyStay
<1>6. QED BY <1>1, <1>2, <1>3, <1>5

----------------------------------------------------------------------------
(* The readers: the viewers of the first poll do not subscribe again.       *)

LEMMA SubscribeStep ==
  ASSUME IInv, NEW v \in Viewers, NEW names \in Pages, Subscribe(v, names) PROVE IInv'
<1> USE DEF IInv, Inv, Subscribe
<1>1. v \notin Early /\ names \in SUBSET Tags BY DEF EarlyStay
<1>2. TypeOK'
  <2>1. sub' \in [Viewers -> SUBSET Tags] BY <1>1 DEF TypeOK
  <2>2. \A o \in Viewers :
          reader'[o] = IF o = v THEN [left |-> names, snap |-> <<>>, at |-> "snap"] ELSE reader[o]
    BY DEF ReaderOK
  <2>3. DOMAIN <<>> = {} OBVIOUS
  <2>4. \A o \in Viewers :
          /\ reader'[o].left \subseteq Tags
          /\ reader'[o].at \in {"read", "snap"}
          /\ DOMAIN reader'[o].snap \subseteq Tags
          /\ \A t \in DOMAIN reader'[o].snap : reader'[o].snap[t] \in Kept
    BY <1>1, <2>2, <2>3 DEF TypeOK
  <2>5. QED BY <2>1, <2>4 DEF TypeOK
<1>3. ShownWasHeld' BY DEF ShownWasHeld
<1>4. WereHeld' BY DEF WereHeld, PollTag, ReaderOK
<1>5. EarlyStay' /\ ReaderOK'
  <2>1. ReaderOK' BY DEF ReaderOK
  <2>2. \A o \in Viewers \ {v} : reader'[o] = reader[o] /\ sub'[o] = sub[o]
    BY DEF ReaderOK, TypeOK
  <2>3. QED BY <1>1, <2>1, <2>2 DEF EarlyStay
<1>6. ShownOrPending' BY <1>1 DEF ShownOrPending, Undisturbed, TypeOK
<1>7. PollFollows' BY DEF PollFollows, Untouched
<1>8. QED BY <1>2, <1>3, <1>4, <1>5, <1>6, <1>7

LEMMA SnapTagStep ==
  ASSUME IInv, NEW v \in Viewers, NEW t \in Tags, SnapTag(v, t) PROVE IInv'
<1> USE DEF IInv, Inv, SnapTag
<1> DEFINE s == reader[v].snap
           n == [u \in {t} \cup DOMAIN s |-> IF u = t THEN state[t] ELSE s[u]]
<1>1. /\ DOMAIN n \subseteq Tags
      /\ \A u \in DOMAIN n : n[u] \in Kept /\ n[u] \in held[u] \cup {NoValue}
  <2>1. DOMAIN s \subseteq Tags
        /\ \A u \in DOMAIN s : s[u] \in Kept /\ s[u] \in held[u] \cup {NoValue}
    BY DEF TypeOK, WereHeld
  <2>2. state[t] \in Kept /\ state[t] \in held[t] \cup {NoValue} BY DEF TypeOK, ShownWasHeld
  <2> HIDE DEF s
  <2>3. QED BY <2>1, <2>2
<1>2. reader' = [reader EXCEPT ![v] = [left |-> reader[v].left \ {t}, snap |-> n,
                                       at |-> "snap"]]
  OBVIOUS
<1> HIDE DEF n
<1>3. v \notin Early BY DEF EarlyStay
<1>4. \A o \in Viewers : reader'[o] =
        IF o = v THEN [left |-> reader[v].left \ {t}, snap |-> n, at |-> "snap"]
                 ELSE reader[o]
  BY <1>2 DEF ReaderOK
<1>5. TypeOK' BY <1>1, <1>4 DEF TypeOK
<1>6. ShownWasHeld' BY DEF ShownWasHeld
<1>7. WereHeld'
  <2>1. \A o \in Viewers : \A u \in DOMAIN reader'[o].snap :
          reader'[o].snap[u] \in held[u] \cup {NoValue}
    <3> TAKE o \in Viewers
    <3>1. CASE o = v
      <4>1. reader'[o].snap = n
        <5>1. reader'[v] = [left |-> reader[v].left \ {t}, snap |-> n, at |-> "snap"]
          BY ONLY v \in Viewers, <1>4
        <5>2. QED BY ONLY <5>1, <3>1
      <4>2. UNCHANGED held OBVIOUS
      <4>3. QED BY ONLY <1>1, <4>1, <4>2
    <3>2. CASE o # v BY <1>4, <3>2 DEF WereHeld
    <3>3. QED BY <3>1, <3>2
  <2>2. QED BY <2>1 DEF WereHeld, PollTag
<1>8. EarlyStay' /\ ReaderOK' BY <1>2, <1>3, <1>4 DEF EarlyStay, ReaderOK
<1>9. ShownOrPending' /\ PollFollows'
  BY DEF ShownOrPending, Undisturbed, PollFollows, Untouched
<1>10. QED BY <1>5, <1>6, <1>7, <1>8, <1>9

LEMMA SnapSendStep == ASSUME IInv, NEW v \in Viewers, SnapSend(v) PROVE IInv'
<1> USE DEF IInv, Inv, SnapSend
<1> DEFINE m == reader[v].snap
<1>1. /\ DOMAIN m \subseteq Tags
      /\ \A t \in DOMAIN m : m[t] \in Kept /\ m[t] \in held[t] \cup {NoValue}
  BY DEF TypeOK, WereHeld
<1>2. Message(v, m) /\ UNCHANGED held OBVIOUS
<1> HIDE DEF m
<1>3. /\ shown' \in [Viewers -> [Tags -> Kept]] /\ ShownHeld'
      /\ \A u \in Viewers \ {v} : shown'[u] = shown[u]
  BY <1>1, <1>2, MessageShows
<1>4. v \notin Early BY DEF EarlyStay
<1>5. \A o \in Viewers :
        reader'[o] = IF o = v THEN [left |-> {}, snap |-> <<>>, at |-> "read"] ELSE reader[o]
  BY DEF ReaderOK
<1>6. DOMAIN <<>> = {} OBVIOUS
<1>7. TypeOK'
  <2>1. \A o \in Viewers :
          /\ reader'[o].left \subseteq Tags
          /\ reader'[o].at \in {"read", "snap"}
          /\ DOMAIN reader'[o].snap \subseteq Tags
          /\ \A t \in DOMAIN reader'[o].snap : reader'[o].snap[t] \in Kept
    BY <1>5, <1>6 DEF TypeOK
  <2>2. QED BY <1>3, <2>1 DEF TypeOK
<1>8. ShownWasHeld' BY <1>3 DEF ShownWasHeld, ShownHeld
<1>9. WereHeld' BY <1>5, <1>6 DEF WereHeld, PollTag
<1>10. EarlyStay' /\ ReaderOK' BY <1>4, <1>5 DEF EarlyStay, ReaderOK
<1>11. ShownOrPending' BY <1>3, <1>4 DEF ShownOrPending, Undisturbed
<1>12. PollFollows' BY DEF PollFollows, Untouched
<1>13. QED BY <1>7, <1>8, <1>9, <1>10, <1>11, <1>12

----------------------------------------------------------------------------
(* The poll *)

PollType == [at : {"read", "store", "send"}, next : 1 .. Len(TagSeq) + 1, raw : Kept,
             updates : Seq(Updates), good : BOOLEAN, bad : BOOLEAN, to : SUBSET Viewers]

LEMMA PollReadStep == ASSUME IInv, PollRead PROVE IInv'
<1> USE DEF IInv, Inv, PollRead
<1> DEFINE x == plc[PollTag]
<1>1. PollTag \in Tags /\ x \in Values /\ x \in held[PollTag]
  BY TagAt, Length DEF PollTag, TypeOK, WereHeld
<1>2. poll' = [poll EXCEPT !.at = "store", !.raw = x, !.good = TRUE] OBVIOUS
<1> HIDE DEF x
<1>3. /\ poll' \in PollType /\ poll'.at = "store" /\ poll'.raw = x /\ poll'.next = poll.next
      /\ poll'.updates = poll.updates /\ poll'.to = poll.to
  <2>1. poll \in PollType /\ x \in Kept BY <1>1 DEF TypeOK, PollType, Kept
  <2>2. QED BY ONLY <1>2, <2>1 DEF PollType
<1>4. TypeOK' BY <1>1, <1>3, Length DEF TypeOK, PollType
<1>5. ShownWasHeld' /\ ReaderOK' /\ EarlyStay' BY DEF ShownWasHeld, ReaderOK, EarlyStay
<1>6. ShownOrPending' BY <1>3 DEF ShownOrPending, Undisturbed
<1>7. WereHeld' BY <1>1, <1>3 DEF WereHeld, PollTag
<1>8. PollFollows' BY <1>3 DEF PollFollows, Untouched
<1>9. QED BY <1>4, <1>5, <1>6, <1>7, <1>8

LEMMA PollReadFailsStep == ASSUME IInv, PollReadFails PROVE IInv'
<1> USE DEF IInv, Inv, PollReadFails
<1>1. /\ poll' \in PollType /\ poll'.at = "read" /\ poll'.next = poll.next + 1
      /\ poll'.updates = poll.updates /\ poll'.to = poll.to
      /\ poll.next \in Nat
  <2>1. poll \in PollType BY DEF TypeOK, PollType
  <2>2. poll.next \in Nat /\ poll.next + 1 \in 1 .. Len(TagSeq) + 1
    BY <2>1, Length DEF PollType
  <2>3. poll' = [poll EXCEPT !.next = @ + 1, !.bad = TRUE] /\ poll.at = "read" OBVIOUS
  <2>4. QED BY ONLY <2>1, <2>2, <2>3 DEF PollType
<1>2. failed' \in 0 .. MaxFails BY DEF TypeOK, CallFails
<1>3. TypeOK' BY <1>1, <1>2 DEF TypeOK, PollType
<1>4. ShownWasHeld' /\ ReaderOK' /\ EarlyStay' BY DEF ShownWasHeld, ReaderOK, EarlyStay
<1>5. ShownOrPending' BY <1>1 DEF ShownOrPending, Undisturbed
<1>6. WereHeld' BY <1>1 DEF WereHeld, PollTag
<1>7. PollFollows'
  <2>1. 1 .. poll.next - 1 \subseteq 1 .. poll'.next - 1 BY <1>1
  <2>2. QED BY <1>1, <2>1 DEF PollFollows, Untouched
<1>8. QED BY <1>3, <1>4, <1>5, <1>6, <1>7

LEMMA PollEndStep == ASSUME IInv, PollEnd PROVE IInv'
<1> USE DEF IInv, Inv, PollEnd
<1>1. /\ poll' \in PollType /\ poll'.at = "send"
      /\ poll'.updates = poll.updates /\ poll'.to = poll.to
  BY DEF TypeOK, PollType
<1>2. UpAfterPoll \in BOOLEAN BY DEF UpAfterPoll, TypeOK
<1>3. TypeOK' BY <1>1, <1>2 DEF TypeOK, PollType
<1>4. ShownWasHeld' /\ ReaderOK' /\ EarlyStay' BY DEF ShownWasHeld, ReaderOK, EarlyStay
<1>5. ShownOrPending' BY <1>1 DEF ShownOrPending, Undisturbed
<1>6. WereHeld' BY <1>1 DEF WereHeld
<1>7. PollFollows' BY <1>1 DEF PollFollows, Untouched
<1>8. QED BY <1>3, <1>4, <1>5, <1>6, <1>7

LEMMA PollTickStep == ASSUME IInv, PollTick PROVE IInv'
<1> USE DEF IInv, Inv, PollTick
<1>1. /\ poll' \in PollType /\ poll'.at = "read" /\ poll'.next = 1
      /\ poll'.updates = <<>> /\ Len(poll'.updates) = 0 /\ poll'.to = Viewers
  BY Length DEF Idle, PollType, Kept
<1>2. Len(poll.updates) = 0 OBVIOUS
<1>3. TypeOK' BY <1>1 DEF TypeOK, PollType
<1>4. ShownWasHeld' /\ ReaderOK' /\ EarlyStay' BY DEF ShownWasHeld, ReaderOK, EarlyStay
<1>5. ShownOrPending' BY <1>2 DEF ShownOrPending, Undisturbed
<1>6. WereHeld' BY <1>1 DEF WereHeld
<1>7. PollFollows' BY <1>1 DEF PollFollows, Untouched
<1>8. QED BY <1>3, <1>4, <1>5, <1>6, <1>7

(* A changed tag is told of later, by the last update of this poll.          *)
LEMMA PollStoreStep == ASSUME IInv, PollStore PROVE IInv'
<1> USE DEF IInv, Inv, PollStore
<1> DEFINE t == PollTag
           x == poll.raw
           old == poll.updates
           new == IF IsChange(t, x) THEN Append(old, Update(t, x)) ELSE old
<1>1. /\ poll \in PollType /\ poll.next \in 1 .. Len(TagSeq) /\ Len(TagSeq) \in Nat
      /\ old \in Seq(Updates) /\ Len(old) \in Nat
      /\ x \in Values /\ x \in held[t]
  BY Length DEF TypeOK, PollType, WereHeld
<1>2. t \in Tags /\ t = TagSeq[poll.next] BY <1>1, TagAt DEF PollTag
<1>3. /\ poll' = [poll EXCEPT !.at = "read", !.next = @ + 1, !.raw = NoValue, !.updates = new]
      /\ state' = [state EXCEPT ![t] = x]
  BY DEF PollTag
<1>4. Update(t, x) \in Updates /\ Update(t, x).tag = t /\ Update(t, x).value = x
  BY <1>1, <1>2 DEF Update, Updates
<1>5. /\ new \in Seq(Updates) /\ Len(new) \in Nat
      /\ \A i \in 1 .. Len(old) : i \in 1 .. Len(new) /\ new[i] = old[i]
      /\ state[t] # x => Len(new) = Len(old) + 1 /\ new[Len(old) + 1] = Update(t, x)
      /\ state[t] = x => new = old
  BY <1>1, <1>4 DEF IsChange
<1>inv. /\ TypeOK /\ ShownWasHeld /\ ShownOrPending
      /\ ReaderOK /\ WereHeld /\ PollFollows /\ EarlyStay
  OBVIOUS
<1>same. /\ poll.at = "store" /\ old = poll.updates
      /\ UNCHANGED <<plc, up, put, sub, reader, shown, changed, failed, held>>
  OBVIOUS
<1> HIDE DEF x, t, new, old, IInv, Inv, PollStore
<1>6. \A i \in 1 .. Len(new) : i \in 1 .. Len(old) \/ (state[t] # x /\ i = Len(old) + 1)
  BY <1>1, <1>5
<1>7. /\ poll' \in PollType /\ poll'.at = "read" /\ poll'.next = poll.next + 1
      /\ poll'.updates = new /\ poll'.to = poll.to
  <2>1. NoValue \in Kept /\ poll.next + 1 \in 1 .. Len(TagSeq) + 1 BY <1>1 DEF Kept
  <2>2. QED BY ONLY <1>1, <1>3, <1>5, <2>1 DEF PollType
<1>8. state' \in [Tags -> Kept] /\ state'[t] = x /\ \A u \in Tags \ {t} : state'[u] = state[u]
  BY <1>1, <1>2, <1>3, <1>inv DEF TypeOK, Kept
<1>10. TypeOK' BY <1>inv, <1>7, <1>8, <1>same DEF TypeOK, PollType
<1>11. ShownWasHeld' BY <1>inv, <1>1, <1>8, <1>same DEF ShownWasHeld
<1>12. ReaderOK' /\ EarlyStay' BY <1>inv, <1>same DEF ReaderOK, EarlyStay
<1>13. WereHeld'
  <2>1. \A i \in 1 .. Len(new) : new[i].value \in held[new[i].tag]
    BY <1>1, <1>4, <1>5, <1>6, <1>same, <1>inv DEF WereHeld
  <2>2. QED BY <1>7, <1>same, <1>inv, <2>1 DEF WereHeld
<1>14. poll.to = Viewers /\ \A i \in 1 .. Len(old) : \E k \in 1 .. poll.next - 1 :
         old[i].tag = TagSeq[k]
  BY <1>same, <1>inv DEF PollFollows
<1>15. PollFollows'
  <2>1. \A i \in 1 .. Len(new) : \E k \in 1 .. poll.next : new[i].tag = TagSeq[k]
    <3> TAKE i \in 1 .. Len(new)
    <3>1. CASE i \in 1 .. Len(old)
      <4>1. PICK k \in 1 .. poll.next - 1 : old[i].tag = TagSeq[k] BY <1>14, <3>1
      <4>2. k \in 1 .. poll.next BY <1>1
      <4>3. QED BY <1>5, <3>1, <4>1, <4>2
    <3>2. CASE state[t] # x /\ i = Len(old) + 1
      <4>1. poll.next \in 1 .. poll.next BY <1>1
      <4>2. QED BY <1>2, <1>4, <1>5, <3>2, <4>1
    <3>3. QED BY <1>6, <3>1, <3>2
  <2>2. poll'.next - 1 = poll.next BY <1>1, <1>7
  <2>3. ASSUME Untouched PROVE \A i \in 1 .. Len(new) : new[i].value = state'[new[i].tag]
    <3> TAKE i \in 1 .. Len(new)
    <3>1. CASE i \in 1 .. Len(old)
      <4>1. PICK k \in 1 .. poll.next - 1 : old[i].tag = TagSeq[k] BY <1>14, <3>1
      <4>2. k \in 1 .. Len(TagSeq) /\ k # poll.next BY <1>1
      <4>3. old[i].tag # t BY <1>1, <1>2, <4>1, <4>2
      <4>4. old[i].tag \in Tags BY <4>1, <4>2, TagAt
      <4>5. old[i].value = state[old[i].tag] BY <2>3, <3>1, <1>same, <1>inv DEF PollFollows
      <4>6. QED BY <1>5, <1>8, <3>1, <4>3, <4>4, <4>5
    <3>2. CASE state[t] # x /\ i = Len(old) + 1 BY <1>4, <1>5, <1>8, <3>2
    <3>3. QED BY <1>6, <3>1, <3>2
  <2>4. Untouched' = Untouched BY <1>same DEF Untouched
  <2>5. QED BY <1>7, <1>14, <2>1, <2>2, <2>3, <2>4 DEF PollFollows
<1>16. ShownOrPending'
  <2>1. Undisturbed' = Undisturbed BY <1>same DEF Undisturbed
  <2>2. SUFFICES ASSUME NEW v \in Undisturbed, NEW u \in sub[v]
                 PROVE  \/ shown[v][u] = state'[u]
                        \/ \E i \in 1 .. Len(new) :
                             new[i] = Update(u, state'[u]) /\ (i = 1 => v \in Viewers)
    BY <1>7, <1>same, <1>14, <2>1 DEF ShownOrPending
  <2>3. u \in Tags /\ v \in Viewers BY <1>inv, ViewersAssumption DEF Undisturbed, TypeOK
  <2>4. CASE u = t /\ state[t] # x
    <3>1. Len(old) + 1 \in 1 .. Len(new) BY <1>1, <1>5, <2>4
    <3>2. QED BY <1>5, <1>8, <2>3, <2>4, <3>1
  <2>5. CASE u # t \/ state[t] = x
    <3>1. state'[u] = state[u] BY <1>8, <2>3, <2>5
    <3>2. \/ shown[v][u] = state[u]
          \/ \E i \in 1 .. Len(old) : old[i] = Update(u, state[u])
      BY <1>same, <1>inv DEF ShownOrPending
    <3>3. QED BY <1>5, <2>3, <3>1, <3>2
  <2>6. QED BY <2>4, <2>5
<1>17. QED BY <1>10, <1>11, <1>12, <1>13, <1>15, <1>16 DEF IInv, Inv

LEMMA PollSendStep == ASSUME IInv, NEW v \in Viewers, PollSend(v) PROVE IInv'
<1> USE DEF IInv, Inv, PollSend
<1> DEFINE u == Head(poll.updates)
<1>1. /\ poll \in PollType /\ 1 \in 1 .. Len(poll.updates)
      /\ u = poll.updates[1] /\ u \in Updates
  BY DEF TypeOK, PollType
<1>2. u.tag \in Tags /\ u.value \in held[u.tag] BY <1>1 DEF WereHeld, Updates
<1>3. Tell(v, u) /\ UNCHANGED held OBVIOUS
<1>4. /\ poll' \in PollType /\ poll'.at = "send" /\ poll'.updates = poll.updates
      /\ poll'.to = poll.to \ {v}
  BY <1>1 DEF PollType
<1> HIDE DEF u
<1>5. /\ shown' \in [Viewers -> [Tags -> Kept]] /\ ShownHeld'
      /\ \A o \in Viewers \ {v} : shown'[o] = shown[o]
      /\ v \notin Slow /\ sub[v] = Tags =>
           \A t \in Tags : shown'[v][t] = IF t = u.tag THEN u.value ELSE shown[v][t]
  BY <1>1, <1>2, <1>3, TellShows
<1>6. TypeOK' BY <1>4, <1>5 DEF TypeOK, PollType
<1>7. ShownWasHeld' BY <1>5 DEF ShownWasHeld, ShownHeld
<1>8. ReaderOK' /\ EarlyStay' BY DEF ReaderOK, EarlyStay
<1>9. WereHeld' BY <1>4 DEF WereHeld
<1>10. PollFollows' BY <1>4 DEF PollFollows, Untouched
<1>11. ShownOrPending'
  <2>1. SUFFICES ASSUME NEW o \in Undisturbed, NEW t \in sub[o]
                 PROVE  \/ shown'[o][t] = state[t]
                        \/ \E i \in 1 .. Len(poll.updates) :
                             /\ poll.updates[i] = Update(t, state[t])
                             /\ i = 1 => o \in poll.to \ {v}
    BY <1>4 DEF ShownOrPending, Undisturbed
  <2>2. o \in Viewers /\ o \in Early /\ o \notin Slow /\ Untouched /\ sub[o] = Tags
    BY DEF Undisturbed, Untouched, EarlyStay
  <2>3. \/ shown[o][t] = state[t]
        \/ \E i \in 1 .. Len(poll.updates) :
             poll.updates[i] = Update(t, state[t]) /\ (i = 1 => o \in poll.to)
    BY DEF ShownOrPending
  <2>4. CASE o # v
    <3>1. shown'[o] = shown[o] BY <1>5, <2>2, <2>4
    <3>2. QED BY <2>3, <2>4, <3>1
  <2>5. CASE o = v /\ t = u.tag
    <3>1. u.value = state[u.tag] BY <1>1, <2>2 DEF PollFollows
    <3>2. QED BY <1>2, <1>5, <2>2, <2>5, <3>1
  <2>6. CASE o = v /\ t # u.tag
    <3>1. shown'[o][t] = shown[o][t] BY <1>5, <2>2, <2>6
    <3>2. \A i \in 1 .. Len(poll.updates) : poll.updates[i] = Update(t, state[t]) => i # 1
      BY <1>1, <2>6 DEF Update
    <3>3. QED BY <2>3, <3>1, <3>2
  <2>7. QED BY <2>4, <2>5, <2>6
<1>12. QED BY <1>6, <1>7, <1>8, <1>9, <1>10, <1>11

LEMMA PollNextStep == ASSUME IInv, PollNext PROVE IInv'
<1> USE DEF IInv, Inv, PollNext
<1> DEFINE old == poll.updates
           new == Tail(poll.updates)
<1>1. /\ poll \in PollType /\ new \in Seq(Updates) /\ Len(old) \in Nat
      /\ Len(new) = Len(old) - 1 /\ Len(old) >= 1
      /\ \A i \in 1 .. Len(new) : new[i] = old[i + 1]
  BY DEF TypeOK, PollType
<1>2. poll' \in PollType /\ poll'.at = "send" /\ poll'.updates = new /\ poll'.to = Viewers
  BY <1>1 DEF PollType
<1>3. poll.to = {} /\ old = poll.updates
      /\ UNCHANGED <<plc, state, up, put, sub, reader, shown, changed, failed, held>>
  OBVIOUS
<1> HIDE DEF new, old
<1>4. TypeOK' BY <1>2, <1>3 DEF TypeOK, PollType
<1>5. ShownWasHeld' /\ ReaderOK' /\ EarlyStay' BY <1>3 DEF ShownWasHeld, ReaderOK, EarlyStay
<1>6. \A i \in 1 .. Len(new) : i + 1 \in 1 .. Len(old) BY <1>1
<1>7. WereHeld' BY <1>1, <1>2, <1>3, <1>6 DEF WereHeld
<1>8. PollFollows' BY <1>1, <1>2, <1>3, <1>6 DEF PollFollows, Untouched
<1>9. ShownOrPending'
  <2>1. SUFFICES ASSUME NEW o \in Undisturbed, NEW t \in sub[o]
                 PROVE  \/ shown[o][t] = state[t]
                        \/ \E i \in 1 .. Len(new) : new[i] = Update(t, state[t])
    BY <1>2, <1>3 DEF ShownOrPending, Undisturbed
  <2>2. CASE shown[o][t] # state[t]
    <3>1. PICK i \in 1 .. Len(old) : old[i] = Update(t, state[t]) /\ i # 1
      BY <1>3, <2>2 DEF ShownOrPending
    <3>2. i - 1 \in 1 .. Len(new) /\ new[i - 1] = old[i] BY <1>1, <3>1
    <3>3. QED BY <3>1, <3>2
  <2>3. QED BY <2>2
<1>10. QED BY <1>4, <1>5, <1>7, <1>8, <1>9

----------------------------------------------------------------------------
LEMMA NextInv == IInv /\ [Next]_vars => IInv'
<1> SUFFICES ASSUME IInv, [Next]_vars PROVE IInv'
  OBVIOUS
<1>1. CASE \E t \in Tags, x \in Values : PlcProgram(t, x) BY <1>1, ProgramStep
<1>2. CASE Poll
  BY <1>2, PollReadStep, PollReadFailsStep, PollStoreStep, PollEndStep, PollSendStep,
     PollNextStep, PollTickStep DEF Poll
<1>3. CASE \E w \in Puts : ApplyWrite(w)
  BY <1>3, PutWriteStep, PutFailsStep, PutStoreStep, PutSendStep, PutDoneStep
     DEF ApplyWrite, Written
<1>4. CASE \E v \in Viewers : Snapshot(v) \/ \E names \in Pages : Subscribe(v, names)
  BY <1>4, SnapTagStep, SnapSendStep, SubscribeStep DEF Snapshot
<1>5. CASE UNCHANGED vars
  <2> USE <1>5 DEF vars, IInv, Inv
  <2>1. TypeOK' BY DEF TypeOK
  <2>2. ShownWasHeld' /\ ReaderOK' /\ EarlyStay' BY DEF ShownWasHeld, ReaderOK, EarlyStay
  <2>3. ShownOrPending' BY DEF ShownOrPending, Undisturbed
  <2>4. WereHeld' BY DEF WereHeld, PollTag
  <2>5. PollFollows' BY DEF PollFollows, Untouched
  <2>6. QED BY <2>1, <2>2, <2>3, <2>4, <2>5
<1>6. QED BY <1>1, <1>2, <1>3, <1>4, <1>5 DEF Next

(* No viewer of a server is ever shown, and no snapshot ever holds, a value  *)
(* the tag did not have in the PLC; and a viewer of the first poll shows the *)
(* server's state or is about to be told by this poll, until somebody        *)
(* writes (pollOnce, applyWrite and the snapshot of `sub`).                  *)
THEOREM StateInvariant == Spec => []Inv
<1>1. IInv => Inv BY DEF IInv
<1>2. QED BY InitInv, NextInv, <1>1, PTL DEF Spec
=============================================================================
