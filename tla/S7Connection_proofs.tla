-------------------------- MODULE S7Connection_proofs --------------------------
(***************************************************************************)
(* The safety properties of a connection for every number and every order  *)
(* of packets.                                                             *)
(***************************************************************************)
EXTENDS S7Connection, TLAPS

USE SentAssumption, MaxAssumption DEF Packets

(* Packet p comes after a negotiation both of whose answers were written.    *)
Ready(p) ==
  /\ Negotiated(p)
  /\ \E i, j \in DOMAIN replies :
       i < j /\ replies[i].kind = "confirm" /\ replies[j].kind = "setup"
       /\ replies[j].to < p

(* Handlers are those of packets that were dispatched; they answer last.     *)
HandlersFollow ==
  /\ \A i \in DOMAIN replies :
       replies[i].to <= taken /\ job[replies[i].to] \in {"none", "ended"}
  /\ \A p \in Packets :
       job[p] # "none" => p <= taken /\ Accepted(stream[p]) /\ Ready(p)
  /\ \A p \in Packets :
       /\ job[p] = "carried" => p \in carried
       /\ p \in carried => job[p] # "none"

(* What the reader has seen when it is in a phase.                           *)
PhaseMeaning ==
  /\ phase = "connect" => taken = 0
  /\ phase = "setup" =>
       /\ taken >= 1 /\ stream[1] = "connect"
       /\ \E i \in DOMAIN replies : replies[i].kind = "confirm"
       /\ \A q \in 2 .. taken : stream[q] # "setup"
  /\ phase = "data" => Ready(taken + 1)

IInv == Inv /\ HandlersFollow /\ PhaseMeaning

(* No packet and no answer is taken back.                                    *)
Grown ==
  /\ \A i \in DOMAIN replies : i \in DOMAIN replies' /\ replies'[i] = replies[i]
  /\ Len(stream) <= Len(stream')
  /\ \A q \in 1 .. Len(stream) : stream'[q] = stream[q]

----------------------------------------------------------------------------
LEMMA InitInv == Init => IInv
<1> SUFFICES ASSUME Init PROVE IInv
  OBVIOUS
<1> USE DEF Init
<1>1. TypeOK
  <2>1. stream \in Seq(Kinds) /\ replies \in Seq(Reply) /\ Len(stream) = 0 OBVIOUS
  <2>2. job \in [Packets -> {"none", "started", "carried", "ended"}] OBVIOUS
  <2>3. taken \in 0 .. Len(stream) /\ Len(stream) <= MaxPackets BY <2>1
  <2>4. phase = "connect" /\ hung = FALSE /\ carried = {} OBVIOUS
  <2>5. QED BY <2>1, <2>2, <2>3, <2>4 DEF TypeOK
<1>2. DOMAIN replies = {} OBVIOUS
<1>3. AnsweredOnce /\ NothingBeforeSetup /\ SupportedNotRefused /\ ResultIsCarriedOut
  BY <1>2 DEF AnsweredOnce, NothingBeforeSetup, SupportedNotRefused, ResultIsCarriedOut
<1>4. HandlersFollow /\ PhaseMeaning BY <1>2 DEF HandlersFollow, PhaseMeaning
<1>5. QED BY <1>1, <1>3, <1>4 DEF IInv, Inv

LEMMA ReplyIsReply ==
  ASSUME TypeOK, NEW i \in DOMAIN replies
  PROVE  replies[i].to \in Packets /\ replies[i].kind \in ReplyKinds
<1>1. replies[i] \in Reply BY DEF TypeOK
<1>2. QED BY <1>1 DEF Reply

(* What was ready stays so, and so is what comes after it.                   *)
LEMMA ReadyLater ==
  ASSUME TypeOK, Grown, NEW p \in Nat, NEW q \in Nat, Ready(p), p <= q, p <= Len(stream) + 1
  PROVE  Ready(q)'
<1>1. Negotiated(q)'
  <2>1. p > 1 /\ stream[1] = "connect" /\ 1 \in 1 .. Len(stream)
    BY DEF Ready, Negotiated, TypeOK
  <2>2. PICK r \in 2 .. (p - 1) : stream[r] = "setup" BY DEF Ready, Negotiated
  <2>3. r \in 2 .. (q - 1) /\ r \in 1 .. Len(stream) BY DEF TypeOK
  <2>4. stream'[r] = "setup" /\ stream'[1] = "connect" BY <2>1, <2>2, <2>3 DEF Grown
  <2>5. QED BY <2>1, <2>3, <2>4 DEF Negotiated
<1>2. PICK i \in DOMAIN replies, j \in DOMAIN replies :
        i < j /\ replies[i].kind = "confirm" /\ replies[j].kind = "setup" /\ replies[j].to < p
  BY DEF Ready
<1>3. /\ i \in DOMAIN replies' /\ j \in DOMAIN replies'
      /\ replies'[i].kind = "confirm" /\ replies'[j].kind = "setup" /\ replies'[j].to = replies[j].to
  BY <1>2 DEF Grown
<1>4. replies[j].to < q
  <2>1. replies[j] \in Reply BY DEF TypeOK
  <2>2. replies[j].to \in Packets BY <2>1 DEF Reply
  <2>3. QED BY <1>2, <2>2
<1>5. QED BY <1>1, <1>2, <1>3, <1>4 DEF Ready

(* An answer to a packet that had none yet.                                  *)
LEMMA OneAnswer ==
  ASSUME IInv, NEW p \in Packets, p <= Len(stream), NEW k \in ReplyKinds, Put(p, k),
         stream' = stream, carried \subseteq carried', ~Answered(p),
         k = "unsupported" /\ stream[p] \in Supported => ~Negotiated(p),
         k = "result" => p \in carried \/ stream[p] = "szl"
  PROVE  /\ replies' \in Seq(Reply) /\ Grown
         /\ AnsweredOnce' /\ SupportedNotRefused' /\ ResultIsCarriedOut'
         /\ DOMAIN replies' = DOMAIN replies \cup {Len(replies) + 1}
         /\ replies'[Len(replies) + 1] = [to |-> p, kind |-> k]
<1> DEFINE n == Len(replies) + 1
<1>1. [to |-> p, kind |-> k] \in Reply BY DEF Reply
<1>2. replies \in Seq(Reply) BY DEF IInv, Inv, TypeOK
<1>3. /\ replies' \in Seq(Reply) /\ DOMAIN replies' = DOMAIN replies \cup {n}
      /\ replies'[n] = [to |-> p, kind |-> k]
      /\ \A i \in DOMAIN replies : replies'[i] = replies[i] /\ i # n
  BY <1>1, <1>2 DEF Put
<1>4. Grown BY <1>3 DEF Grown, IInv, Inv, TypeOK
<1>5. \A i \in DOMAIN replies : replies[i].to # p BY DEF Answered
<1>6. AnsweredOnce' BY <1>3, <1>5 DEF AnsweredOnce, IInv, Inv
<1>7. SupportedNotRefused'
  BY <1>3 DEF SupportedNotRefused, Negotiated, IInv, Inv
<1>8. ResultIsCarriedOut'
  BY <1>3 DEF ResultIsCarriedOut, IInv, Inv
<1>9. QED BY <1>3, <1>4, <1>6, <1>7, <1>8

(* A step that answers nothing, and may send a packet.                       *)
LEMMA NoAnswer ==
  ASSUME IInv, replies' = replies, carried \subseteq carried',
         stream' = stream \/ \E k \in Sent : stream' = Append(stream, k)
  PROVE  Grown /\ AnsweredOnce' /\ SupportedNotRefused' /\ ResultIsCarriedOut'
<1>1. Grown
  <2>1. stream \in Seq(Kinds) BY DEF IInv, Inv, TypeOK
  <2>2. CASE stream' = stream BY <2>1, <2>2 DEF Grown
  <2>3. CASE \E k \in Sent : stream' = Append(stream, k)
    <3>1. PICK k \in Kinds : stream' = Append(stream, k) BY <2>3
    <3>2. Len(stream') = Len(stream) + 1 BY <2>1, <3>1
    <3>3. \A q \in 1 .. Len(stream) : stream'[q] = stream[q] BY <2>1, <3>1
    <3>4. Len(stream) \in Nat BY <2>1
    <3>5. QED BY <3>2, <3>3, <3>4 DEF Grown
  <2>4. QED BY <2>2, <2>3
<1>2. \A i \in DOMAIN replies : replies[i].to \in 1 .. Len(stream)
  BY ReplyIsReply DEF IInv, Inv, TypeOK, HandlersFollow
<1>3. \A p \in 1 .. Len(stream) : stream'[p] = stream[p] /\ (Negotiated(p)' => Negotiated(p))
  BY <1>1 DEF Grown, Negotiated
<1>4. SupportedNotRefused' BY <1>2, <1>3 DEF SupportedNotRefused, IInv, Inv
<1>5. ResultIsCarriedOut' BY <1>2, <1>3 DEF ResultIsCarriedOut, IInv, Inv
<1>6. AnsweredOnce' BY DEF AnsweredOnce, IInv, Inv
<1>7. QED BY <1>1, <1>4, <1>5, <1>6

(* The reader takes a packet: it is no packet's that was taken or answered.  *)
LEMMA TakenIsNew ==
  ASSUME IInv, Unread
  PROVE  /\ Packet \in Packets /\ Packet <= Len(stream) /\ taken + 1 = Packet
         /\ Packet \in Nat /\ Kind \in Kinds
         /\ job[Packet] = "none" /\ ~Answered(Packet)
<1>1. Packet \in Packets /\ Packet <= Len(stream) /\ Packet \in 1 .. Len(stream)
  BY DEF IInv, Inv, TypeOK, Unread, Packet
<1>2. Kind \in Kinds BY <1>1 DEF IInv, Inv, TypeOK, Kind
<1>3. job[Packet] = "none" BY <1>1 DEF IInv, Inv, TypeOK, HandlersFollow, Packet
<1>4. ~Answered(Packet) BY ReplyIsReply DEF IInv, Inv, TypeOK, HandlersFollow, Packet, Answered
<1>5. QED BY <1>1, <1>2, <1>3, <1>4 DEF Packet

Phases == {"connect", "setup", "data", "over"}

(* What every step of the reader that starts no handler keeps.               *)
ReaderKeeps ==
  TypeOK' /\ Grown /\ AnsweredOnce' /\ SupportedNotRefused' /\ ResultIsCarriedOut'
  /\ HandlersFollow'

(* Handlers stay behind what the reader has taken.                           *)
LEMMA HandlersStay ==
  ASSUME IInv, Unread, Take, job' = job, Grown
  PROVE  /\ \A p \in Packets :
              job'[p] # "none" => p <= taken' /\ Accepted(stream'[p]) /\ Ready(p)'
         /\ \A p \in Packets :
              /\ job'[p] = "carried" => p \in carried'
              /\ p \in carried' => job'[p] # "none"
<1>1. ASSUME NEW p \in Packets, job[p] # "none"
      PROVE  p <= taken' /\ Accepted(stream'[p]) /\ Ready(p)'
  <2>1. p <= taken /\ Ready(p) /\ Accepted(stream[p])
    BY <1>1 DEF IInv, HandlersFollow
  <2>2. taken \in Nat /\ taken <= Len(stream) /\ Len(stream) \in Nat /\ taken' = taken + 1
    BY DEF IInv, Inv, TypeOK, Take, Packet
  <2>3. Ready(p)' BY <2>1, <2>2, ReadyLater DEF IInv, Inv
  <2>4. QED BY <2>1, <2>2, <2>3 DEF Take
<1>2. QED BY <1>1 DEF IInv, HandlersFollow, Take

LEMMA ReaderAnswers ==
  ASSUME IInv, Unread, Take, job' = job, phase' \in Phases, NEW k \in ReplyKinds, Put(Packet, k),
         k = "unsupported" /\ Kind \in Supported => ~Negotiated(Packet), k # "result"
  PROVE  /\ ReaderKeeps
         /\ Len(replies) + 1 \in DOMAIN replies'
         /\ replies'[Len(replies) + 1] = [to |-> Packet, kind |-> k]
<1>1. /\ replies' \in Seq(Reply) /\ Grown
      /\ AnsweredOnce' /\ SupportedNotRefused' /\ ResultIsCarriedOut'
      /\ DOMAIN replies' = DOMAIN replies \cup {Len(replies) + 1}
      /\ replies'[Len(replies) + 1] = [to |-> Packet, kind |-> k]
  BY TakenIsNew, OneAnswer DEF Take, Kind
<1>2. TypeOK'
  BY <1>1, TakenIsNew DEF IInv, Inv, TypeOK, Take, Phases
<1>3. ASSUME NEW i \in DOMAIN replies'
      PROVE  replies'[i].to <= taken' /\ job'[replies'[i].to] \in {"none", "ended"}
  <2>1. CASE i = Len(replies) + 1
    BY <2>1, <1>1, TakenIsNew DEF Take
  <2>2. CASE i \in DOMAIN replies
    <3>1. replies'[i] = replies[i] BY <1>1, <2>2 DEF Grown
    <3>2. replies[i].to <= taken /\ job[replies[i].to] \in {"none", "ended"}
      BY <2>2 DEF IInv, HandlersFollow
    <3>3. replies[i].to \in Nat /\ taken \in Nat /\ taken' = taken + 1
      BY <2>2, ReplyIsReply DEF IInv, Inv, TypeOK, Take, Packet
    <3>4. QED BY <3>1, <3>2, <3>3
  <2>3. QED BY <1>1, <2>1, <2>2
<1>4. HandlersFollow' BY <1>1, <1>3, HandlersStay DEF HandlersFollow
<1>5. QED BY <1>1, <1>2, <1>4 DEF ReaderKeeps

LEMMA ReaderQuiet ==
  ASSUME IInv, Unread, Take, job' = job, phase' \in Phases, replies' = replies
  PROVE  ReaderKeeps
<1>1. Grown /\ AnsweredOnce' /\ SupportedNotRefused' /\ ResultIsCarriedOut'
  BY NoAnswer DEF Take
<1>2. TypeOK'
  BY TakenIsNew DEF IInv, Inv, TypeOK, Take, Phases
<1>3. ASSUME NEW i \in DOMAIN replies'
      PROVE  replies'[i].to <= taken' /\ job'[replies'[i].to] \in {"none", "ended"}
  <2>1. replies[i].to <= taken /\ job[replies[i].to] \in {"none", "ended"}
    BY DEF IInv, HandlersFollow
  <2>2. replies[i].to \in Nat /\ taken \in Nat /\ taken' = taken + 1
    BY ReplyIsReply DEF IInv, Inv, TypeOK, Take, Packet
  <2>3. QED BY <2>1, <2>2
<1>4. HandlersFollow' BY <1>1, <1>3, HandlersStay DEF HandlersFollow
<1>5. QED BY <1>1, <1>2, <1>4 DEF ReaderKeeps

(* The handlers' part of the invariant gives the one about data blocks.      *)
LEMMA CarriedReady == TypeOK /\ HandlersFollow => NothingBeforeSetup
BY DEF TypeOK, HandlersFollow, NothingBeforeSetup, Ready

LEMMA ReaderDone ==
  ASSUME ReaderKeeps, PhaseMeaning' PROVE IInv'
BY CarriedReady, PTL DEF ReaderKeeps, IInv, Inv
----------------------------------------------------------------------------
(* The reader, phase by phase.                                               *)
LEMMA PhaseFacts == TypeOK => phase \in Phases /\ taken \in Nat /\ Len(stream) \in Nat
BY DEF TypeOK, Phases

LEMMA ConfirmInv == ASSUME IInv, Confirm PROVE IInv'
<1> USE DEF Confirm, AfterConfirm
<1>1. CASE Wrote(Packet, "confirm") /\ phase' = "setup"
  <2>1. /\ ReaderKeeps /\ Len(replies) + 1 \in DOMAIN replies'
        /\ replies'[Len(replies) + 1].kind = "confirm"
    BY <1>1, ReaderAnswers DEF Wrote, ReplyKinds, Phases
  <2>2. taken = 0 /\ taken' = 1 /\ stream'[1] = "connect"
    BY DEF IInv, PhaseMeaning, Take, Packet, Kind
  <2>3. PhaseMeaning' BY <1>1, <2>1, <2>2 DEF PhaseMeaning
  <2>4. QED BY <2>1, <2>3, ReaderDone
<1>2. CASE WriteError /\ phase' = "over"
  BY <1>2, ReaderQuiet, ReaderDone DEF WriteError, Phases, PhaseMeaning
<1>3. QED BY <1>1, <1>2 DEF WriteOrQuit

LEMMA DisconnectInv == ASSUME IInv, Disconnect PROVE IInv'
<1> USE DEF Disconnect
<1>1. CASE Wrote(Packet, "disconnect") /\ phase' = "over"
  <2>1. ReaderKeeps BY <1>1, ReaderAnswers DEF Wrote, ReplyKinds, Phases
  <2>2. QED BY <1>1, <2>1, ReaderDone DEF PhaseMeaning
<1>2. CASE WriteError /\ phase' = "over"
  BY <1>2, ReaderQuiet, ReaderDone DEF WriteError, Phases, PhaseMeaning
<1>3. QED BY <1>1, <1>2 DEF WriteOrQuit

LEMMA QuitInv == ASSUME IInv, Quit PROVE IInv'
BY ReaderQuiet, ReaderDone DEF Quit, Phases, PhaseMeaning

(* No Setup Communication came before a packet that is refused early.        *)
LEMMA StillSetup ==
  ASSUME IInv, phase = "setup", Kind # "setup", Take, Unread, phase' = phase, Grown
  PROVE  PhaseMeaning' /\ ~Negotiated(Packet)
<1>1. /\ taken \in Nat /\ taken >= 1 /\ stream[1] = "connect" /\ taken' = taken + 1
      /\ stream' = stream /\ \A q \in 2 .. taken : stream[q] # "setup"
  BY PhaseFacts DEF IInv, Inv, PhaseMeaning, Take, Packet
<1>2. PICK i \in DOMAIN replies : replies[i].kind = "confirm" BY DEF IInv, PhaseMeaning
<1>3. i \in DOMAIN replies' /\ replies'[i].kind = "confirm" BY <1>2 DEF Grown
<1>4. \A q \in 2 .. taken' : stream'[q] # "setup"
  BY <1>1 DEF Kind, Packet
<1>5. PhaseMeaning' BY <1>1, <1>3, <1>4 DEF PhaseMeaning
<1>6. ~Negotiated(Packet) BY <1>1 DEF Negotiated, Packet
<1>7. QED BY <1>5, <1>6

LEMMA RefuseEarlyInv == ASSUME IInv, RefuseEarly PROVE IInv'
<1> USE DEF RefuseEarly
<1>1. CASE Wrote(Packet, "unsupported")
  <2>1. ~Negotiated(Packet)
    BY PhaseFacts DEF IInv, Inv, PhaseMeaning, Negotiated, Packet, Kind
  <2>2. ReaderKeeps
    BY <1>1, <2>1, ReaderAnswers, PhaseFacts DEF Wrote, ReplyKinds, IInv, Inv
  <2>3. PhaseMeaning' BY <2>2, StillSetup DEF ReaderKeeps
  <2>4. QED BY <2>2, <2>3, ReaderDone
<1>2. CASE WriteError
  <2>1. ReaderKeeps BY <1>2, ReaderQuiet, PhaseFacts DEF WriteError, IInv, Inv
  <2>2. PhaseMeaning' BY <2>1, StillSetup DEF ReaderKeeps
  <2>3. QED BY <2>1, <2>2, ReaderDone
<1>3. QED BY <1>1, <1>2

LEMMA SkipEarlyInv == ASSUME IInv, SkipEarly PROVE IInv'
<1>1. ReaderKeeps BY ReaderQuiet, PhaseFacts DEF SkipEarly, IInv, Inv
<1>2. Kind # "setup" BY DEF SkipEarly, CotpOnly, Unsupported
<1>3. PhaseMeaning' BY <1>1, <1>2, StillSetup DEF ReaderKeeps, SkipEarly
<1>4. QED BY <1>1, <1>3, ReaderDone

(* The confirmation is among the answers when the setup is added to them.    *)
LEMMA SetupInv == ASSUME IInv, Setup PROVE IInv'
<1> USE DEF Setup
<1>1. CASE Wrote(Packet, "setup") /\ phase' = "data"
  <2> DEFINE n == Len(replies) + 1
  <2>1. ReaderKeeps /\ n \in DOMAIN replies' /\ replies'[n] = [to |-> Packet, kind |-> "setup"]
    BY <1>1, ReaderAnswers DEF Wrote, ReplyKinds, Phases
  <2>2. /\ taken \in Nat /\ taken >= 1 /\ stream[1] = "connect" /\ stream' = stream
        /\ taken' = taken + 1 /\ Packet = taken + 1 /\ stream[Packet] = "setup"
    BY PhaseFacts DEF IInv, Inv, PhaseMeaning, Take, Packet, Kind
  <2>3. PICK i \in DOMAIN replies : replies[i].kind = "confirm" BY DEF IInv, PhaseMeaning
  <2>4. i \in DOMAIN replies' /\ replies'[i].kind = "confirm" /\ i < n
    BY <2>1, <2>3 DEF ReaderKeeps, Grown, IInv, Inv, TypeOK
  <2>5. Packet \in 2 .. ((taken' + 1) - 1) /\ taken' + 1 > 1 /\ replies'[n].to < taken' + 1
    BY <2>1, <2>2
  <2>6. Negotiated(taken + 1)' BY <2>2, <2>5 DEF Negotiated
  <2>7. Ready(taken + 1)' BY <2>1, <2>4, <2>5, <2>6 DEF Ready
  <2>8. PhaseMeaning' BY <1>1, <2>7 DEF PhaseMeaning
  <2>9. QED BY <2>1, <2>8, ReaderDone
<1>2. CASE WriteError /\ phase' = "over"
  BY <1>2, ReaderQuiet, ReaderDone DEF WriteError, Phases, PhaseMeaning
<1>3. QED BY <1>1, <1>2 DEF WriteOrQuit

LEMMA StillData ==
  ASSUME IInv, phase = "data", Unread, Take, phase' = phase, Grown
  PROVE  PhaseMeaning'
<1>1. taken \in Nat /\ taken' = taken + 1 /\ taken <= Len(stream) /\ Len(stream) \in Nat
  BY DEF IInv, Inv, TypeOK, Take, Packet
<1>2. Ready(taken + 1) BY DEF IInv, PhaseMeaning
<1>3. PICK p \in Nat, q \in Nat :
        p = taken + 1 /\ q = taken' + 1 /\ p <= q /\ p <= Len(stream) + 1
  BY <1>1
<1>4. Ready(q)' BY <1>2, <1>3, ReadyLater DEF IInv, Inv
<1>5. QED BY <1>3, <1>4 DEF PhaseMeaning

LEMMA RefuseUnsupportedInv == ASSUME IInv, RefuseUnsupported PROVE IInv'
<1> USE DEF RefuseUnsupported
<1>1. CASE Wrote(Packet, "unsupported")
  <2>1. Kind \notin Supported BY DEF Unsupported, Fallback, Supported
  <2>2. ReaderKeeps
    BY <1>1, <2>1, ReaderAnswers, PhaseFacts DEF Wrote, ReplyKinds, IInv, Inv
  <2>3. QED BY <2>2, StillData, ReaderDone DEF ReaderKeeps
<1>2. CASE WriteError
  <2>1. ReaderKeeps BY <1>2, ReaderQuiet, PhaseFacts DEF WriteError, IInv, Inv
  <2>2. QED BY <2>1, StillData, ReaderDone DEF ReaderKeeps
<1>3. QED BY <1>1, <1>2

LEMMA SkipInv == ASSUME IInv, Skip PROVE IInv'
<1>1. ReaderKeeps BY ReaderQuiet, PhaseFacts DEF Skip, IInv, Inv
<1>2. QED BY <1>1, StillData, ReaderDone DEF ReaderKeeps, Skip

(* A handler starts behind a finished negotiation.                           *)
LEMMA DispatchInv == ASSUME IInv, Dispatch PROVE IInv'
<1> USE DEF Dispatch
<1>1. Grown /\ AnsweredOnce' /\ SupportedNotRefused' /\ ResultIsCarriedOut'
  BY NoAnswer DEF Take
<1>2. TypeOK' BY TakenIsNew DEF IInv, Inv, TypeOK, Take
<1>3. /\ taken \in Nat /\ taken' = taken + 1 /\ taken <= Len(stream) /\ Len(stream) \in Nat
      /\ Packet = taken + 1 /\ Packet <= Len(stream)
  BY TakenIsNew DEF IInv, Inv, TypeOK, Take, Packet
<1>4. Ready(Packet) BY <1>3 DEF IInv, PhaseMeaning
<1>5. HandlersFollow'
  <2>1. ASSUME NEW i \in DOMAIN replies'
        PROVE  replies'[i].to <= taken' /\ job'[replies'[i].to] \in {"none", "ended"}
    <3>1. replies[i].to <= taken /\ job[replies[i].to] \in {"none", "ended"}
      BY DEF IInv, HandlersFollow
    <3>2. replies[i].to \in Nat BY ReplyIsReply DEF IInv, Inv
    <3>3. replies[i].to # Packet BY <1>3, <3>1, <3>2
    <3>4. QED BY <1>3, <3>1, <3>2, <3>3 DEF IInv, Inv, TypeOK
  <2>2. ASSUME NEW p \in Packets, job'[p] # "none"
        PROVE  p <= taken' /\ Accepted(stream'[p]) /\ Ready(p)'
    <3>1. p <= Packet /\ Ready(p) /\ Accepted(stream[p])
      <4>1. CASE p = Packet BY <4>1, <1>3, <1>4 DEF Kind
      <4>2. CASE p # Packet BY <4>2, <2>2, <1>3 DEF IInv, Inv, TypeOK, HandlersFollow
      <4>3. QED BY <4>1, <4>2
    <3>2. p \in Nat /\ p <= p /\ p <= Len(stream) + 1 BY <3>1, <1>3
    <3>3. Ready(p)' BY <1>1, <3>1, <3>2, ReadyLater DEF IInv, Inv
    <3>4. QED BY <1>3, <3>1, <3>3 DEF Take
  <2>3. \A p \in Packets :
          /\ job'[p] = "carried" => p \in carried'
          /\ p \in carried' => job'[p] # "none"
    BY DEF IInv, Inv, TypeOK, HandlersFollow, Take
  <2>4. QED BY <2>1, <2>2, <2>3 DEF HandlersFollow
<1>6. PhaseMeaning' BY <1>1, StillData
<1>7. QED BY <1>1, <1>2, <1>5, <1>6, ReaderDone DEF ReaderKeeps

----------------------------------------------------------------------------
(* The handlers of packets.                                                  *)
LEMMA CarryInv == ASSUME IInv, NEW p \in Packets, Carry(p) PROVE IInv'
<1> USE DEF Carry
<1>1. Grown /\ AnsweredOnce' /\ SupportedNotRefused' /\ ResultIsCarriedOut'
  BY NoAnswer
<1>2. TypeOK' BY DEF IInv, Inv, TypeOK
<1>3. \A q \in Packets : q <= Len(stream) => (Ready(q) => Ready(q)')
  BY <1>1, ReadyLater, PhaseFacts DEF IInv, Inv
<1>4. HandlersFollow'
  <2>1. ASSUME NEW i \in DOMAIN replies'
        PROVE  replies'[i].to <= taken' /\ job'[replies'[i].to] \in {"none", "ended"}
    BY ReplyIsReply DEF IInv, Inv, TypeOK, HandlersFollow
  <2>2. ASSUME NEW q \in Packets, job'[q] # "none"
        PROVE  q <= taken' /\ Accepted(stream'[q]) /\ Ready(q)'
    <3>1. job[q] # "none" BY <2>2 DEF IInv, Inv, TypeOK
    <3>2. q <= taken /\ Accepted(stream[q]) /\ Ready(q) BY <3>1 DEF IInv, HandlersFollow
    <3>3. q <= Len(stream) BY <3>2 DEF IInv, Inv, TypeOK
    <3>4. QED BY <3>2, <3>3, <1>3
  <2>3. \A q \in Packets :
          /\ job'[q] = "carried" => q \in carried'
          /\ q \in carried' => job'[q] # "none"
    BY DEF IInv, Inv, TypeOK, HandlersFollow
  <2>4. QED BY <2>1, <2>2, <2>3 DEF HandlersFollow
<1>5. PhaseMeaning' BY DEF PhaseMeaning, Ready, Negotiated, IInv
<1>6. QED BY <1>1, <1>2, <1>4, <1>5, ReaderDone DEF ReaderKeeps

(* A handler that ends, with an answer or without, leaves what was ready so. *)
LEMMA EndedFollows ==
  ASSUME IInv, NEW p \in Packets, job[p] # "none", job' = [job EXCEPT ![p] = "ended"],
         UNCHANGED <<phase, stream, hung, taken, carried>>, Grown,
         DOMAIN replies' = DOMAIN replies
           \/ /\ DOMAIN replies' = DOMAIN replies \cup {Len(replies) + 1}
              /\ replies'[Len(replies) + 1].to = p
  PROVE  HandlersFollow' /\ PhaseMeaning'
<1>1. p <= taken /\ taken <= Len(stream) /\ taken \in Nat /\ Len(stream) \in Nat
  BY DEF IInv, Inv, TypeOK, HandlersFollow
<1>2. \A q \in Nat : q <= Len(stream) + 1 => (Ready(q) => Ready(q)')
  BY <1>1, ReadyLater DEF IInv, Inv
<1>3. ASSUME NEW i \in DOMAIN replies'
      PROVE  replies'[i].to <= taken' /\ job'[replies'[i].to] \in {"none", "ended"}
  <2>1. CASE i \in DOMAIN replies
    <3>1. replies'[i] = replies[i] BY <2>1 DEF Grown
    <3>2. replies[i].to <= taken /\ job[replies[i].to] \in {"none", "ended"}
      BY <2>1 DEF IInv, HandlersFollow
    <3>3. replies[i].to \in Packets BY <2>1, ReplyIsReply DEF IInv, Inv
    <3>4. QED BY <3>1, <3>2, <3>3 DEF IInv, Inv, TypeOK
  <2>2. CASE i \notin DOMAIN replies
    <3>1. replies'[i].to = p BY <2>2
    <3>2. QED BY <3>1, <1>1 DEF IInv, Inv, TypeOK
  <2>3. QED BY <2>1, <2>2
<1>4. ASSUME NEW q \in Packets, job'[q] # "none"
      PROVE  q <= taken' /\ Accepted(stream'[q]) /\ Ready(q)'
  <2>1. job[q] # "none" BY <1>4 DEF IInv, Inv, TypeOK
  <2>2. q <= taken /\ Accepted(stream[q]) /\ Ready(q) BY <2>1 DEF IInv, HandlersFollow
  <2>3. q \in Nat /\ q <= Len(stream) + 1 BY <2>2, <1>1
  <2>4. QED BY <2>2, <2>3, <1>2
<1>5. \A q \in Packets :
        /\ job'[q] = "carried" => q \in carried'
        /\ q \in carried' => job'[q] # "none"
  BY DEF IInv, Inv, TypeOK, HandlersFollow
<1>6. HandlersFollow' BY <1>3, <1>4, <1>5 DEF HandlersFollow
<1>7. phase = "data" => Ready(taken + 1)'
  <2>1. PICK q \in Nat : q = taken + 1 BY <1>1
  <2>2. q <= Len(stream) + 1 BY <2>1, <1>1
  <2>3. phase = "data" => Ready(q) BY <2>1 DEF IInv, PhaseMeaning
  <2>4. phase = "data" => Ready(q)' BY <1>2, <2>2, <2>3
  <2>5. QED BY <2>1, <2>4
<1>8. \A i \in DOMAIN replies : i \in DOMAIN replies' /\ replies'[i] = replies[i]
  BY DEF Grown
<1>9. PhaseMeaning' BY <1>7, <1>8 DEF PhaseMeaning, IInv
<1>10. QED BY <1>6, <1>9

LEMMA AnswerInv == ASSUME IInv, NEW p \in Packets, Answer(p) PROVE IInv'
<1> USE DEF Answer
<1>1. p <= taken /\ p <= Len(stream) /\ Accepted(stream[p]) /\ job[p] \notin {"none", "ended"}
  BY DEF IInv, Inv, TypeOK, HandlersFollow
<1>2. TypeOK /\ ~Answered(p)
  BY <1>1 DEF IInv, Inv, HandlersFollow, Answered
<1>3. CASE Respond(p)
  <2> DEFINE k == IF stream[p] = "userdata" THEN "unsupported" ELSE "result"
  <2>1. Put(p, k) /\ k \in ReplyKinds BY <1>3 DEF Respond, Wrote, ReplyKinds
  <2>2. k = "result" => p \in carried \/ stream[p] = "szl"
    BY <1>1 DEF IInv, HandlersFollow, CanAnswer, OnData, Accepted, IsRequest, Requests, Fallback
  <2>3. k = "unsupported" => stream[p] \notin Supported BY DEF Supported
  <2>4. /\ replies' \in Seq(Reply) /\ Grown
        /\ AnsweredOnce' /\ SupportedNotRefused' /\ ResultIsCarriedOut'
        /\ DOMAIN replies' = DOMAIN replies \cup {Len(replies) + 1}
        /\ replies'[Len(replies) + 1] = [to |-> p, kind |-> k]
    <3> HIDE DEF k
    <3>1. QED BY <1>1, <1>2, <2>1, <2>2, <2>3, OneAnswer
  <2>5. replies'[Len(replies) + 1].to = p BY <2>4
  <2>6. TypeOK' BY <2>4, <1>2 DEF TypeOK
  <2>7. HandlersFollow' /\ PhaseMeaning' BY <2>4, <2>5, <1>1, EndedFollows
  <2>8. QED BY <2>4, <2>6, <2>7, ReaderDone DEF ReaderKeeps
<1>4. CASE WriteError
  <2>1. Grown /\ AnsweredOnce' /\ SupportedNotRefused' /\ ResultIsCarriedOut'
    BY <1>4, NoAnswer DEF WriteError
  <2>2. TypeOK' BY <1>4, <1>2 DEF TypeOK, WriteError
  <2>3. HandlersFollow' /\ PhaseMeaning' BY <2>1, <1>4, <1>1, EndedFollows DEF WriteError
  <2>4. QED BY <2>1, <2>2, <2>3, ReaderDone DEF ReaderKeeps
<1>5. QED BY <1>3, <1>4

LEMMA IgnoreInv == ASSUME IInv, NEW p \in Packets, Ignore(p) PROVE IInv'
<1> USE DEF Ignore
<1>1. Grown /\ AnsweredOnce' /\ SupportedNotRefused' /\ ResultIsCarriedOut' BY NoAnswer
<1>2. TypeOK' BY DEF IInv, Inv, TypeOK
<1>3. HandlersFollow' /\ PhaseMeaning' BY <1>1, EndedFollows
<1>4. QED BY <1>1, <1>2, <1>3, ReaderDone DEF ReaderKeeps

(* The client, and a reader that finds it gone, touch none of this.          *)
LEMMA OutsideInv ==
  ASSUME IInv,
         (\E k \in Sent : Send(k)) \/ HangUp \/ ReadError \/ UNCHANGED vars
  PROVE  IInv'
<1>1. /\ UNCHANGED <<taken, job, carried, replies>>
      /\ stream' = stream \/ (phase' = phase /\ \E k \in Sent : stream' = Append(stream, k))
      /\ phase' \in {phase, "over"}
  BY DEF Send, HangUp, ReadError, vars
<1>2. Grown /\ AnsweredOnce' /\ SupportedNotRefused' /\ ResultIsCarriedOut'
  BY <1>1, NoAnswer
<1>3. TypeOK'
  <2>1. stream' \in Seq(Kinds) /\ Len(stream') <= MaxPackets
    BY DEF Send, HangUp, ReadError, vars, IInv, Inv, TypeOK
  <2>2. Len(stream) <= Len(stream') /\ Len(stream) \in Nat /\ Len(stream') \in Nat
    BY <1>2, <2>1 DEF Grown, IInv, Inv, TypeOK
  <2>3. hung' \in BOOLEAN BY DEF Send, HangUp, ReadError, vars, IInv, Inv, TypeOK
  <2>4. taken' \in 0 .. Len(stream') BY <1>1, <2>2 DEF IInv, Inv, TypeOK
  <2>5. QED BY <1>1, <2>1, <2>3, <2>4 DEF IInv, Inv, TypeOK
<1>4. taken \in Nat /\ taken <= Len(stream) /\ Len(stream) \in Nat
  BY DEF IInv, Inv, TypeOK
<1>5. \A q \in Nat : q <= Len(stream) + 1 => (Ready(q) => Ready(q)')
  BY <1>2, ReadyLater DEF IInv, Inv
<1>6. \A q \in 1 .. taken : stream'[q] = stream[q]
  BY <1>2, <1>4 DEF Grown
<1>7. HandlersFollow'
  <2>1. ASSUME NEW p \in Packets, job[p] # "none"
        PROVE  p <= taken /\ Accepted(stream'[p]) /\ Ready(p)'
    <3>1. p <= taken /\ Accepted(stream[p]) /\ Ready(p) BY <2>1 DEF IInv, HandlersFollow
    <3>2. p \in Nat /\ p <= Len(stream) + 1 /\ p \in 1 .. taken BY <3>1, <1>4
    <3>3. QED BY <3>1, <3>2, <1>5, <1>6
  <2>2. QED BY <1>1, <2>1 DEF IInv, HandlersFollow
<1>8. PhaseMeaning'
  <2>1. phase' = "data" => Ready(taken + 1)'
    <3>1. PICK q \in Nat : q = taken + 1 BY <1>4
    <3>2. phase' = "data" => Ready(q) /\ q <= Len(stream) + 1
      BY <3>1, <1>1, <1>4 DEF IInv, PhaseMeaning
    <3>3. phase' = "data" => Ready(q)' BY <3>2, <1>5
    <3>4. QED BY <3>1, <3>3, <1>1
  <2>2. phase' = "setup" => stream'[1] = "connect" /\ \A q \in 2 .. taken : stream'[q] # "setup"
    BY <1>1, <1>4, <1>6 DEF IInv, PhaseMeaning
  <2>3. QED BY <1>1, <2>1, <2>2 DEF IInv, PhaseMeaning
<1>9. QED BY <1>2, <1>3, <1>7, <1>8, ReaderDone DEF ReaderKeeps

----------------------------------------------------------------------------
LEMMA Inductive == Spec => []IInv
<1>1. IInv /\ [Next]_vars => IInv'
  BY ConfirmInv, DisconnectInv, QuitInv, RefuseEarlyInv, SkipEarlyInv, SetupInv,
     RefuseUnsupportedInv, SkipInv, DispatchInv, CarryInv, AnswerInv, IgnoreInv, OutsideInv
  DEF Next, Reader, Handler
<1>2. QED BY InitInv, <1>1, PTL DEF Spec

(* Nothing touches a data block before the negotiation is answered, no       *)
(* packet is answered twice, no supported request of a negotiated client is  *)
(* refused, and results are of requests that were carried out, however many  *)
(* packets are on their way (server.go:152).                                 *)
THEOREM ConnectionInvariant == Spec => []Inv
<1>1. IInv => Inv BY DEF IInv
<1>2. QED BY Inductive, <1>1, PTL

(* A result is of a request that was carried out (events.go:9).              *)
THEOREM ResultsCarriedOut == Spec => []ResultIsCarriedOut
<1>1. IInv => ResultIsCarriedOut BY DEF IInv, Inv
<1>2. QED BY Inductive, <1>1, PTL
=============================================================================
