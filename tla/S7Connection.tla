---------------------------- MODULE S7Connection -----------------------------
(***************************************************************************)
(* One client connection of the server: StartReader of server.go with the  *)
(* handler goroutines it starts (DoMsgHandler).                            *)
(*                                                                         *)
(* The client's packets are a FIFO stream (TCP); a packet is its number in *)
(* the stream and what unpack and unpackWriteVarPacket make of it.  What a *)
(* handler does to the data blocks is one step here, Carry; DbFile has its *)
(* parts.  The server sets no read deadline, so the `continue` on a        *)
(* timeout has no counterpart; the client's host vanishing is HangUp.      *)
(***************************************************************************)
EXTENDS Integers, Sequences

CONSTANTS
  Sent,        \* the kinds of packets the client may send
  MaxPackets   \* bound: the packets it sends

(* What unpack returns: a message without a request (COTP only), with one,  *)
(* ErrorFunctionCodeNotSupported, or another error.  "other" is a function  *)
(* unknown to both unpacks, or a WriteVar that does not parse; "frame" a    *)
(* TPKT header readConn rejects.                                           *)
CotpOnly == {"connect", "empty"}
Requests == {"setup", "read", "szl", "userdata"}
Unsupported == {"write", "other"}
Kinds == CotpOnly \cup Requests \cup Unsupported \cup {"malformed", "frame"}

ASSUME SentAssumption == Sent \subseteq Kinds
ASSUME MaxAssumption == MaxPackets \in Nat

VARIABLES
  phase,    \* what the reader waits for: "connect", "setup", "data"; or "over"
  stream,   \* the packets the client has sent
  hung,     \* the client has closed its end
  taken,    \* packets of the stream the reader has consumed
  job,      \* the handler goroutine of each packet
  carried,  \* the packets whose ReadVar or WriteVar was carried out
  replies   \* what the server wrote to the socket: [to: packet, kind]

vars == <<phase, stream, hung, taken, job, carried, replies>>

Packets == 1 .. MaxPackets

Init ==
  /\ phase = "connect"
  /\ stream = <<>>
  /\ hung = FALSE
  /\ taken = 0
  /\ job = [p \in Packets |-> "none"]
  /\ carried = {}
  /\ replies = <<>>

(* Mutated forms of the definitions below, named for the slip each makes.   *)
AfterConfirmData == "data"
FallbackForgotten(k) == FALSE
UserDataNotUnpacked(k) == k \in {"setup", "read"}
AnswerBeforeWork(p) == job[p] = "started"
RefusalWithoutReturn(p) ==
  /\ phase # "over"
  /\ LET r == [to |-> p, kind |-> IF stream[p] = "userdata" THEN "unsupported" ELSE "result"]
     IN  replies' = replies \o (IF stream[p] = "userdata" THEN << r, r >> ELSE << r >>)

-----------------------------------------------------------------------------
(* The client *)

Send(k) ==
  /\ ~hung /\ phase # "over" /\ Len(stream) < MaxPackets
  /\ stream' = Append(stream, k)
  /\ UNCHANGED <<phase, hung, taken, job, carried, replies>>

HangUp ==
  /\ ~hung
  /\ hung' = TRUE
  /\ UNCHANGED <<phase, stream, taken, job, carried, replies>>

-----------------------------------------------------------------------------
(* conn.Write succeeds unless this end is closed or the other is gone. *)

Put(p, k) == replies' = Append(replies, [to |-> p, kind |-> k])
Wrote(p, k) == phase # "over" /\ Put(p, k)
WriteError == (hung \/ phase = "over") /\ UNCHANGED replies

(* The reader *)

Unread == phase # "over" /\ taken < Len(stream)
Packet == taken + 1
Kind == stream[Packet]
Take == taken' = Packet /\ UNCHANGED <<stream, hung, carried>>

(* A write of the reader whose error ends the connection. *)
WriteOrQuit(k, next) ==
  \/ Wrote(Packet, k) /\ phase' = next
  \/ WriteError /\ phase' = "over"

AfterConfirm == "setup"

Confirm ==
  /\ Unread /\ phase = "connect" /\ Kind = "connect"
  /\ Take
  /\ WriteOrQuit("confirm", AfterConfirm)
  /\ UNCHANGED job

(* A first packet that unpacks and is no Connection Request. *)
Disconnect ==
  /\ Unread /\ phase = "connect" /\ Kind \in Requests \cup {"empty"}
  /\ Take
  /\ WriteOrQuit("disconnect", "over")
  /\ UNCHANGED job

(* A first packet that unpack rejects, or a framing error at any time. *)
Quit ==
  /\ Unread
  /\ \/ phase = "connect" /\ Kind \in Unsupported \cup {"malformed"}
     \/ Kind = "frame"
  /\ Take
  /\ phase' = "over"
  /\ UNCHANGED <<job, replies>>

(* Before Setup Communication a request is refused, ... *)
RefuseEarly ==
  /\ Unread /\ phase = "setup" /\ Kind \in Requests \ {"setup"}
  /\ Take
  /\ Wrote(Packet, "unsupported") \/ WriteError
  /\ UNCHANGED <<phase, job>>

(* ... and a packet without a request, or one unpack rejects, is skipped. *)
SkipEarly ==
  /\ Unread /\ phase = "setup" /\ Kind \in CotpOnly \cup Unsupported \cup {"malformed"}
  /\ Take
  /\ UNCHANGED <<phase, job, replies>>

Setup ==
  /\ Unread /\ phase = "setup" /\ Kind = "setup"
  /\ Take
  /\ WriteOrQuit("setup", "data")
  /\ UNCHANGED job

(* unpack knows no WriteVar: unpackWriteVarPacket is tried on the packets   *)
(* it calls unsupported.                                                   *)
Fallback(k) == k = "write"
IsRequest(k) == k \in Requests
Accepted(k) == IsRequest(k) \/ Fallback(k)

Dispatch ==
  /\ Unread /\ phase = "data" /\ Accepted(Kind)
  /\ Take
  /\ job' = [job EXCEPT ![Packet] = "started"]
  /\ UNCHANGED <<phase, replies>>

RefuseUnsupported ==
  /\ Unread /\ phase = "data" /\ Kind \in Unsupported /\ ~Fallback(Kind)
  /\ Take
  /\ Wrote(Packet, "unsupported") \/ WriteError
  /\ UNCHANGED <<phase, job>>

Skip ==
  /\ Unread /\ phase = "data"
  /\ Kind \notin Unsupported \cup {"frame"} /\ ~Accepted(Kind)
  /\ Take
  /\ UNCHANGED <<phase, job, replies>>

(* readConn fails once the client is gone, whether or not everything it     *)
(* sent has been read (end of file, or a reset).                           *)
ReadError ==
  /\ hung /\ phase # "over"
  /\ phase' = "over"
  /\ UNCHANGED <<stream, hung, taken, job, carried, replies>>

Reader ==
  \/ Confirm \/ Disconnect \/ Quit
  \/ RefuseEarly \/ SkipEarly \/ Setup
  \/ Dispatch \/ RefuseUnsupported \/ Skip
  \/ ReadError

-----------------------------------------------------------------------------
(* The handlers: they run on when the connection is over. *)

OnData(p) == stream[p] \in {"read", "write"}

(* The ReadVar or WriteVar on the data blocks. *)
Carry(p) ==
  /\ job[p] = "started" /\ OnData(p)
  /\ job' = [job EXCEPT ![p] = "carried"]
  /\ carried' = carried \cup {p}
  /\ UNCHANGED <<phase, stream, hung, taken, replies>>

(* A handler of a data request answers when it has carried it out. *)
CanAnswer(p) == job[p] = (IF OnData(p) THEN "carried" ELSE "started")

(* eventS7FuncUserData refuses what is no known SZL request. *)
Respond(p) == Wrote(p, IF stream[p] = "userdata" THEN "unsupported" ELSE "result")

Answer(p) ==
  /\ job[p] \in {"started", "carried"} /\ CanAnswer(p) /\ stream[p] # "setup"
  /\ job' = [job EXCEPT ![p] = "ended"]
  /\ Respond(p) \/ WriteError
  /\ UNCHANGED <<phase, stream, hung, taken, carried>>

(* DoMsgHandler has no case for a second Setup Communication. *)
Ignore(p) ==
  /\ job[p] = "started" /\ stream[p] = "setup"
  /\ job' = [job EXCEPT ![p] = "ended"]
  /\ UNCHANGED <<phase, stream, hung, taken, carried, replies>>

Handler(p) == Carry(p) \/ Answer(p) \/ Ignore(p)

Next ==
  \/ \E k \in Sent : Send(k)
  \/ HangUp
  \/ Reader
  \/ \E p \in Packets : Handler(p)

Spec == Init /\ [][Next]_vars

(* The reader's and the handlers' goroutines run on; the client need not. *)
FairSpec == Spec /\ WF_vars(Reader) /\ \A p \in Packets : WF_vars(Handler(p))
-----------------------------------------------------------------------------
ReplyKinds == {"confirm", "disconnect", "setup", "unsupported", "result"}
Reply == [to : Packets, kind : ReplyKinds]

TypeOK ==
  /\ phase \in {"connect", "setup", "data", "over"}
  /\ stream \in Seq(Kinds) /\ Len(stream) <= MaxPackets
  /\ hung \in BOOLEAN
  /\ taken \in 0 .. Len(stream)
  /\ job \in [Packets -> {"none", "started", "carried", "ended"}]
  /\ carried \subseteq Packets
  /\ replies \in Seq(Reply)

(* No packet is answered twice, although the reader and any number of      *)
(* handlers write to the socket: an answer is the reader's or one handler's. *)
AnsweredOnce ==
  \A i, j \in DOMAIN replies : replies[i].to = replies[j].to => i = j

Negotiated(p) ==
  /\ p > 1 /\ stream[1] = "connect"
  /\ \E q \in 2 .. (p - 1) : stream[q] = "setup"

(* The data blocks are not touched for a packet unless a Connection Request *)
(* and after it a Setup Communication came before, both answered.          *)
NothingBeforeSetup ==
  \A p \in carried :
    /\ Negotiated(p)
    /\ \E i, j \in DOMAIN replies :
         i < j /\ replies[i].kind = "confirm" /\ replies[j].kind = "setup"
         /\ replies[j].to < p

Supported == {"read", "write", "szl"}

(* A ReadVar, WriteVar or known SZL request that follows the negotiation is *)
(* not refused: the error unpack returns for a WriteVar does not reach the *)
(* client.                                                                 *)
SupportedNotRefused ==
  \A i \in DOMAIN replies :
    LET p == replies[i].to
    IN  stream[p] \in Supported /\ replies[i].kind = "unsupported" => ~Negotiated(p)

(* A result means the request was carried out, and only data requests and   *)
(* known SZL requests get one.                                             *)
ResultIsCarriedOut ==
  \A i \in DOMAIN replies :
    LET p == replies[i].to
    IN  replies[i].kind = "result" => p \in carried \/ stream[p] = "szl"

(* The variables have their types; AnsweredOnce, NothingBeforeSetup,         *)
(* SupportedNotRefused and ResultIsCarriedOut.                              *)
Inv == TypeOK /\ AnsweredOnce /\ NothingBeforeSetup /\ SupportedNotRefused /\ ResultIsCarriedOut

Answered(p) == \E i \in DOMAIN replies : replies[i].to = p

(* Every request sent after the negotiation is answered, a second Setup     *)
(* Communication excepted, unless the client hangs up or the connection is  *)
(* ended.                                                                  *)
RequestsAnswered ==
  \A p \in Packets :
    p <= Len(stream) /\ Negotiated(p)
      /\ stream[p] \in Supported \cup {"userdata", "other"}
      ~> Answered(p) \/ hung \/ phase = "over"
=============================================================================
