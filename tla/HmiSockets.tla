------------------------------ MODULE HmiSockets ------------------------------
(***************************************************************************)
(* `s7db serve`: the life of a WebSocket client and of its `set` requests. *)
(* handleWS puts the client into the hub; its reader puts requests into    *)
(* one bounded channel for all clients; coalesceWSWrites takes them,       *)
(* writes BOOL, STRING and raw values at once, collects the others by tag, *)
(* and every tick writes the last of each tag and answers all of them.     *)
(* When the peer is gone, the reader removes the client from the hub and   *)
(* closes its channel; a send to a closed channel panics, which ends the   *)
(* process.  (internal/server/ws.go)                                       *)
(*                                                                         *)
(* A request is <<client, n>>, its client's n-th.  The value it carries is *)
(* the request itself, so `plc` says whose value a tag has.                *)
(***************************************************************************)
EXTENDS Naturals, Sequences

CONSTANTS
  Clients, Tags,
  Unknown,     \* names that no tag has
  Analog,      \* tags of the types isCoalescedAnalogType names
  CanWrite,    \* clients with a valid token, of a server not --read-only
  ReadOnly,
  Slow,        \* clients whose channel may be full
  QueueSize,   \* capacity of setReqCh
  MaxSets(_)   \* bound: requests of a client

NoRequest == <<>>

ASSUME SetsAssumption ==
  Analog \subseteq Tags /\ CanWrite \subseteq Clients /\ Tags \cap Unknown = {}
ASSUME SizesAssumption ==
  /\ QueueSize \in Nat \ {0} /\ ReadOnly \in BOOLEAN
  /\ \A c \in Clients : MaxSets(c) \in Nat

VARIABLES
  reader,    \* of a client: "none", "read", "leaving", "gone"
  hub,       \* wsHub.clients
  chan,      \* wsClient.send: "none", "open", "closed"
  telling,   \* clients a broadcast in progress has yet to send to
  asked,     \* the tag and kind of every request a client made
  queue,     \* setReqCh
  pending,   \* requests collected by tag
  at,        \* coalesceWSWrites: "select", "flush", "ack", "stopped"
  back,      \* where it goes on after the acks
  toAck, result,   \* the requests to answer, and the answer
  plc,       \* whose value a tag has
  crashed,
  acks, taken, written   \* history: answers sent, requests in the order taken, written ones

clientVars == <<reader, hub, chan, telling>>
loopVars == <<pending, at, back, toAck, result, taken>>
vars == <<clientVars, asked, queue, loopVars, plc, crashed, acks, written>>

Requests == UNION {{c} \X (1 .. MaxSets(c)) : c \in Clients}
Of(r) == asked[r[1]][r[2]]

(* Not raw, and of a type isCoalescedAnalogType names. *)
Collected(r) == Of(r).tag \in Analog /\ ~Of(r).raw

Init ==
  /\ reader = [c \in Clients |-> "none"]
  /\ hub = {}
  /\ chan = [c \in Clients |-> "none"]
  /\ telling = {}
  /\ asked = [c \in Clients |-> <<>>]
  /\ queue = <<>>
  /\ pending = [t \in Analog |-> <<>>]
  /\ at = "select" /\ back = "select"
  /\ toAck = <<>> /\ result = "ok"
  /\ plc = [t \in Tags |-> NoRequest]
  /\ crashed = FALSE
  /\ acks = [r \in Requests |-> <<>>]
  /\ taken = <<>>
  /\ written = {}

(* Mutated forms of definitions below, named for the slip each makes.        *)
RemovedUnlocked(c) ==
  /\ reader[c] = "read"
  /\ reader' = [reader EXCEPT ![c] = "leaving"]
  /\ hub' = hub \ {c}
  /\ UNCHANGED <<chan, telling, asked, queue, loopVars, plc, crashed, acks, written>>
FirstOfBucket(reqs) == reqs[1]
BucketKept(t) == pending
EnqueuedFirst(r) == <<r>> \o queue
AckOfLastOnly ==
  /\ at = "ack"
  /\ toAck' = <<>>
  /\ at' = back
  /\ acks' = [acks EXCEPT ![toAck[Len(toAck)]] = Append(@, result)]
  /\ UNCHANGED <<clientVars, asked, queue, pending, back, result, taken, plc, crashed, written>>

-----------------------------------------------------------------------------
(* A client *)

(* handleWS.  The hub's lock keeps it, and ReadError, out of a broadcast.     *)
Connect(c) ==
  /\ reader[c] = "none" /\ telling = {}
  /\ reader' = [reader EXCEPT ![c] = "read"]
  /\ hub' = hub \cup {c}
  /\ chan' = [chan EXCEPT ![c] = "open"]
  /\ UNCHANGED <<telling, asked, queue, loopVars, plc, crashed, acks, written>>

(* The peer is gone: the reader's deferred function begins. *)
ReadError(c) ==
  /\ reader[c] = "read" /\ telling = {}
  /\ reader' = [reader EXCEPT ![c] = "leaving"]
  /\ hub' = hub \ {c}
  /\ UNCHANGED <<chan, telling, asked, queue, loopVars, plc, crashed, acks, written>>

CloseSend(c) ==
  /\ reader[c] = "leaving"
  /\ reader' = [reader EXCEPT ![c] = "gone"]
  /\ chan' = [chan EXCEPT ![c] = "closed"]
  /\ UNCHANGED <<hub, telling, asked, queue, loopVars, plc, crashed, acks, written>>

(* sendJSON of an ack: dropped by a full channel, a panic on a closed one.  *)
SendAck(r, how) ==
  IF chan[r[1]] = "closed"
  THEN crashed' = TRUE /\ UNCHANGED acks
  ELSE /\ \E h \in {how} \cup (IF r[1] \in Slow THEN {"lost"} ELSE {}) :
            acks' = [acks EXCEPT ![r] = Append(@, h)]
       /\ UNCHANGED crashed

HasRoom == Len(queue) < QueueSize
Enqueued(r) == Append(queue, r)

(* The reader reads a `set`. *)
ReadSet(c, t, raw) ==
  LET r == <<c, Len(asked[c]) + 1>> IN
  /\ reader[c] = "read" /\ Len(asked[c]) < MaxSets(c)
  /\ asked' = [asked EXCEPT ![c] = Append(@, [tag |-> t, raw |-> raw])]
  /\ \/ /\ HasRoom
        /\ queue' = Enqueued(r)
        /\ UNCHANGED <<crashed, acks>>
     \/ /\ ~HasRoom
        /\ SendAck(r, "busy")
        /\ UNCHANGED queue
  /\ UNCHANGED <<clientVars, loopVars, plc, written>>

(* An update or heartbeat state goes to the clients of the hub, one by one.  *)
Broadcast ==
  /\ telling = {} /\ hub # {}
  /\ telling' = hub
  /\ UNCHANGED <<reader, hub, chan, asked, queue, loopVars, plc, crashed, acks, written>>

BroadcastTo(c) ==
  /\ c \in telling
  /\ telling' = telling \ {c}
  /\ crashed' = (chan[c] = "closed")
  /\ UNCHANGED <<reader, hub, chan, asked, queue, loopVars, plc, acks, written>>

-----------------------------------------------------------------------------
(* coalesceWSWrites *)

(* applyWrite: the value is in the PLC, or an error came back, be it after   *)
(* the write took effect.                                                   *)
Apply(r) ==
  \/ /\ result' = "ok"
     /\ plc' = [plc EXCEPT ![Of(r).tag] = r]
     /\ written' = written \cup {r}
  \/ /\ result' = "err"
     /\ \/ plc' = [plc EXCEPT ![Of(r).tag] = r]
        \/ UNCHANGED plc
     /\ UNCHANGED written

Admitted(r) == ~ReadOnly /\ r[1] \in CanWrite /\ Of(r).tag \in Tags

TakeHead ==
  /\ at = "select" /\ queue # <<>>
  /\ queue' = Tail(queue)
  /\ taken' = Append(taken, Head(queue))

Refuse ==
  /\ TakeHead
  /\ ~Admitted(Head(queue))
  /\ at' = "ack" /\ back' = "select"
  /\ toAck' = <<Head(queue)>> /\ result' = "err"
  /\ UNCHANGED <<clientVars, asked, pending, plc, crashed, acks, written>>

WriteAtOnce ==
  /\ TakeHead
  /\ Admitted(Head(queue)) /\ ~Collected(Head(queue))
  /\ Apply(Head(queue))
  /\ at' = "ack" /\ back' = "select"
  /\ toAck' = <<Head(queue)>>
  /\ UNCHANGED <<clientVars, asked, pending, crashed, acks>>

Collect ==
  /\ TakeHead
  /\ Admitted(Head(queue)) /\ Collected(Head(queue))
  /\ pending' = [pending EXCEPT ![Of(Head(queue)).tag] = Append(@, Head(queue))]
  /\ UNCHANGED <<clientVars, asked, at, back, toAck, result, plc, crashed, acks, written>>

Tick ==
  /\ at = "select" /\ \E t \in Analog : pending[t] # <<>>
  /\ at' = "flush"
  /\ UNCHANGED <<clientVars, asked, queue, pending, back, toAck, result, taken, plc, crashed,
                 acks, written>>

(* bucket.last *)
Written(reqs) == reqs[Len(reqs)]

Emptied(t) == [pending EXCEPT ![t] = <<>>]

FlushTag(t) ==
  /\ at = "flush" /\ pending[t] # <<>>
  /\ pending' = Emptied(t)
  /\ Apply(Written(pending[t]))
  /\ at' = "ack" /\ back' = "flush"
  /\ toAck' = pending[t]
  /\ UNCHANGED <<clientVars, asked, queue, taken, crashed, acks>>

Flushed ==
  /\ at = "flush" /\ \A t \in Analog : pending[t] = <<>>
  /\ at' = "select"
  /\ UNCHANGED <<clientVars, asked, queue, pending, back, toAck, result, taken, plc, crashed,
                 acks, written>>

Ack ==
  /\ at = "ack"
  /\ SendAck(Head(toAck), result)
  /\ toAck' = Tail(toAck)
  /\ at' = IF Len(toAck) = 1 THEN back ELSE "ack"
  /\ UNCHANGED <<clientVars, asked, queue, pending, back, result, taken, plc, written>>

(* ctx.Done: what is pending is neither written nor answered. *)
Stop ==
  /\ at = "select"
  /\ at' = "stopped"
  /\ UNCHANGED <<clientVars, asked, queue, pending, back, toAck, result, taken, plc, crashed,
                 acks, written>>

Coalesce ==
  \/ Refuse \/ WriteAtOnce \/ Collect
  \/ Tick \/ (\E t \in Analog : FlushTag(t)) \/ Flushed
  \/ Ack

-----------------------------------------------------------------------------
Next ==
  /\ ~crashed
  /\ \/ \E c \in Clients :
          \/ Connect(c) \/ ReadError(c) \/ CloseSend(c) \/ BroadcastTo(c)
          \/ \E t \in Tags \cup Unknown, raw \in BOOLEAN : ReadSet(c, t, raw)
     \/ Broadcast
     \/ Coalesce \/ Stop

Spec == Init /\ [][Next]_vars

(* The goroutine of coalesceWSWrites runs on. *)
FairSpec == Spec /\ WF_vars(~crashed /\ Coalesce)
-----------------------------------------------------------------------------
TypeOK ==
  /\ reader \in [Clients -> {"none", "read", "leaving", "gone"}]
  /\ hub \subseteq Clients
  /\ chan \in [Clients -> {"none", "open", "closed"}]
  /\ telling \subseteq Clients
  /\ \A c \in Clients : Len(asked[c]) <= MaxSets(c)
  /\ queue \in Seq(Requests) /\ Len(queue) <= QueueSize
  /\ pending \in [Analog -> Seq(Requests)]
  /\ at \in {"select", "flush", "ack", "stopped"}
  /\ back \in {"select", "flush"}
  /\ toAck \in Seq(Requests) /\ (at = "ack" => toAck # <<>>)
  /\ result \in {"ok", "err"}
  /\ plc \in [Tags -> Requests \cup {NoRequest}]
  /\ crashed \in BOOLEAN
  /\ acks \in [Requests -> Seq({"ok", "err", "busy", "lost"})]
  /\ taken \in Seq(Requests)
  /\ written \subseteq Requests

(* A broadcast never finds a closed channel: a client is out of the hub, and *)
(* out of every broadcast in progress, before its reader closes the channel. *)
HubIsOpen == \A c \in hub \cup telling : chan[c] = "open"

(* A request is answered at most once, also one of many of its bucket.      *)
AnsweredOnce == \A r \in Requests : Len(acks[r]) <= 1

(* The variables have their types (no queue is longer than its channel);     *)
(* HubIsOpen and AnsweredOnce.                                              *)
Inv == TypeOK /\ HubIsOpen /\ AnsweredOnce

(* A request answered `ok` was written, or a request for the same tag that   *)
(* was taken later was: coalescing never answers for a value it dropped in  *)
(* favour of an older one.                                                  *)
OkIsWritten ==
  \A i \in 1 .. Len(taken) :
    acks[taken[i]] = <<"ok">> =>
      \E j \in i .. Len(taken) : taken[j] \in written /\ Of(taken[j]).tag = Of(taken[i]).tag

(* A value does not give way to an older one of the same kind, collected or *)
(* written at once, by the same client.                                     *)
NotOverwrittenByOlder ==
  [][\A t \in Tags :
       LET old == plc[t]  new == plc'[t] IN
       old # NoRequest /\ new # old /\ old[1] = new[1] /\ (Collected(old) <=> Collected(new))
         => new[2] > old[2]]_vars

(* Every request read is answered while its client is there, the server is  *)
(* not being stopped and has not crashed.                                   *)
SetsAnswered ==
  \A r \in Requests :
    r[2] <= Len(asked[r[1]]) ~>
      acks[r] # <<>> \/ reader[r[1]] \in {"leaving", "gone"} \/ at = "stopped" \/ crashed
=============================================================================
