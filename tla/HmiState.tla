------------------------------- MODULE HmiState -------------------------------
(***************************************************************************)
(* `s7db serve`: what the viewers of the HMI see of the PLC.  pollLoop      *)
(* reads every tag, keeps it in the server's state and tells the viewers   *)
(* what changed once the poll is through; applyWrite, run by a PUT or by a *)
(* `set` of a viewer, writes a tag, keeps it and tells the viewers; the    *)
(* reader of a viewer answers `sub` with a snapshot of the state.          *)
(* (internal/server/server.go, ws.go)                                      *)
(*                                                                         *)
(* ioMu makes a call to the PLC, and the read and write of one applyWrite, *)
(* one step; stateMu each access to the state; no lock is held from one of *)
(* them to the next.  A viewer's channel is a queue that its writer        *)
(* empties in order, so the last message put into it is what the viewer    *)
(* ends up showing: `shown` is that.  Tags have bytes of their own here;   *)
(* SimLoop and DbFile have the tags that share one.                        *)
(***************************************************************************)
EXTENDS Naturals, Sequences

CONSTANTS
  TagSeq,      \* the schema's tags, in its order
  Values,      \* of a tag
  NoValue,     \* a tag the state does not have yet
  Viewers,     \* WebSocket clients
  Early,       \* viewers whose `sub` was answered before the first poll
  Slow,        \* viewers whose channel may be full
  Pages,       \* the sets of tags that viewers subscribe to later
  Puts,        \* calls of applyWrite
  MaxChanges,  \* bound: changes of tags by the PLC's program
  MaxFails     \* bound: failing calls to the PLC

Tags == {TagSeq[i] : i \in 1 .. Len(TagSeq)}

ASSUME TagsAssumption ==
  /\ TagSeq \in Seq(Tags)
  /\ \A i, j \in 1 .. Len(TagSeq) : TagSeq[i] = TagSeq[j] => i = j
ASSUME ValuesAssumption == NoValue \notin Values
ASSUME WritesAssumption == Puts # {} => Len(TagSeq) > 0   \* a write names a tag
ASSUME ViewersAssumption ==
  Early \subseteq Viewers /\ Slow \subseteq Viewers /\ Pages \subseteq SUBSET Tags
ASSUME BoundsAssumption == MaxChanges \in Nat /\ MaxFails \in Nat

VARIABLES
  plc,      \* the tags in the PLC
  state,    \* Server.state
  up,       \* Server.lastPLCUp
  poll,     \* pollOnce: where it is, its tag, the value read, `updates`
  put,      \* every call of applyWrite
  sub,      \* the tags a viewer is subscribed to
  reader,   \* a viewer's reader: the tags and values of its snapshot
  shown,    \* what the last message to a viewer said of a tag
  changed, failed,   \* changes and failing calls so far
  held      \* history: the values a tag has had in the PLC

vars == <<plc, state, up, poll, put, sub, reader, shown, changed, failed, held>>

None == [t \in Tags |-> NoValue]

Idle(at) == [at |-> at, next |-> 1, raw |-> NoValue, updates |-> <<>>,
             good |-> FALSE, bad |-> FALSE, to |-> Viewers]

Update(t, x) == [tag |-> t, value |-> x]

Init ==
  /\ plc \in [Tags -> Values]
  /\ state = None
  /\ up = TRUE
  /\ poll = Idle("read")
  /\ put = [w \in Puts |-> [at |-> "start", tag |-> TagSeq[1], raw |-> NoValue, to |-> {}]]
  /\ sub = [v \in Viewers |-> IF v \in Early THEN Tags ELSE {}]
  /\ reader = [v \in Viewers |-> [left |-> {}, snap |-> <<>>, at |-> "read"]]
  /\ shown = [v \in Viewers |-> None]
  /\ changed = 0
  /\ failed = 0
  /\ held = [t \in Tags |-> {plc[t]}]

(* Mutated forms of definitions below, named for the slip each makes.        *)
IsNew(t, x) == state[t] = NoValue
KeepKnown ==
  /\ poll.at = "store"
  /\ state' = [state EXCEPT ![TagSeq[poll.next]] = IF @ = NoValue THEN poll.raw ELSE @]
  /\ poll' = [poll EXCEPT !.at = "read", !.next = @ + 1, !.raw = NoValue]
  /\ UNCHANGED <<plc, up, put, sub, reader, shown, changed, failed, held>>
ErrorIgnored(w, t, x) ==
  /\ put[w].at = "start"
  /\ failed < MaxFails /\ failed' = failed + 1
  /\ put' = [put EXCEPT ![w] = [at |-> "store", tag |-> t, raw |-> x, to |-> Viewers]]
  /\ UNCHANGED <<plc, held, state, up, poll, sub, reader, shown, changed>>

-----------------------------------------------------------------------------
(* The PLC *)

SetTag(t, x) ==
  /\ plc' = [plc EXCEPT ![t] = x]
  /\ held' = [held EXCEPT ![t] = @ \cup {x}]

PlcProgram(t, x) ==
  /\ changed < MaxChanges /\ x # plc[t]
  /\ changed' = changed + 1
  /\ SetTag(t, x)
  /\ UNCHANGED <<state, up, poll, put, sub, reader, shown, failed>>

CallFails == failed < MaxFails /\ failed' = failed + 1

(* sendBytes: a full channel drops the message.                             *)
Message(v, m) ==
  shown' \in {[shown EXCEPT ![v] = [t \in Tags |-> IF t \in DOMAIN m THEN m[t] ELSE @[t]]]}
             \cup (IF v \in Slow THEN {shown} ELSE {})

(* broadcastByTag, for one client.                                          *)
Tell(v, u) ==
  IF u.tag \in sub[v] THEN Message(v, [t \in {u.tag} |-> u.value]) ELSE UNCHANGED shown

-----------------------------------------------------------------------------
(* pollOnce *)

PollTag == TagSeq[poll.next]

PollRead ==
  /\ poll.at = "read" /\ poll.next <= Len(TagSeq)
  /\ poll' = [poll EXCEPT !.at = "store", !.raw = plc[PollTag], !.good = TRUE]
  /\ UNCHANGED <<plc, state, up, put, sub, reader, shown, changed, failed, held>>

(* `continue`: the tag keeps its value in the state. *)
PollReadFails ==
  /\ poll.at = "read" /\ poll.next <= Len(TagSeq)
  /\ CallFails
  /\ poll' = [poll EXCEPT !.next = @ + 1, !.bad = TRUE]
  /\ UNCHANGED <<plc, state, up, put, sub, reader, shown, changed, held>>

IsChange(t, x) == state[t] # x

PollStore ==
  /\ poll.at = "store"
  /\ state' = [state EXCEPT ![PollTag] = poll.raw]
  /\ poll' = [poll EXCEPT !.at = "read", !.next = @ + 1, !.raw = NoValue,
                !.updates = IF IsChange(PollTag, poll.raw)
                            THEN Append(@, Update(PollTag, poll.raw)) ELSE @]
  /\ UNCHANGED <<plc, up, put, sub, reader, shown, changed, failed, held>>

UpAfterPoll == poll.good \/ (up /\ ~poll.bad)

PollEnd ==
  /\ poll.at = "read" /\ poll.next > Len(TagSeq)
  /\ up' = UpAfterPoll
  /\ poll' = [poll EXCEPT !.at = "send"]
  /\ UNCHANGED <<plc, state, put, sub, reader, shown, changed, failed, held>>

(* The broadcast of the first update reaches one more client. *)
PollSend(v) ==
  /\ poll.at = "send" /\ poll.updates # <<>> /\ v \in poll.to
  /\ Tell(v, Head(poll.updates))
  /\ poll' = [poll EXCEPT !.to = @ \ {v}]
  /\ UNCHANGED <<plc, state, up, put, sub, reader, changed, failed, held>>

PollNext ==
  /\ poll.at = "send" /\ poll.updates # <<>> /\ poll.to = {}
  /\ poll' = [poll EXCEPT !.updates = Tail(@), !.to = Viewers]
  /\ UNCHANGED <<plc, state, up, put, sub, reader, shown, changed, failed, held>>

(* The next tick of pollLoop. *)
PollTick ==
  /\ poll.at = "send" /\ poll.updates = <<>>
  /\ poll' = Idle("read")
  /\ UNCHANGED <<plc, state, up, put, sub, reader, shown, changed, failed, held>>

Poll ==
  \/ PollRead \/ PollReadFails \/ PollStore \/ PollEnd
  \/ \E v \in Viewers : PollSend(v)
  \/ PollNext \/ PollTick

-----------------------------------------------------------------------------
(* applyWrite *)

(* writeTagPayload: the PLC has the value. *)
PutWrite(w, t, x) ==
  /\ put[w].at = "start"
  /\ SetTag(t, x)
  /\ put' = [put EXCEPT ![w] = [at |-> "store", tag |-> t, raw |-> x, to |-> Viewers]]
  /\ UNCHANGED <<state, up, poll, sub, reader, shown, changed, failed>>

(* A protected tag, a value out of range or a call that fails, be it after   *)
(* it took effect: an error is answered and nothing else happens.           *)
PutFails(w, t, x) ==
  /\ put[w].at = "start"
  /\ CallFails
  /\ put' = [put EXCEPT ![w].at = "failed"]
  /\ SetTag(t, x) \/ UNCHANGED <<plc, held>>
  /\ UNCHANGED <<state, up, poll, sub, reader, shown, changed>>

PutStore(w) ==
  /\ put[w].at = "store"
  /\ state' = [state EXCEPT ![put[w].tag] = put[w].raw]
  /\ put' = [put EXCEPT ![w].at = "send"]
  /\ UNCHANGED <<plc, up, poll, sub, reader, shown, changed, failed, held>>

PutSend(w, v) ==
  /\ put[w].at = "send" /\ v \in put[w].to
  /\ Tell(v, Update(put[w].tag, put[w].raw))
  /\ put' = [put EXCEPT ![w].to = @ \ {v}]
  /\ UNCHANGED <<plc, state, up, poll, sub, reader, changed, failed, held>>

PutDone(w) ==
  /\ put[w].at = "send" /\ put[w].to = {}
  /\ put' = [put EXCEPT ![w].at = "done"]
  /\ UNCHANGED <<plc, state, up, poll, sub, reader, shown, changed, failed, held>>

Written(w) == PutStore(w) \/ PutDone(w) \/ \E v \in Viewers : PutSend(w, v)

ApplyWrite(w) ==
  \/ \E t \in Tags, x \in Values : PutWrite(w, t, x) \/ PutFails(w, t, x)
  \/ Written(w)

-----------------------------------------------------------------------------
(* `sub` of a viewer: setSubs, snapshotTags, then the snapshot is sent. *)

Subscribe(v, names) ==
  /\ sub[v] = {} /\ names # {}
  /\ sub' = [sub EXCEPT ![v] = names]
  /\ reader' = [reader EXCEPT ![v] = [left |-> names, snap |-> <<>>, at |-> "snap"]]
  /\ UNCHANGED <<plc, state, up, poll, put, shown, changed, failed, held>>

SnapTag(v, t) ==
  /\ reader[v].at = "snap" /\ t \in reader[v].left
  /\ reader' = [reader EXCEPT ![v] =
       [left |-> @.left \ {t}, at |-> "snap",
        snap |-> [u \in {t} \cup DOMAIN @.snap |-> IF u = t THEN state[t] ELSE @.snap[u]]]]
  /\ UNCHANGED <<plc, state, up, poll, put, sub, shown, changed, failed, held>>

SnapSend(v) ==
  /\ reader[v].at = "snap" /\ reader[v].left = {}
  /\ Message(v, reader[v].snap)
  /\ reader' = [reader EXCEPT ![v] = [left |-> {}, snap |-> <<>>, at |-> "read"]]
  /\ UNCHANGED <<plc, state, up, poll, put, sub, changed, failed, held>>

Snapshot(v) == SnapSend(v) \/ \E t \in Tags : SnapTag(v, t)

-----------------------------------------------------------------------------
Next ==
  \/ \E t \in Tags, x \in Values : PlcProgram(t, x)
  \/ Poll
  \/ \E w \in Puts : ApplyWrite(w)
  \/ \E v \in Viewers : Snapshot(v) \/ \E names \in Pages : Subscribe(v, names)

Spec == Init /\ [][Next]_vars

(* pollLoop never returns while the server runs, every call of applyWrite   *)
(* and every reader runs on once it began.                                  *)
FairSpec ==
  /\ Spec
  /\ WF_vars(Poll)
  /\ \A w \in Puts : WF_vars(Written(w))
  /\ \A v \in Viewers : WF_vars(Snapshot(v))
-----------------------------------------------------------------------------
Kept == Values \cup {NoValue}
Updates == [tag : Tags, value : Values]

TypeOK ==
  /\ plc \in [Tags -> Values]
  /\ state \in [Tags -> Kept]
  /\ up \in BOOLEAN
  /\ poll \in [at : {"read", "store", "send"}, next : 1 .. Len(TagSeq) + 1, raw : Kept,
               updates : Seq(Updates), good : BOOLEAN, bad : BOOLEAN, to : SUBSET Viewers]
  /\ poll.at = "store" => poll.next <= Len(TagSeq) /\ poll.raw \in Values
  /\ put \in [Puts -> [at : {"start", "store", "send", "done", "failed"}, tag : Tags,
                       raw : Kept, to : SUBSET Viewers]]
  /\ \A w \in Puts : put[w].at \in {"store", "send"} => put[w].raw \in Values
  /\ sub \in [Viewers -> SUBSET Tags]
  /\ \A v \in Viewers :
       /\ reader[v].left \subseteq Tags
       /\ reader[v].at \in {"read", "snap"}
       /\ DOMAIN reader[v].snap \subseteq Tags
       /\ \A t \in DOMAIN reader[v].snap : reader[v].snap[t] \in Kept
  /\ shown \in [Viewers -> [Tags -> Kept]]
  /\ changed \in 0 .. MaxChanges
  /\ failed \in 0 .. MaxFails
  /\ held \in [Tags -> SUBSET Values]

(* No viewer is shown, and no snapshot holds, a value the tag never had in   *)
(* the PLC, although an applyWrite may fail after the write.                *)
ShownWasHeld ==
  \A t \in Tags :
    /\ state[t] \in held[t] \cup {NoValue}
    /\ \A v \in Viewers : shown[v][t] \in held[t] \cup {NoValue}

(* Viewers whose `sub` was answered before the first poll, while nobody has  *)
(* written: a write, or a snapshot, may overtake the updates of a poll.     *)
Undisturbed == {v \in Early \ Slow : \A w \in Puts : put[w].at = "start"}

(* Such a viewer shows what the state has, or is about to be told by this   *)
(* poll.                                                                    *)
ShownOrPending ==
  \A v \in Undisturbed : \A t \in sub[v] :
    \/ shown[v][t] = state[t]
    \/ \E i \in 1 .. Len(poll.updates) :
         /\ poll.updates[i] = Update(t, state[t])
         /\ i = 1 => v \in poll.to

(* The variables have their types (a raw value that is to be kept was read,  *)
(* not left from a failed call); ShownWasHeld and ShownOrPending.           *)
Inv == TypeOK /\ ShownWasHeld /\ ShownOrPending

(* The state ends up as the PLC is, although polls and writes keep in it    *)
(* what they saw in any order, and a PLC that answers again is reported up.  *)
StateConverges == <>[]up /\ \A t \in Tags : <>[](state[t] = plc[t])

(* main.go:170: the polling interval is the one of the updates: such a       *)
(* viewer ends up showing what is in the PLC.                               *)
ViewersConverge ==
  \A v \in Viewers, t \in Tags :
    <>[](v \in Undisturbed /\ t \in sub[v] => shown[v][t] = plc[t])
=============================================================================
