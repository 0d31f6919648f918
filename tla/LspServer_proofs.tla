--------------------------- MODULE LspServer_proofs ---------------------------
(***************************************************************************)
(* The safety properties of the language server for every set of documents *)
(* and any number of edits.                                                *)
(***************************************************************************)
EXTENDS LspServer, TLAPS

(* A timer sends nothing before it fires, and fires once; a document that is *)
(* closed has nothing of its timers on the way, unless one was stopped late. *)
TimersFireOnce ==
  /\ \A t \in armed : job[t.id] = Idle
  /\ \A w \in Timers : w > edits => job[w] = Idle
  /\ \A u \in Uris, w \in Timers :
       docs[u] = Unknown /\ u \notin late => job[w].uri # u

IInv == Inv /\ TimersFireOnce

USE DEF Loop, Unknown, Timers, Texts, Workers

----------------------------------------------------------------------------
(* What an action leaves of the invariant's parts. *)

LEMMA InitInv == Init => IInv /\ QuietIsCurrent
<1> SUFFICES ASSUME Init PROVE IInv /\ QuietIsCurrent
  OBVIOUS
<1> USE MaxEditsAssumption, UrisAssumption DEF Init, Job, Idle
<1>1. TypeOK
  <2>1. 0 \in 0 .. MaxEdits OBVIOUS
  <2>2. job \in [Workers -> [step : {"idle", "header", "body"},
                            uri : Uris \cup {Nothing}, text : Texts]]
    BY <2>1
  <2>3. QED BY <2>1, <2>2 DEF TypeOK
<1>2. ArmedIsCurrent /\ TimersAreOwn BY DEF ArmedIsCurrent, TimersAreOwn
<1>3. SendsTheNewest BY DEF SendsTheNewest
<1>4. TimersFireOnce BY DEF TimersFireOnce
<1>5. QuietIsCurrent BY DEF QuietIsCurrent, GetDoc
<1>6. QED BY <1>1, <1>2, <1>3, <1>4, <1>5 DEF IInv, Inv

(* The text of a document is a text.                                         *)
LEMMA GetDocType == ASSUME TypeOK, NEW u \in Uris PROVE GetDoc(u) \in Texts
BY MaxEditsAssumption DEF TypeOK, GetDoc

(* Two armed timers of one name are one: it has one document, and its text.  *)
LEMMA ArmedOnceOnly ==
  ASSUME IInv, NEW s \in armed, NEW t \in armed, s.id = t.id
  PROVE  s = t
<1>1. s \in [id : Timers, uri : Uris, text : Texts] /\ t \in [id : Timers, uri : Uris, text : Texts]
  BY DEF IInv, Inv, TypeOK
<1>2. s.uri = t.uri
  BY <1>1, MaxEditsAssumption DEF IInv, Inv, ArmedIsCurrent, TimersAreOwn
<1>3. s.text = t.text
  BY <1>1, <1>2 DEF IInv, Inv, ArmedIsCurrent
<1>4. QED BY <1>1, <1>2, <1>3

(* Stopping the timer of a document leaves those of the others.              *)
LEMMA StoppedOnlyOwn ==
  ASSUME IInv, NEW u \in Uris
  PROVE  \A t \in armed : t \in Stopped(u) <=> t.uri # u
<1> SUFFICES ASSUME NEW t \in armed PROVE t \in Stopped(u) <=> t.uri # u
  OBVIOUS
<1>1. t.id \in Timers /\ t.uri \in Uris
  BY DEF IInv, Inv, TypeOK
<1>2. t.id # timer[u] <=> t.uri # u
  BY <1>1, MaxEditsAssumption DEF IInv, Inv, ArmedIsCurrent, TimersAreOwn
<1>3. QED BY <1>2 DEF Stopped

----------------------------------------------------------------------------
LEMMA RespondInv == IInv /\ QuietIsCurrent /\ Respond => (IInv /\ QuietIsCurrent)'
<1> SUFFICES ASSUME IInv, QuietIsCurrent, Respond PROVE (IInv /\ QuietIsCurrent)'
  OBVIOUS
<1> USE MaxEditsAssumption, UrisAssumption DEF Respond, LoopIdle, editor, Publish, Job, Idle
<1>1. TypeOK' BY DEF IInv, Inv, TypeOK
<1>2. ArmedIsCurrent' /\ TimersAreOwn' BY DEF IInv, Inv, ArmedIsCurrent, TimersAreOwn
<1>3. SendsTheNewest' BY DEF IInv, Inv, TypeOK, SendsTheNewest, GetDoc
<1>4. TimersFireOnce' BY DEF IInv, Inv, TypeOK, TimersFireOnce
<1>5. QuietIsCurrent'
  <2>1. \A u \in Uris : Pending(u) => Pending(u)'
    BY DEF IInv, Inv, TypeOK, Pending
  <2>2. QED BY <2>1 DEF QuietIsCurrent, GetDoc
<1>6. QED BY <1>1, <1>2, <1>3, <1>4, <1>5 DEF IInv, Inv

(* Open, Save and Close let the loop publish something of the document.      *)
LEMMA OpenInv ==
  ASSUME IInv, QuietIsCurrent, NEW u \in Uris, Open(u)
  PROVE  (IInv /\ QuietIsCurrent)'
<1> USE MaxEditsAssumption, UrisAssumption DEF Open, LoopIdle, editor, Edit, Stored, NewTexts
<1>1. PICK text \in Texts : docs' = [docs EXCEPT ![u] = text] /\ Publish(Loop, u, text)
  <2>1. NewTexts \subseteq Texts BY DEF IInv, Inv, TypeOK
  <2>2. QED BY <2>1
<1> USE <1>1 DEF Publish, Job, Idle
<1>2. TypeOK' BY DEF IInv, Inv, TypeOK
<1>3. ArmedIsCurrent' BY DEF IInv, Inv, TypeOK, ArmedIsCurrent
<1>4. TimersAreOwn' BY DEF IInv, Inv, TypeOK, TimersAreOwn
<1>5. SendsTheNewest' BY DEF IInv, Inv, TypeOK, SendsTheNewest, GetDoc, TimersFireOnce
<1>6. TimersFireOnce' BY DEF IInv, Inv, TypeOK, TimersFireOnce
<1>7. QuietIsCurrent'
  <2>1. Pending(u)' BY DEF IInv, Inv, TypeOK, Pending
  <2>2. \A v \in Uris \ {u} : Pending(v) => Pending(v)'
    BY DEF IInv, Inv, TypeOK, Pending
  <2>3. QED BY <2>1, <2>2 DEF IInv, Inv, TypeOK, QuietIsCurrent, GetDoc
<1>8. QED BY <1>2, <1>3, <1>4, <1>5, <1>6, <1>7 DEF IInv, Inv

LEMMA SaveInv ==
  ASSUME IInv, QuietIsCurrent, NEW u \in Uris, Save(u)
  PROVE  (IInv /\ QuietIsCurrent)'
<1> USE MaxEditsAssumption, UrisAssumption DEF Save, LoopIdle, editor, Stored, Publish, Job, Idle
<1>1. docs' = docs BY DEF IInv, Inv, TypeOK, GetDoc
<1>2. TypeOK' BY <1>1, GetDocType DEF IInv, Inv, TypeOK
<1>3. ArmedIsCurrent' /\ TimersAreOwn' BY <1>1 DEF IInv, Inv, ArmedIsCurrent, TimersAreOwn
<1>4. SendsTheNewest' BY <1>1 DEF IInv, Inv, TypeOK, SendsTheNewest, GetDoc
<1>5. TimersFireOnce' BY <1>1 DEF IInv, Inv, TypeOK, TimersFireOnce
<1>6. QuietIsCurrent'
  <2>1. \A v \in Uris : Pending(v) => Pending(v)'
    BY DEF IInv, Inv, TypeOK, Pending
  <2>2. QED BY <1>1, <2>1 DEF QuietIsCurrent, GetDoc
<1>7. QED BY <1>2, <1>3, <1>4, <1>5, <1>6 DEF IInv, Inv

(* A document whose timer is stopped in time has nothing on its way.         *)
LEMMA StoppedInTime ==
  ASSUME IInv, NEW u \in Uris, NoteLate(u)
  PROVE  /\ late \subseteq late' /\ late' \subseteq late \cup {u}
         /\ u \notin late' => \A w \in Timers : job[w].uri # u
BY DEF NoteLate, StopsTooLate

LEMMA CloseInv ==
  ASSUME IInv, QuietIsCurrent, NEW u \in Uris, Close(u)
  PROVE  (IInv /\ QuietIsCurrent)'
<1> USE MaxEditsAssumption, UrisAssumption DEF Close, LoopIdle, editor, Stored, Publish, Job, Idle
<1>1. TypeOK' BY StoppedInTime DEF IInv, Inv, TypeOK, Stopped
<1>2. \A t \in armed : t \in armed' <=> t.uri # u
  BY StoppedOnlyOwn
<1>3. armed' \subseteq armed BY DEF Stopped
<1>4. ArmedIsCurrent' BY <1>2, <1>3 DEF IInv, Inv, TypeOK, ArmedIsCurrent
<1>5. TimersAreOwn' BY DEF IInv, Inv, TypeOK, TimersAreOwn
<1>6. SendsTheNewest'
  BY StoppedInTime DEF IInv, Inv, TypeOK, SendsTheNewest, GetDoc
<1>7. TimersFireOnce'
  BY StoppedInTime, <1>3 DEF IInv, Inv, TypeOK, TimersFireOnce
<1>8. QuietIsCurrent'
  <2>1. Pending(u)' BY DEF IInv, Inv, TypeOK, Pending
  <2>2. \A v \in Uris \ {u} : Pending(v) => Pending(v)'
    BY <1>2 DEF IInv, Inv, TypeOK, Pending
  <2>3. QED BY <2>1, <2>2, StoppedInTime DEF IInv, Inv, TypeOK, QuietIsCurrent, GetDoc
<1>9. QED BY <1>1, <1>4, <1>5, <1>6, <1>7, <1>8 DEF IInv, Inv

(* A change arms a timer that is new, with the text it stores.               *)
LEMMA ChangeInv ==
  ASSUME IInv, QuietIsCurrent, NEW u \in Uris, Change(u)
  PROVE  (IInv /\ QuietIsCurrent)'
<1> USE MaxEditsAssumption, UrisAssumption DEF Change, LoopIdle, editor, Edit, Stored, Job, Idle
<1>1. PICK text \in Texts : docs' = [docs EXCEPT ![u] = text] /\ StartTimer(u, edits', text)
  <2>1. {Changed(u, t) : t \in NewTexts} \subseteq Texts
    BY GetDocType DEF IInv, Inv, TypeOK, Changed, NewTexts
  <2>2. QED BY <2>1
<1> USE <1>1
<1>2. edits \in Nat /\ edits' = edits + 1 /\ edits' \in Timers
  BY DEF IInv, Inv, TypeOK
<1> DEFINE new == [id |-> edits', uri |-> u, text |-> text]
<1>3. armed' = Stopped(u) \cup {new} /\ timer' = [timer EXCEPT ![u] = edits']
  BY DEF StartTimer
<1>4. \A t \in Stopped(u) : t \in armed /\ t.uri # u
  BY StoppedOnlyOwn DEF Stopped
<1>5. TypeOK' BY <1>2, <1>3, StoppedInTime DEF IInv, Inv, TypeOK, Stopped
<1>6. ArmedIsCurrent' BY <1>3, <1>4, <1>2 DEF IInv, Inv, TypeOK, ArmedIsCurrent
<1>7. TimersAreOwn'
  <2>1. \A v \in Uris : timer[v] \in Nat /\ timer[v] < edits'
    BY <1>2 DEF IInv, Inv, TypeOK, TimersAreOwn
  <2>2. QED BY <1>2, <1>3, <2>1 DEF IInv, Inv, TypeOK, TimersAreOwn
<1>8. SendsTheNewest'
  BY StoppedInTime DEF IInv, Inv, TypeOK, SendsTheNewest, GetDoc
<1>9. TimersFireOnce'
  BY StoppedInTime, <1>2, <1>3, <1>4 DEF IInv, Inv, TypeOK, TimersFireOnce
<1>10. QuietIsCurrent'
  <2>1. new \in armed' /\ new.uri = u BY <1>3
  <2>. HIDE DEF new
  <2>4. Pending(u)' BY <2>1 DEF Pending
  <2>2. \A v \in Uris \ {u} : Pending(v) => Pending(v)'
    BY <1>3, StoppedOnlyOwn DEF Pending
  <2>3. QED BY <2>4, <2>2, StoppedInTime DEF IInv, Inv, TypeOK, QuietIsCurrent, GetDoc
<1>11. QED BY <1>5, <1>6, <1>7, <1>8, <1>9, <1>10 DEF IInv, Inv

LEMMA EndInv == IInv /\ QuietIsCurrent /\ End => (IInv /\ QuietIsCurrent)'
BY DEF End, server, editor, IInv, Inv, TypeOK, ArmedIsCurrent, TimersAreOwn,
       SendsTheNewest, GetDoc, TimersFireOnce, QuietIsCurrent

----------------------------------------------------------------------------
(* What is on its way of a document moves from its timer to the goroutine.   *)
LEMMA FireInv ==
  ASSUME IInv, QuietIsCurrent, NEW id \in Timers, Fire(id)
  PROVE  (IInv /\ QuietIsCurrent)'
<1> USE MaxEditsAssumption, UrisAssumption DEF Fire, editor, Publish, Job, Idle
<1>1. PICK t \in armed :
        t.id = id /\ armed' = armed \ {t}
        /\ job' = [job EXCEPT ![id] = [step |-> "header", uri |-> t.uri, text |-> t.text]]
  OBVIOUS
<1> USE <1>1
<1>2. t.uri \in Uris /\ t.text \in Texts
  BY DEF IInv, Inv, TypeOK
<1>3. docs[t.uri] = t.text BY DEF IInv, Inv, ArmedIsCurrent
<1>4. job[id].uri = Nothing BY DEF IInv, TimersFireOnce
<1>5. \A s \in armed' : s.id # id
  BY ArmedOnceOnly
<1>6. id <= edits BY <1>2 DEF IInv, Inv, TypeOK, ArmedIsCurrent, TimersAreOwn
<1>7. TypeOK' BY <1>2 DEF IInv, Inv, TypeOK
<1>8. ArmedIsCurrent' /\ TimersAreOwn' BY DEF IInv, Inv, ArmedIsCurrent, TimersAreOwn
<1>9. SendsTheNewest' BY <1>2, <1>3 DEF IInv, Inv, TypeOK, SendsTheNewest, GetDoc
<1>10. TimersFireOnce'
  BY <1>2, <1>3, <1>5, <1>6 DEF IInv, Inv, TypeOK, TimersFireOnce
<1>11. QuietIsCurrent'
  <2>1. \A v \in Uris : Pending(v) => Pending(v)'
    BY <1>4 DEF IInv, Inv, TypeOK, Pending
  <2>2. QED BY <2>1 DEF QuietIsCurrent, GetDoc
<1>12. QED BY <1>7, <1>8, <1>9, <1>10, <1>11 DEF IInv, Inv

LEMMA WriteHeaderInv ==
  ASSUME IInv, QuietIsCurrent, NEW w \in Workers, WriteHeader(w)
  PROVE  (IInv /\ QuietIsCurrent)'
<1> USE MaxEditsAssumption, UrisAssumption DEF WriteHeader
<1>1. \A v \in Workers : job'[v].uri = job[v].uri /\ job'[v].text = job[v].text
  BY DEF IInv, Inv, TypeOK
<1>2. \A v \in Workers : job[v] = Idle => job'[v] = Idle
  BY DEF IInv, Inv, TypeOK, Idle, Job
<1>3. TypeOK' BY DEF IInv, Inv, TypeOK
<1>4. ArmedIsCurrent' /\ TimersAreOwn' BY DEF IInv, Inv, ArmedIsCurrent, TimersAreOwn
<1>5. SendsTheNewest' BY <1>1 DEF IInv, Inv, SendsTheNewest, GetDoc
<1>6. TimersFireOnce' BY <1>1, <1>2 DEF IInv, Inv, TypeOK, TimersFireOnce
<1>7. QuietIsCurrent'
  <2>1. \A u \in Uris : Pending(u) => Pending(u)' BY <1>1 DEF Pending
  <2>2. torn => torn' OBVIOUS
  <2>3. QED BY <2>1, <2>2 DEF IInv, Inv, TypeOK, QuietIsCurrent, GetDoc
<1>8. QED BY <1>3, <1>4, <1>5, <1>6, <1>7 DEF IInv, Inv

(* What a finished message leaves on the editor's screen is of the newest    *)
(* text, by SendsTheNewest.                                                 *)
LEMMA WriteBodyInv ==
  ASSUME IInv, QuietIsCurrent, NEW w \in Workers, WriteBody(w)
  PROVE  (IInv /\ QuietIsCurrent)'
<1> USE MaxEditsAssumption, UrisAssumption DEF WriteBody
<1>1. job' = [job EXCEPT ![w] = Idle] OBVIOUS
<1>2. TypeOK' BY DEF IInv, Inv, TypeOK, Idle, Job
<1>3. ArmedIsCurrent' /\ TimersAreOwn' BY DEF IInv, Inv, ArmedIsCurrent, TimersAreOwn
<1>4. SendsTheNewest' BY DEF IInv, Inv, TypeOK, SendsTheNewest, GetDoc, Idle, Job
<1>5. TimersFireOnce' BY DEF IInv, Inv, TypeOK, TimersFireOnce, Idle, Job
<1>6. QuietIsCurrent'
  <2> SUFFICES ASSUME NEW u \in Uris, ~torn, u \notin late, ~Pending(u)', ~ended
               PROVE  shown'[u] = GetDoc(u)
    BY DEF QuietIsCurrent, GetDoc
  <2>1. CASE job[w].uri = u
    BY <2>1 DEF IInv, Inv, TypeOK, SendsTheNewest
  <2>2. CASE job[w].uri # u
    <3>1. ~Pending(u) BY <2>2 DEF IInv, Inv, TypeOK, Pending
    <3>2. shown'[u] = shown[u] BY <2>2 DEF IInv, Inv, TypeOK
    <3>3. QED BY <3>1, <3>2 DEF QuietIsCurrent
  <2>3. QED BY <2>1, <2>2
<1>7. QED BY <1>2, <1>3, <1>4, <1>5, <1>6 DEF IInv, Inv

LEMMA StutterInv == IInv /\ QuietIsCurrent /\ UNCHANGED vars => (IInv /\ QuietIsCurrent)'
BY DEF vars, server, editor, IInv, Inv, TypeOK, ArmedIsCurrent, TimersAreOwn,
       SendsTheNewest, GetDoc, TimersFireOnce, QuietIsCurrent, Pending

----------------------------------------------------------------------------
LEMMA Inductive == Spec => [](IInv /\ QuietIsCurrent)
<1>1. IInv /\ QuietIsCurrent /\ [Next]_vars => (IInv /\ QuietIsCurrent)'
  BY RespondInv, EndInv, OpenInv, ChangeInv, SaveInv, CloseInv, FireInv, WriteHeaderInv,
     WriteBodyInv, StutterInv DEF Next, Send
<1>2. QED BY InitInv, <1>1, PTL DEF Spec

(* Armed timers belong to their documents as they are, and what is sent is   *)
(* of the newest text (server.go:233), for any number of documents and edits. *)
THEOREM ServerInvariant == Spec => []Inv
<1>1. IInv => Inv BY DEF IInv
<1>2. QED BY Inductive, <1>1, PTL

(* Whatever the order in which timers fire and goroutines write, an editor   *)
(* for which nothing is pending shows what the server's text deserves.       *)
THEOREM QuietShowsCurrent == Spec => []QuietIsCurrent
BY Inductive, PTL
=============================================================================
