------------------------------ MODULE LspServer ------------------------------
(***************************************************************************)
(* The language server of `s7db lsp`: the request loop, which stores the   *)
(* documents and answers, the debounce timers of changed documents, whose  *)
(* goroutines compile and publish by themselves, and the stream they all   *)
(* write to, in two writes a message.  (internal/lsp/server.go)            *)
(*                                                                         *)
(* A text is named by the number of the edit that made it, 0 is the empty  *)
(* text; diagnostics are named by the text they are about, those of the    *)
(* empty text are none.  The editor keeps to the protocol: it opens a      *)
(* document before it changes, saves or closes it.  New makes every        *)
(* debounce of zero or less 150 ms, so changes always go through a timer.  *)
(***************************************************************************)
EXTENDS Integers

CONSTANTS
  Uris,       \* the documents
  MaxEdits    \* bound of the model: texts sent by the editor

ASSUME MaxEditsAssumption == MaxEdits \in Nat

Texts == 0 .. MaxEdits
Unknown == -1
Loop == 0
Timers == 1 .. MaxEdits     \* a timer is named by the edit that made it
Nothing == "nothing"        \* what a response is about

ASSUME UrisAssumption == Nothing \notin Uris

VARIABLES
  edits,      \* number of edits so far
  docs,       \* the text of each document, Unknown if there is none
  timer,      \* debounceTimers: the timer of each document, Loop if none
  armed,      \* the timers neither fired nor stopped, with the text they compile
  job,        \* what the loop and each timer's goroutine are sending
  torn,       \* a message was written into another one
  shown,      \* the diagnostics the editor shows
  published,  \* history: the newest text whose diagnostics were written
  late,       \* history: documents one of whose timers was stopped too late
  ended

server == <<docs, timer, armed, job>>
editor == <<torn, shown, published>>
vars == <<edits, server, editor, late, ended>>

Workers == {Loop} \cup Timers
Job(step, uri, text) == [step |-> step, uri |-> uri, text |-> text]
Idle == Job("idle", Nothing, 0)

(* The text the server has of a document: getDoc, "" for an unknown one.     *)
GetDoc(uri) == IF docs[uri] = Unknown THEN 0 ELSE docs[uri]

(* Mutated forms of definitions below, named for the slip each makes.        *)
TextNotStored(uri, text) == docs
ArmedOnce(uri, id, text) ==
  IF timer[uri] # Loop THEN UNCHANGED <<timer, armed>>
  ELSE timer' = [timer EXCEPT ![uri] = id] /\ armed' = armed \cup {[id |-> id, uri |-> uri, text |-> text]}
TimerKept(uri) == armed

Init ==
  /\ edits = 0
  /\ docs = [u \in Uris |-> Unknown]
  /\ timer = [u \in Uris |-> Loop]
  /\ armed = {}
  /\ job = [w \in Workers |-> Idle]
  /\ torn = FALSE
  /\ shown = [u \in Uris |-> 0]
  /\ published = [u \in Uris |-> Unknown]
  /\ late = {}
  /\ ended = FALSE

----------------------------------------------------------------------------
(* The request loop *)

LoopIdle == ~ended /\ job[Loop] = Idle

(* publishDiagnostics, with the compilation before it: the text is taken now *)
(* and the message written later.                                           *)
Publish(w, uri, text) == job' = [job EXCEPT ![w] = Job("header", uri, text)]

(* Messages the server answers without looking at a document.                *)
Respond ==
  /\ LoopIdle
  /\ Publish(Loop, Nothing, 0)
  /\ UNCHANGED <<edits, docs, timer, armed, editor, late, ended>>

(* The texts an edit may make: a new one, or the empty one.                  *)
NewTexts == {0, edits + 1}
Edit == edits < MaxEdits /\ edits' = edits + 1

Stored(uri, text) == [docs EXCEPT ![uri] = text]

Open(uri) ==
  /\ LoopIdle /\ docs[uri] = Unknown
  /\ Edit
  /\ \E text \in NewTexts : docs' = Stored(uri, text) /\ Publish(Loop, uri, text)
  /\ UNCHANGED <<timer, armed, editor, late, ended>>

(* A timer that has fired is not stopped; its goroutine goes on.             *)
Stopped(uri) == {t \in armed : t.id # timer[uri]}
StopsTooLate(uri) == \E w \in Timers : job[w].uri = uri
NoteLate(uri) == late' = IF StopsTooLate(uri) THEN late \cup {uri} ELSE late

StartTimer(uri, id, text) ==
  /\ timer' = [timer EXCEPT ![uri] = id]
  /\ armed' = Stopped(uri) \cup {[id |-> id, uri |-> uri, text |-> text]}

(* An empty text is taken for none: the old one stays.                       *)
Changed(uri, text) == IF text = 0 THEN GetDoc(uri) ELSE text

Change(uri) ==
  /\ LoopIdle /\ docs[uri] # Unknown
  /\ Edit
  /\ \E text \in {Changed(uri, t) : t \in NewTexts} :
       docs' = Stored(uri, text) /\ StartTimer(uri, edits', text)
  /\ NoteLate(uri)
  /\ UNCHANGED <<job, editor, ended>>

(* A pending timer of the document is left to fire.                          *)
Save(uri) ==
  /\ LoopIdle /\ docs[uri] # Unknown
  /\ docs' = Stored(uri, GetDoc(uri))
  /\ Publish(Loop, uri, GetDoc(uri))
  /\ UNCHANGED <<edits, timer, armed, editor, late, ended>>

Close(uri) ==
  /\ LoopIdle /\ docs[uri] # Unknown
  /\ timer' = [timer EXCEPT ![uri] = Loop]
  /\ armed' = Stopped(uri)
  /\ docs' = Stored(uri, Unknown)
  /\ Publish(Loop, uri, 0)
  /\ NoteLate(uri)
  /\ UNCHANGED <<edits, editor, ended>>

(* exit, the end of the stream, a message that cannot be parsed or written.  *)
End ==
  /\ ~ended
  /\ ended' = TRUE
  /\ UNCHANGED <<edits, server, editor, late>>

----------------------------------------------------------------------------
(* Timers, and the writes of a message *)

Fire(id) ==
  /\ ~ended
  /\ \E t \in armed : t.id = id /\ armed' = armed \ {t} /\ Publish(id, t.uri, t.text)
  /\ UNCHANGED <<edits, docs, timer, editor, late, ended>>

WriteHeader(w) ==
  /\ ~ended /\ job[w].step = "header"
  /\ job' = [job EXCEPT ![w].step = "body"]
  /\ torn' = (torn \/ \E v \in Workers : job[v].step = "body")
  /\ UNCHANGED <<edits, docs, timer, armed, shown, published, late, ended>>

(* An editor that has lost the frames reads no more of them.                 *)
WriteBody(w) ==
  LET uri == job[w].uri
      text == job[w].text
  IN  /\ ~ended /\ job[w].step = "body"
      /\ job' = [job EXCEPT ![w] = Idle]
      /\ shown' = IF torn \/ uri = Nothing THEN shown ELSE [shown EXCEPT ![uri] = text]
      /\ published' = IF uri # Nothing /\ published[uri] < text
                        THEN [published EXCEPT ![uri] = text] ELSE published
      /\ UNCHANGED <<edits, docs, timer, armed, torn, late, ended>>

Send(w) == WriteHeader(w) \/ WriteBody(w)

Next ==
  \/ Respond \/ End
  \/ \E u \in Uris : Open(u) \/ Change(u) \/ Save(u) \/ Close(u)
  \/ \E id \in Timers : Fire(id)
  \/ \E w \in Workers : Send(w)

Spec == Init /\ [][Next]_vars

(* Timers fire, and what is being sent is compiled and written.              *)
FairSpec ==
  /\ Spec
  /\ \A id \in Timers : WF_vars(Fire(id))
  /\ \A w \in Workers : WF_vars(Send(w))
----------------------------------------------------------------------------
TypeOK ==
  /\ edits \in 0 .. MaxEdits
  /\ docs \in [Uris -> Texts \cup {Unknown}]
  /\ timer \in [Uris -> Workers]
  /\ armed \subseteq [id : Timers, uri : Uris, text : Texts]
  /\ job \in [Workers -> [step : {"idle", "header", "body"},
                          uri : Uris \cup {Nothing}, text : Texts]]
  /\ torn \in BOOLEAN
  /\ shown \in [Uris -> Texts]
  /\ published \in [Uris -> Texts \cup {Unknown}]
  /\ late \subseteq Uris
  /\ ended \in BOOLEAN

(* An armed timer is the one its document has and carries its text: none     *)
(* that was replaced can fire, nor one whose document was closed.           *)
ArmedIsCurrent ==
  \A t \in armed : timer[t.uri] = t.id /\ docs[t.uri] = t.text

(* A timer belongs to one document and has not been made yet otherwise.      *)
TimersAreOwn ==
  /\ \A u \in Uris : timer[u] <= edits
  /\ \A u, v \in Uris : timer[u] = timer[v] /\ timer[u] # Loop => u = v

(* What is being sent is of the newest text of its document, unless one of   *)
(* its timers was stopped too late.                                         *)
SendsTheNewest ==
  \A w \in Workers :
    job[w].uri # Nothing /\ job[w].uri \notin late => job[w].text = GetDoc(job[w].uri)

(* The variables have their types, ArmedIsCurrent, TimersAreOwn and            *)
(* SendsTheNewest.                                                          *)
Inv == TypeOK /\ ArmedIsCurrent /\ TimersAreOwn /\ SendsTheNewest

Pending(uri) == (\E t \in armed : t.uri = uri) \/ \E w \in Workers : job[w].uri = uri

(* When nothing is pending for a document, the editor shows the diagnostics  *)
(* of the text the server has, none if it was closed: whatever was saved,   *)
(* closed or opened again while timers ran, if the frames are intact and no *)
(* timer of the document was stopped too late, when it was compiling.       *)
QuietIsCurrent ==
  \A u \in Uris : ~torn /\ u \notin late /\ ~Pending(u) /\ ~ended => shown[u] = GetDoc(u)

(* The diagnostics of every text the server stores are published, or those   *)
(* of a newer one, unless the document is closed or the server ends.         *)
EveryTextPublished ==
  \A u \in Uris, t \in Texts :
    docs[u] = t ~> published[u] >= t \/ docs[u] = Unknown \/ ended
==============================================================================
