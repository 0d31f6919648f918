----------------------------- MODULE HmiHeartbeat -----------------------------
(***************************************************************************)
(* The heartbeat inside `s7db serve`: heartbeatController starts and stops *)
(* one heartbeat.Run per heartbeat tag, all of them and the polls on the   *)
(* server's one PLC client.  A Run closes that client when a call fails    *)
(* and when it returns; only a Run dials it again.                         *)
(* (internal/server/server.go, internal/heartbeat/heartbeat.go)            *)
(*                                                                         *)
(* A loop is <<g, t>>: the Run of tag t that the g-th Start began.  Beats  *)
(* are those of mode set-true: one WriteBool without readback, as the      *)
(* server configures them (Heartbeat has the rest of Run).                 *)
(*                                                                         *)
(* Start returns an error at the first tag whose interval or timeout it    *)
(* cannot parse (a padded " 1s" passes Validate, which trims it): only the *)
(* tags before that one get loops.                                         *)
(***************************************************************************)
EXTENDS Naturals

CONSTANTS
  HbTags,      \* number of heartbeat tags of the schema
  Settings,    \* <<serve, malformed>>: command lines and schemas
  MaxStarts,   \* bound: Starts that begin loops
  MaxOutages   \* bound: times the PLC cannot be reached

ASSUME CountsAssumption ==
  /\ Settings \subseteq BOOLEAN \X (0 .. HbTags)
  /\ HbTags \in Nat \ {0} /\ MaxStarts \in Nat \ {0} /\ MaxOutages \in Nat

VARIABLES
  serve,      \* --heartbeat: Run calls Start
  malformed,  \* the first tag whose interval or timeout Start refuses, 0: none
  exited,     \* Run has returned an error, and the process has ended
  running,    \* heartbeatController.state
  handle,     \* whose context h.cancel ends, 0: none
  starting,   \* Start is in progress, and holds h.mu: the tag it is at, 0: none
  gen,        \* Starts so far
  request,    \* Starts whose context is that of a request
  over,       \* Starts whose context is done
  loop,       \* where a Run is
  link,       \* the client: "none", "live", or "dead", a handler whose peer is lost
  reachable,  \* the PLC
  outages,
  up,         \* Server.lastPLCUp
  stopped,    \* history: a Stop, and no Start since
  lost        \* history: Starts whose h.cancel a later Start has overwritten

program == <<serve, malformed, exited>>
controller == <<running, handle, starting, gen, request, over, stopped, lost>>
plc == <<link, reachable, outages, up>>
hmiVars == <<program, controller, loop, plc>>

Gens == 1 .. MaxStarts
Loops == Gens \X (1 .. HbTags)

(* The server is connected; Run has not come to its Start yet. *)
HmiInit ==
  /\ \E s \in Settings : serve = s[1] /\ malformed = s[2]
  /\ exited = FALSE
  /\ running = FALSE
  /\ handle = 0 /\ starting = 0
  /\ gen = 0 /\ request = {} /\ over = {}
  /\ loop = [l \in Loops |-> "none"]
  /\ link = "live" /\ reachable = TRUE /\ outages = 0 /\ up = TRUE
  /\ stopped = FALSE /\ lost = {}

(* Mutated forms of definitions below, named for the slip each makes.        *)
ToldOfCancels(l) == running /\ l[1] \notin over
HandleForgotten == over

-----------------------------------------------------------------------------
(* The PLC, and the polls *)

Outage ==
  /\ reachable /\ outages < MaxOutages
  /\ reachable' = FALSE /\ outages' = outages + 1
  /\ link' \in IF link = "live" THEN {"live", "dead"} ELSE {link}
  /\ UNCHANGED <<program, controller, loop, up>>

Back ==
  /\ ~reachable
  /\ reachable' = TRUE
  /\ UNCHANGED <<program, controller, loop, link, outages, up>>

(* markBeat waits for h.mu with ioMu held. *)
IoFree == \A l \in Loops : loop[l] # "mark"
MuFree == starting = 0

CallWorks == link = "live" /\ reachable

(* setPLCUp after the reads of a poll. *)
Poll ==
  /\ ~exited /\ IoFree
  /\ up' = CallWorks
  /\ UNCHANGED <<program, controller, loop, link, reachable, outages>>

-----------------------------------------------------------------------------
(* heartbeatController *)

(* Start, by Run before it listens, or by a request. *)
StartBegin(ofRequest) ==
  /\ MuFree /\ ~running /\ gen < MaxStarts
  /\ IF ofRequest THEN serve => gen > 0 ELSE serve /\ gen = 0
  /\ gen' = gen + 1
  /\ request' = IF ofRequest THEN request \cup {gen'} ELSE request
  /\ handle' = gen'
  /\ lost' = IF handle = 0 THEN lost ELSE lost \cup {handle}
  /\ running' = TRUE
  /\ starting' = 1
  /\ stopped' = FALSE
  /\ UNCHANGED <<program, over, loop, plc>>

(* One target of Start's loop: a goroutine that runs Run. *)
StartLoop ==
  /\ starting \notin {0, malformed}
  /\ loop' = [loop EXCEPT ![<<gen, starting>>] = "first"]
  /\ starting' = IF starting = HbTags THEN 0 ELSE starting + 1
  /\ UNCHANGED <<program, running, handle, gen, request, over, stopped, lost, plc>>

(* A target whose interval or timeout is malformed: Start returns an error,  *)
(* and leaves running TRUE.  A request is answered with it; Run returns it,  *)
(* and the process ends.                                                     *)
StartFails ==
  /\ starting # 0 /\ starting = malformed
  /\ starting' = 0
  /\ exited' = (gen \notin request)
  /\ UNCHANGED <<serve, malformed, running, handle, gen, request, over, stopped, lost, loop, plc>>

Over == IF handle = 0 THEN over ELSE over \cup {handle}

StopHeartbeat ==
  /\ ~exited /\ MuFree /\ gen > 0
  /\ over' = Over
  /\ handle' = 0
  /\ running' = FALSE
  /\ stopped' = TRUE
  /\ UNCHANGED <<program, starting, gen, request, lost, loop, plc>>

(* The handler of a request has returned: its context is done. *)
RequestEnds(g) ==
  /\ g \in request \ over
  /\ g = gen => starting = 0
  /\ over' = over \cup {g}
  /\ UNCHANGED <<program, running, handle, starting, gen, request, stopped, lost, loop, plc>>

-----------------------------------------------------------------------------
(* heartbeat.Run *)

Go(l, where) == loop' = [loop EXCEPT ![l] = where]

LoopDials(l) ==
  /\ loop[l] \in {"first", "dial"} /\ IoFree
  /\ link # "none" \/ reachable
  /\ link' = IF link = "none" THEN "live" ELSE link
  /\ Go(l, "head")
  /\ UNCHANGED <<program, controller, reachable, outages, up>>

(* Dials have failed for longer than the timeout, or the context is done:    *)
(* connectOrRetry returns an error.  The first comes before `defer Close`.   *)
LoopGivesUp(l) ==
  /\ loop[l] \in {"first", "dial"} /\ link = "none"
  /\ ~reachable \/ l[1] \in over
  /\ Go(l, IF loop[l] = "first" THEN "tell" ELSE "return")
  /\ UNCHANGED <<program, controller, plc>>

LoopHead(l) ==
  /\ loop[l] = "head"
  /\ Go(l, IF l[1] \in over THEN "return" ELSE "write")
  /\ UNCHANGED <<program, controller, plc>>

LoopWrites(l) ==
  /\ loop[l] = "write" /\ l[1] \notin over /\ IoFree /\ CallWorks
  /\ Go(l, "mark")
  /\ UNCHANGED <<program, controller, plc>>

(* markBeat; then the pause, which a done context ends. *)
LoopMarks(l) ==
  /\ loop[l] = "mark" /\ MuFree
  /\ Go(l, "head")
  /\ UNCHANGED <<program, controller, plc>>

(* A failed call, or a context that is done: Close, and dial again. *)
LoopCloses(l) ==
  /\ loop[l] = "write" /\ IoFree
  /\ l[1] \in over \/ ~CallWorks
  /\ link' = "none"
  /\ Go(l, "dial")
  /\ UNCHANGED <<program, controller, reachable, outages, up>>

(* The deferred Close; the controller is told. *)
LoopReturns(l) ==
  /\ loop[l] = "return" /\ IoFree
  /\ link' = "none"
  /\ Go(l, "tell")
  /\ UNCHANGED <<program, controller, reachable, outages, up>>

Told(l) == FALSE

LoopTells(l) ==
  /\ loop[l] = "tell" /\ MuFree
  /\ running' = Told(l)
  /\ Go(l, "gone")
  /\ UNCHANGED <<program, handle, starting, gen, request, over, stopped, lost, plc>>

Loop(l) ==
  /\ ~exited
  /\ \/ LoopDials(l) \/ LoopGivesUp(l) \/ LoopHead(l)
     \/ LoopWrites(l) \/ LoopMarks(l) \/ LoopCloses(l) \/ LoopReturns(l) \/ LoopTells(l)

-----------------------------------------------------------------------------
HmiNext ==
  \/ Outage \/ Back \/ Poll
  \/ \E r \in BOOLEAN : StartBegin(r)
  \/ StartLoop \/ StartFails \/ StopHeartbeat
  \/ \E g \in Gens : RequestEnds(g)
  \/ \E l \in Loops : Loop(l)

HmiSpec == HmiInit /\ [][HmiNext]_hmiVars

(* Polls go on, outages end, handlers return and loops run on; ioMu and h.mu *)
(* are handed on, so that nobody waits for them for ever.                   *)
HmiFairSpec ==
  /\ HmiSpec
  /\ WF_hmiVars(Back) /\ WF_hmiVars(StartBegin(FALSE))
  /\ WF_hmiVars(StartLoop) /\ WF_hmiVars(StartFails)
  /\ SF_hmiVars(Poll)
  /\ \A g \in Gens : WF_hmiVars(RequestEnds(g))
  /\ \A l \in Loops : SF_hmiVars(Loop(l))
-----------------------------------------------------------------------------
HmiTypeOK ==
  /\ serve \in BOOLEAN /\ malformed \in 0 .. HbTags /\ exited \in BOOLEAN
  /\ running \in BOOLEAN /\ stopped \in BOOLEAN
  /\ handle \in 0 .. gen /\ gen \in 0 .. MaxStarts
  /\ starting \in 0 .. HbTags
  /\ request \subseteq 1 .. gen /\ over \subseteq 1 .. gen /\ lost \subseteq 1 .. gen
  /\ loop \in [Loops -> {"none", "first", "dial", "head", "write", "mark", "return", "tell",
                         "gone"}]
  /\ link \in {"none", "live", "dead"} /\ reachable \in BOOLEAN
  /\ outages \in 0 .. MaxOutages
  /\ up \in BOOLEAN

(* The tags that a Start begins loops for, before it ends or fails.          *)
Begun == {t \in 1 .. HbTags : malformed = 0 \/ t < malformed}

(* While the heartbeat is reported running, the loops that the last Start    *)
(* began are there, whatever loops of earlier ones still do: those of all    *)
(* tags, or, where Start failed at a malformed tag (it leaves running TRUE), *)
(* those of the tags before it, which may be none.                           *)
RunningHasLoops ==
  running /\ starting = 0 => \A t \in Begun : loop[<<gen, t>>] \notin {"none", "gone"}

(* One loop at most marks its beat, waiting for h.mu with ioMu held.         *)
OneMarks == \A k, l \in Loops : loop[k] = "mark" /\ loop[l] = "mark" => k = l

(* The variables have their types, OneMarks and RunningHasLoops.             *)
HmiInv == HmiTypeOK /\ OneMarks /\ RunningHasLoops

(* After a Stop all loops end, those of requests that were over before too.  *)
(* The loops it excepts do beat on: of several tags one loop may give up, at *)
(* which nothing is reported running, while another lives; the next Start    *)
(* overwrites h.cancel, and no Stop ends what Run's own Start began.         *)
Gone(l) == loop[l] \in {"none", "gone"}
StopEndsLoops ==
  stopped ~> (\A l \in Loops : Gone(l) \/ l[1] \in lost \ request) \/ ~stopped

(* The poll never dials: it relies on the loops for that.  While one of them *)
(* goes on beating and the PLC can be reached, the PLC is reported up, after *)
(* whatever outages, and although loops that end close the shared client.    *)
Beating == {"first", "dial", "head", "write", "mark"}
=============================================================================
