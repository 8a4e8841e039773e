------------------------------ MODULE Shutdown ------------------------------
(***************************************************************************)
(* The life of the server's parts and threads, from main's first line to   *)
(* its last (app.c): every part is created by main, three threads are      *)
(* started by controller_create, and after a signal main ends them and     *)
(* frees the parts one after the other, while the threads that were not    *)
(* asked yet go on using what they use.                                    *)
(*                                                                         *)
(* Use of a part that has been freed is undefined: the program dies, or    *)
(* goes on.  What happens inside the pipeline is in module Demod; here a   *)
(* block wakes the demod thread, and the demod thread main, if they wait.  *)
(***************************************************************************)
EXTENDS Naturals

CONSTANT Worlds   \* what may happen: [commands, loses, fails, hasty]

(***************************************************************************)
(* Clients may send commands; the dongle may be lost; dongle or port may   *)
(* be missing at the start; a signal may come so early that the threads    *)
(* are not at work yet.                                                    *)
(***************************************************************************)
ASSUME ConstantsAssumption ==
  Worlds \subseteq [commands : BOOLEAN, loses : BOOLEAN, fails : BOOLEAN,
                    hasty : BOOLEAN]

VARIABLES
  pc,         \* where each thread is
  live,       \* the parts that exist
  freed,      \* the parts that have been freed
  misused,    \* history: the parts that were used when they did not exist
  state,      \* demod, websocket, rtl: the field of that name
  joins,      \* how often main has joined each thread
  exiting,    \* app: set by the signal handler
  device,     \* what rtlsdr_read_async does: "ok", "cancelled", "lost"
  world       \* one of Worlds, for good

vars == <<pc, live, freed, misused, state, joins, exiting, device, world>>

Threads == {"demod", "rtl", "ws"}
Parts   == {"dem", "rtl", "scan", "ws", "context", "ctrl"}

Alive == pc["main"] \notin {"returned", "crashed"}
Goto(t, from, to) ==
  Alive /\ pc[t] = from /\ pc' = [pc EXCEPT ![t] = to]

\* A thread uses parts and goes on as in next, or dies if one is not there.
Use(parts, next) ==
  /\ Alive
  /\ misused' = misused \cup (parts \ live)
  /\ \/ pc' = next
     \/ ~(parts \subseteq live) /\ pc' = [pc EXCEPT !["main"] = "crashed"]
UseAndGoto(t, from, to, parts) ==
  pc[t] = from /\ Use(parts, [pc EXCEPT ![t] = to])

Init ==
  /\ pc = [main |-> "createDemod", demod |-> "none", rtl |-> "none",
           ws |-> "none"]
  /\ live = {} /\ freed = {} /\ misused = {}
  /\ state = [t \in Threads |-> "HALTED"]
  /\ joins = [t \in Threads |-> 0]
  /\ exiting = FALSE
  /\ device = "ok"
  /\ world \in Worlds

-----------------------------------------------------------------------------
(* "main": create and start.                                               *)

Create(part, from, to) ==
  /\ Goto("main", from, to)
  /\ live' = live \cup {part}
  /\ UNCHANGED <<freed, misused, state, joins, exiting, device, world>>

CreateDemod   == Create("dem", "createDemod", "createRtl")
CreateRtl     == Create("rtl", "createRtl", "createScan")
CreateScan    == Create("scan", "createScan", "createWs")
CreateWs      == Create("ws", "createWs", "createContext")
CreateContext == Create("context", "createContext", "createCtrl")
CreateCtrl    == Create("ctrl", "createCtrl", "startDemod")

ExitFailed ==                       \* no dongle, or no port: exit(1)
  /\ world.fails
  /\ Goto("main", "createRtl", "returned")
       \/ Goto("main", "createContext", "returned")
  /\ UNCHANGED <<live, freed, misused, state, joins, exiting, device, world>>

Start(t, from, to, first) ==
  /\ Alive /\ pc["main"] = from
  /\ pc' = [pc EXCEPT !["main"] = to, ![t] = first]
  /\ state' = [state EXCEPT ![t] = "RUNNING"]
  /\ UNCHANGED <<live, freed, misused, joins, exiting, device, world>>

StartDemod == Start("demod", "startDemod", "startRtl", "test")
StartRtl   == Start("rtl", "startRtl", "startWs", "begin")
StartWs    == Start("ws", "startWs", "loop", "test")

(* The loop.                                                               *)

Turn ==                             \* controller_execute, up to the wait
  /\ ~exiting
  /\ UseAndGoto("main", "loop", "pop", {"dem", "rtl", "scan", "ws", "ctrl"})
  /\ UNCHANGED <<live, freed, state, joins, exiting, device, world>>

Leave ==
  /\ exiting
  /\ Goto("main", "loop", "exitDemod")
  /\ UNCHANGED <<live, freed, misused, state, joins, exiting, device, world>>

(* The end.  A part is told to exit, its thread is joined, it is freed.    *)

Tell(t, from, to) ==
  /\ Goto("main", from, to)
  /\ state' = [state EXCEPT ![t] = "EXITING"]
  /\ UNCHANGED <<live, freed, misused, joins, exiting, device, world>>

Join(t, from, to) ==
  /\ pc[t] = "done"
  /\ Goto("main", from, to)
  /\ joins' = [joins EXCEPT ![t] = @ + 1]
  /\ UNCHANGED <<live, freed, misused, state, exiting, device, world>>

Free(part, from, to) ==
  /\ Goto("main", from, to)
  /\ live' = live \ {part} /\ freed' = freed \cup {part}
  /\ UNCHANGED <<misused, state, joins, exiting, device, world>>

ExitDemod == Tell("demod", "exitDemod", "joinDemod")
JoinDemod == Join("demod", "joinDemod", "destroyDemod")

DestroyDemodAlways ==
  /\ Goto("main", "destroyDemod", "exitAgain")
  /\ UNCHANGED <<live, freed, misused, state, joins, exiting, device, world>>

DestroyDemod ==
  /\ Goto("main", "destroyDemod",
          IF state["demod"] # "EXITING" THEN "exitAgain" ELSE "freeDemod")
  /\ UNCHANGED <<live, freed, misused, state, joins, exiting, device, world>>

ExitAgain == Tell("demod", "exitAgain", "joinAgain")

JoinAgain ==                        \* undefined: a thread that was joined
  /\ pc["demod"] = "done"
  /\ \/ Goto("main", "joinAgain", "freeDemod")
     \/ Goto("main", "joinAgain", "crashed")
  /\ joins' = [joins EXCEPT !["demod"] = @ + 1]
  /\ UNCHANGED <<live, freed, misused, state, exiting, device, world>>

FreeDemod == Free("dem", "freeDemod", "exitWs")

ExitWs == Tell("ws", "exitWs", "destroyContext")

\* ... under the feet of libwebsocket_service, if the thread is in it
DestroyContext == Free("context", "destroyContext", "joinWs")

JoinWsNever ==
  /\ Goto("main", "joinWs", "freeWs")
  /\ UNCHANGED <<live, freed, misused, state, joins, exiting, device, world>>

JoinWs == Join("ws", "joinWs", "freeWs")
FreeWs == Free("ws", "freeWs", "exitRtl")

ExitRtl == Tell("rtl", "exitRtl", "cancel")

CancelNever ==
  /\ Goto("main", "cancel", "joinRtl")
  /\ UNCHANGED <<live, freed, misused, state, joins, exiting, device, world>>

Cancel ==                           \* has no effect before the thread reads
  /\ Goto("main", "cancel", "joinRtl")
  /\ device' = IF device = "ok" /\ pc["rtl"] # "begin" THEN "cancelled"
                                                       ELSE device
  /\ UNCHANGED <<live, freed, misused, state, joins, exiting, world>>

JoinRtlNever ==
  /\ Goto("main", "joinRtl", "freeRtl")
  /\ UNCHANGED <<live, freed, misused, state, joins, exiting, device, world>>

JoinRtl  == Join("rtl", "joinRtl", "freeRtl")
FreeRtl  == Free("rtl", "freeRtl", "freeScan")
FreeScan == Free("scan", "freeScan", "freeCtrl")
FreeCtrl == Free("ctrl", "freeCtrl", "return")

Return ==
  /\ Goto("main", "return", "returned")
  /\ UNCHANGED <<live, freed, misused, state, joins, exiting, device, world>>

-----------------------------------------------------------------------------
(* "demod"                                                                 *)

DemodTest ==
  /\ UseAndGoto("demod", "test",
                IF state["demod"] = "EXITING" THEN "done" ELSE "wait", {"dem"})
  /\ UNCHANGED <<live, freed, state, joins, exiting, device, world>>

DemodWork ==                        \* wakes main, if it waits
  /\ pc["demod"] = "work"
  /\ Use({"dem"}, [pc EXCEPT !["demod"] = "test",
                             !["main"] = IF @ = "pop" THEN "loop" ELSE @])
  /\ UNCHANGED <<live, freed, state, joins, exiting, device, world>>

(* "rtl"                                                                   *)

ReadBegins ==
  /\ Goto("rtl", "begin", "read")
  /\ UNCHANGED <<live, freed, misused, state, joins, exiting, device, world>>

Callback ==
  /\ device # "lost" /\ state["rtl"] # "EXITING"
  /\ UseAndGoto("rtl", "read", "push", {"rtl"})
  /\ UNCHANGED <<live, freed, state, joins, exiting, device, world>>

CallbackReturns ==                  \* at once: nothing happens
  /\ Alive /\ pc["rtl"] = "read" /\ device # "lost"
  /\ state["rtl"] = "EXITING"
  /\ UNCHANGED vars

Push ==                             \* wakes the demod thread, if it waits
  /\ pc["rtl"] = "push"
  /\ Use({"rtl", "ctrl", "dem"},
         [pc EXCEPT !["rtl"] = "read",
                    !["demod"] = IF @ = "wait" THEN "work" ELSE @])
  /\ UNCHANGED <<live, freed, state, joins, exiting, device, world>>

ReadEnds ==
  /\ device # "ok"
  /\ Goto("rtl", "read", "spin")
  /\ UNCHANGED <<live, freed, misused, state, joins, exiting, device, world>>

Spin ==
  /\ state["rtl"] = "EXITING"
  /\ UseAndGoto("rtl", "spin", "done", {"rtl"})
  /\ UNCHANGED <<live, freed, state, joins, exiting, device, world>>

(* "ws": a command is carried out inside libwebsocket_service.             *)

WsTest ==
  /\ UseAndGoto("ws", "test",
                IF state["ws"] = "EXITING" THEN "done" ELSE "service", {"ws"})
  /\ UNCHANGED <<live, freed, state, joins, exiting, device, world>>

ServiceReturns ==
  /\ UseAndGoto("ws", "service", "test", {"ws", "context"})
  /\ UNCHANGED <<live, freed, state, joins, exiting, device, world>>

Receive ==                          \* rate and mode
  /\ world.commands
  /\ UseAndGoto("ws", "service", "scan",
                {"ws", "context", "ctrl", "dem", "rtl"})
  /\ UNCHANGED <<live, freed, state, joins, exiting, device, world>>

SetScan ==
  /\ UseAndGoto("ws", "scan", "tune", {"ctrl", "scan"})
  /\ UNCHANGED <<live, freed, state, joins, exiting, device, world>>

Tune ==
  /\ UseAndGoto("ws", "tune", "execute", {"ctrl", "rtl", "dem"})
  /\ UNCHANGED <<live, freed, state, joins, exiting, device, world>>

Execute ==                          \* demod_execute: RUNNING, over EXITING
  /\ UseAndGoto("ws", "execute", "service", {"dem"})
  /\ state' = [state EXCEPT !["demod"] = "RUNNING"]
  /\ UNCHANGED <<live, freed, joins, exiting, device, world>>

-----------------------------------------------------------------------------
(* The environment.                                                        *)

Busy == pc["rtl"] \notin {"none", "begin"} /\ pc["main"] \in {"loop", "pop"}

Signal ==
  /\ Alive /\ ~exiting
  /\ world.hasty \/ Busy
  /\ exiting' = TRUE
  /\ UNCHANGED <<pc, live, freed, misused, state, joins, device, world>>

Lose ==
  /\ Alive /\ world.loses /\ device = "ok" /\ pc["rtl"] = "read"
  /\ device' = "lost"
  /\ UNCHANGED <<pc, live, freed, misused, state, joins, exiting, world>>

Over == ~Alive /\ UNCHANGED vars

Main ==
  \/ CreateDemod \/ CreateRtl \/ CreateScan \/ CreateWs \/ CreateContext
  \/ CreateCtrl \/ ExitFailed \/ StartDemod \/ StartRtl \/ StartWs
  \/ Turn \/ Leave \/ ExitDemod \/ JoinDemod \/ DestroyDemod \/ ExitAgain
  \/ JoinAgain \/ FreeDemod \/ ExitWs \/ DestroyContext \/ JoinWs \/ FreeWs
  \/ ExitRtl \/ Cancel \/ JoinRtl \/ FreeRtl \/ FreeScan \/ FreeCtrl \/ Return
Demod == DemodTest \/ DemodWork
Rtl   == ReadBegins \/ Callback \/ Push \/ ReadEnds \/ Spin
Ws    == WsTest \/ ServiceReturns \/ Receive \/ SetScan \/ Tune \/ Execute

Next == \/ Main \/ Demod \/ Rtl \/ Ws \/ CallbackReturns
        \/ Signal \/ Lose \/ Over

Spec == Init /\ [][Next]_vars

(***************************************************************************)
(* The threads are scheduled, and the dongle sends blocks until it is lost *)
(* or told to stop; a read that was cancelled ends.                        *)
(***************************************************************************)
FairSpec ==
  /\ Spec
  /\ WF_vars(Main) /\ WF_vars(Demod) /\ WF_vars(Rtl) /\ WF_vars(Ws)

-----------------------------------------------------------------------------
(* Properties.                                                             *)

MainLabels ==
  {"createDemod", "createRtl", "createScan", "createWs", "createContext",
   "createCtrl", "startDemod", "startRtl", "startWs", "loop", "pop",
   "exitDemod", "joinDemod", "destroyDemod", "exitAgain", "joinAgain",
   "freeDemod", "exitWs", "destroyContext", "joinWs", "freeWs", "exitRtl",
   "cancel", "joinRtl", "freeRtl", "freeScan", "freeCtrl", "return",
   "returned", "crashed"}
DemodLabels == {"none", "test", "wait", "work", "done"}
RtlLabels   == {"none", "begin", "read", "push", "spin", "done"}
WsLabels    == {"none", "test", "service", "scan", "tune", "execute", "done"}

PlacesOK ==
  /\ DOMAIN pc = Threads \cup {"main"}
  /\ pc["main"] \in MainLabels /\ pc["demod"] \in DemodLabels
  /\ pc["rtl"] \in RtlLabels /\ pc["ws"] \in WsLabels
PartsOK ==
  /\ live \subseteq Parts /\ freed \subseteq Parts /\ misused \subseteq Parts
  /\ live \cap freed = {}
ThreadsOK ==
  /\ state \in [Threads -> {"HALTED", "RUNNING", "EXITING"}]
  /\ \A t \in Threads : pc[t] = "none" <=> state[t] = "HALTED"
  /\ joins \in [Threads -> 0 .. 2]
WorldOK ==
  /\ exiting \in BOOLEAN
  /\ device \in {"ok", "cancelled", "lost"}
  /\ world \in Worlds

\* Type invariant; a part is not freed and there, a thread that has been
\* started is not HALTED.
TypeOK == PlacesOK /\ PartsOK /\ ThreadsOK /\ WorldOK

\* Scanner, dongle, controller and websocket are never used before they are
\* created or after they are freed, although commands go on until the very
\* end and blocks longer than that.  (The demodulator and the context are:
\* the dongle pushes into the one, the websocket thread serves the other.)
OrderlyUse == misused \subseteq {"dem", "context"}

\* Without commands every thread is joined at most once.
JoinedOnce == ~world.commands => \A t \in Threads : joins[t] <= 1

\* What each thread uses for as long as it runs, apart from the two parts
\* that are freed under their users.
KeptUses == [t \in Threads |-> CASE t = "demod" -> {"dem"}
                                 [] t = "rtl"   -> {"rtl", "ctrl"}
                                 [] t = "ws"    -> {"rtl", "scan", "ws",
                                                    "ctrl"}]
Running == {t \in Threads : pc[t] \notin {"none", "done"}}
Stopped == {t \in Threads : pc[t] = "done"}

Life == INSTANCE Lifecycle WITH Uses <- KeptUses, running <- Running,
                                stopped <- Stopped

\* The server implements Lifecycle: parts are there before the threads that
\* use them start, and until they have ended.
LifeSpec == Life!Spec

\* "Signal %d received, exiting!" (app.c:18): with a dongle that works and
\* no commands a signal ends the program, although main may be waiting for a
\* block, the demod thread for another, and each join for its thread.
Exits == /\ exiting /\ ~world.commands /\ ~world.loses /\ ~world.hasty
         ~> ~Alive
=============================================================================
