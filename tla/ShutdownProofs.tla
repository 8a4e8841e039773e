--------------------------- MODULE ShutdownProofs ---------------------------
(***************************************************************************)
(* Theorems about module Shutdown, whatever may happen in the world.       *)
(***************************************************************************)
EXTENDS Shutdown, TLAPS

USE DEF Alive, Goto, Threads, Parts, Running, Stopped

-----------------------------------------------------------------------------
(* Where main is tells which parts there are and which threads may run.    *)

\* The places before a part is created, and those after it was freed.
BeforeRtl     == {"createDemod", "createRtl"}
BeforeScan    == BeforeRtl \cup {"createScan"}
BeforeWs      == BeforeScan \cup {"createWs"}
BeforeContext == BeforeWs \cup {"createContext"}
BeforeCtrl    == BeforeContext \cup {"createCtrl"}

AfterCtrl    == {"return"}
AfterScan    == AfterCtrl \cup {"freeCtrl"}
AfterRtl     == AfterScan \cup {"freeScan"}
AfterWs      == AfterRtl \cup {"exitRtl", "cancel", "joinRtl", "freeRtl"}
AfterContext == AfterWs \cup {"joinWs", "freeWs"}
AfterDemod   == AfterContext \cup {"exitWs", "destroyContext"}

\* Part p is created at the end of the places before, freed at the start of
\* the places after.
Between(before, p, after) ==
  /\ p \in live  <=> pc["main"] \notin before \cup after
  /\ p \in freed <=> pc["main"] \in after

PartsInv ==
  Alive => /\ Between({"createDemod"}, "dem", AfterDemod)
           /\ Between(BeforeRtl, "rtl", AfterRtl)
           /\ Between(BeforeScan, "scan", AfterScan)
           /\ Between(BeforeWs, "ws", AfterWs)
           /\ Between(BeforeContext, "context", AfterContext)
           /\ Between(BeforeCtrl, "ctrl", AfterCtrl)

\* A thread has been started when main is past its start, and has ended when
\* main is past its join.
ThreadsInv ==
  Alive =>
    /\ pc["demod"] = "none" <=> pc["main"] \in BeforeCtrl \cup {"startDemod"}
    /\ pc["rtl"] = "none"
         <=> pc["main"] \in BeforeCtrl \cup {"startDemod", "startRtl"}
    /\ pc["ws"] = "none"
         <=> pc["main"] \in BeforeCtrl \cup {"startDemod", "startRtl",
                                             "startWs"}
    /\ pc["main"] \in AfterDemod \cup {"destroyDemod", "exitAgain",
                                       "joinAgain", "freeDemod"}
         => pc["demod"] = "done"
    /\ pc["main"] \in AfterWs \cup {"freeWs"} => pc["ws"] = "done"
    /\ pc["main"] \in AfterRtl \cup {"freeRtl"} => pc["rtl"] = "done"

JoinsInv ==
  /\ ~world.commands =>
       /\ pc["ws"] \notin {"scan", "tune", "execute"}
       /\ pc["main"] \in {"joinDemod", "destroyDemod"}
            => state["demod"] = "EXITING"
       /\ pc["main"] \notin {"exitAgain", "joinAgain"}
       /\ joins["demod"] <= 1 /\ joins["ws"] <= 1 /\ joins["rtl"] <= 1
  /\ pc["main"] \in BeforeCtrl \cup {"startDemod", "startRtl", "startWs",
                                     "loop", "pop", "exitDemod", "joinDemod"}
       => joins["demod"] = 0
  /\ pc["main"] \in {"destroyDemod", "exitAgain", "joinAgain"}
       => joins["demod"] = 1
  /\ Alive /\ pc["main"] \notin AfterWs \cup {"freeWs"} => joins["ws"] = 0
  /\ Alive /\ pc["main"] \notin AfterRtl \cup {"freeRtl"} => joins["rtl"] = 0

Inv == TypeOK /\ PartsInv /\ ThreadsInv /\ JoinsInv /\ OrderlyUse

\* The invariant holds at the start.
LEMMA InitInv == Init => Inv
<1> SUFFICES ASSUME Init PROVE Inv
  OBVIOUS
<1> USE ConstantsAssumption DEF Init
<1>2. TypeOK
  <2>1. PlacesOK
    BY DEF PlacesOK, MainLabels, DemodLabels, RtlLabels, WsLabels
  <2>2. PartsOK
    BY DEF PartsOK
  <2>3. ThreadsOK
    BY DEF ThreadsOK
  <2>4. WorldOK
    BY DEF WorldOK
  <2>. QED
    BY <2>1, <2>2, <2>3, <2>4 DEF TypeOK
<1>3. PartsInv
  BY DEF PartsInv, Between, BeforeRtl, BeforeScan, BeforeWs,
     BeforeContext, BeforeCtrl, AfterCtrl, AfterScan, AfterRtl, AfterWs,
     AfterContext, AfterDemod
<1>4. ThreadsInv /\ JoinsInv /\ OrderlyUse
  BY DEF ThreadsInv, JoinsInv, OrderlyUse, BeforeRtl, BeforeScan, BeforeWs,
     BeforeContext, BeforeCtrl, AfterCtrl, AfterScan, AfterRtl, AfterWs,
     AfterContext, AfterDemod
<1>. QED
  BY <1>2, <1>3, <1>4 DEF Inv

\* The steps, grouped by what they change.
Creates  == CreateDemod \/ CreateRtl \/ CreateScan \/ CreateWs
              \/ CreateContext \/ CreateCtrl
Starts   == StartDemod \/ StartRtl \/ StartWs
Moves    == ExitFailed \/ Turn \/ Leave \/ DestroyDemod \/ Cancel \/ Return
Tells    == ExitDemod \/ ExitAgain \/ ExitWs \/ ExitRtl
Joins    == JoinDemod \/ JoinAgain \/ JoinWs \/ JoinRtl
Frees    == FreeDemod \/ DestroyContext \/ FreeWs \/ FreeRtl \/ FreeScan
              \/ FreeCtrl
Others   == Demod \/ Rtl \/ Ws
Outside  == CallbackReturns \/ Signal \/ Lose \/ Over \/ UNCHANGED vars

\* Every step belongs to a group.
LEMMA StepKinds ==
  ASSUME [Next]_vars
  PROVE  Creates \/ Starts \/ Moves \/ Tells \/ Joins \/ Frees \/ Others
           \/ Outside
  BY DEF Next, Main, Creates, Starts, Moves, Tells, Joins, Frees, Others,
     Outside

\* Every thread is at one of its places.
LEMMA PlacesNext == PlacesOK /\ [Next]_vars => PlacesOK'
<1> SUFFICES ASSUME PlacesOK, [Next]_vars PROVE PlacesOK'
  OBVIOUS
<1> USE DEF PlacesOK, MainLabels, DemodLabels, RtlLabels, WsLabels
<1>1. CASE Creates
  BY <1>1 DEF Creates, CreateDemod, CreateRtl, CreateScan, CreateWs,
     CreateContext, CreateCtrl, Create
<1>2. CASE Starts
  BY <1>2 DEF Starts, StartDemod, StartRtl, StartWs, Start
<1>3. CASE Moves
  BY <1>3 DEF Moves, ExitFailed, Turn, UseAndGoto, Use, Leave, DestroyDemod,
     Cancel, Return
<1>4. CASE Tells
  BY <1>4 DEF Tells, ExitDemod, ExitAgain, ExitWs, ExitRtl, Tell
<1>5. CASE Joins
  BY <1>5 DEF Joins, JoinDemod, JoinAgain, JoinWs, JoinRtl, Join
<1>6. CASE Frees
  BY <1>6 DEF Frees, FreeDemod, DestroyContext, FreeWs, FreeRtl, FreeScan,
     FreeCtrl, Free
<1>7. CASE Demod
  BY <1>7 DEF Demod, DemodTest, DemodWork, UseAndGoto, Use
<1>8. CASE Rtl
  BY <1>8 DEF Rtl, ReadBegins, Callback, Push, ReadEnds, Spin, UseAndGoto, Use
<1>9. CASE Ws
  BY <1>9 DEF Ws, WsTest, ServiceReturns, Receive, SetScan, Tune, Execute,
     UseAndGoto, Use
<1>10. CASE Outside
  BY <1>10 DEF Outside, CallbackReturns, Signal, Lose, Over, vars
<1>. QED
  BY <1>1, <1>2, <1>3, <1>4, <1>5, <1>6, <1>7, <1>8, <1>9, <1>10, StepKinds
     DEF Others

\* Where main is tells which parts there are.
LEMMA PartsNext == PlacesOK /\ PartsInv /\ [Next]_vars => PartsInv'
<1> SUFFICES ASSUME PlacesOK, PartsInv, [Next]_vars PROVE PartsInv'
  OBVIOUS
<1> USE DEF PlacesOK, PartsInv, Between, BeforeRtl, BeforeScan, BeforeWs,
    BeforeContext, BeforeCtrl, AfterCtrl, AfterScan, AfterRtl, AfterWs,
    AfterContext, AfterDemod
<1>1. CASE Creates
  BY <1>1 DEF Creates, CreateDemod, CreateRtl, CreateScan, CreateWs,
     CreateContext, CreateCtrl, Create
<1>2. CASE Starts
  BY <1>2 DEF Starts, StartDemod, StartRtl, StartWs, Start
<1>3. CASE Moves
  BY <1>3 DEF Moves, ExitFailed, Turn, UseAndGoto, Use, Leave, DestroyDemod,
     Cancel, Return
<1>4. CASE Tells
  BY <1>4 DEF Tells, ExitDemod, ExitAgain, ExitWs, ExitRtl, Tell
<1>5. CASE Joins
  BY <1>5 DEF Joins, JoinDemod, JoinAgain, JoinWs, JoinRtl, Join
<1>6. CASE Frees
  BY <1>6 DEF Frees, FreeDemod, DestroyContext, FreeWs, FreeRtl, FreeScan,
     FreeCtrl, Free
<1>7. CASE Demod
  BY <1>7 DEF Demod, DemodTest, DemodWork, UseAndGoto, Use
<1>8. CASE Rtl
  BY <1>8 DEF Rtl, ReadBegins, Callback, Push, ReadEnds, Spin, UseAndGoto, Use
<1>9. CASE Ws
  BY <1>9 DEF Ws, WsTest, ServiceReturns, Receive, SetScan, Tune, Execute,
     UseAndGoto, Use
<1>10. CASE Outside
  BY <1>10 DEF Outside, CallbackReturns, Signal, Lose, Over, vars
<1>. QED
  BY <1>1, <1>2, <1>3, <1>4, <1>5, <1>6, <1>7, <1>8, <1>9, <1>10, StepKinds
     DEF Others

\* Where main is tells which threads may run.
LEMMA ThreadsNext == PlacesOK /\ ThreadsInv /\ [Next]_vars => ThreadsInv'
<1> SUFFICES ASSUME PlacesOK, ThreadsInv, [Next]_vars PROVE ThreadsInv'
  OBVIOUS
<1> USE DEF PlacesOK, ThreadsInv, BeforeRtl, BeforeScan, BeforeWs,
    BeforeContext, BeforeCtrl, AfterCtrl, AfterScan, AfterRtl, AfterWs,
    AfterContext, AfterDemod
<1>1. CASE Creates
  BY <1>1 DEF Creates, CreateDemod, CreateRtl, CreateScan, CreateWs,
     CreateContext, CreateCtrl, Create
<1>2. CASE Starts
  BY <1>2 DEF Starts, StartDemod, StartRtl, StartWs, Start
<1>3. CASE Moves
  BY <1>3 DEF Moves, ExitFailed, Turn, UseAndGoto, Use, Leave, DestroyDemod,
     Cancel, Return
<1>4. CASE Tells
  BY <1>4 DEF Tells, ExitDemod, ExitAgain, ExitWs, ExitRtl, Tell
<1>5. CASE Joins
  BY <1>5 DEF Joins, JoinDemod, JoinAgain, JoinWs, JoinRtl, Join
<1>6. CASE Frees
  BY <1>6 DEF Frees, FreeDemod, DestroyContext, FreeWs, FreeRtl, FreeScan,
     FreeCtrl, Free
<1>7. CASE Demod
  BY <1>7 DEF Demod, DemodTest, DemodWork, UseAndGoto, Use
<1>8. CASE Rtl
  BY <1>8 DEF Rtl, ReadBegins, Callback, Push, ReadEnds, Spin, UseAndGoto, Use
<1>9. CASE Ws
  BY <1>9 DEF Ws, WsTest, ServiceReturns, Receive, SetScan, Tune, Execute,
     UseAndGoto, Use
<1>10. CASE Outside
  BY <1>10 DEF Outside, CallbackReturns, Signal, Lose, Over, vars
<1>. QED
  BY <1>1, <1>2, <1>3, <1>4, <1>5, <1>6, <1>7, <1>8, <1>9, <1>10, StepKinds
     DEF Others

\* Signal, dongle and world.
LEMMA WorldNext == WorldOK /\ [Next]_vars => WorldOK'
<1> SUFFICES ASSUME WorldOK, [Next]_vars PROVE WorldOK'
  OBVIOUS
<1> USE DEF WorldOK
<1>1. CASE Creates
  BY <1>1 DEF Creates, CreateDemod, CreateRtl, CreateScan, CreateWs,
     CreateContext, CreateCtrl, Create
<1>2. CASE Starts
  BY <1>2 DEF Starts, StartDemod, StartRtl, StartWs, Start
<1>3. CASE Moves
  BY <1>3 DEF Moves, ExitFailed, Turn, UseAndGoto, Use, Leave, DestroyDemod,
     Cancel, Return
<1>4. CASE Tells
  BY <1>4 DEF Tells, ExitDemod, ExitAgain, ExitWs, ExitRtl, Tell
<1>5. CASE Joins
  BY <1>5 DEF Joins, JoinDemod, JoinAgain, JoinWs, JoinRtl, Join
<1>6. CASE Frees
  BY <1>6 DEF Frees, FreeDemod, DestroyContext, FreeWs, FreeRtl, FreeScan,
     FreeCtrl, Free
<1>7. CASE Demod
  BY <1>7 DEF Demod, DemodTest, DemodWork, UseAndGoto, Use
<1>8. CASE Rtl
  BY <1>8 DEF Rtl, ReadBegins, Callback, Push, ReadEnds, Spin, UseAndGoto, Use
<1>9. CASE Ws
  BY <1>9 DEF Ws, WsTest, ServiceReturns, Receive, SetScan, Tune, Execute,
     UseAndGoto, Use
<1>10. CASE Outside
  BY <1>10 DEF Outside, CallbackReturns, Signal, Lose, Over, vars
<1>. QED
  BY <1>1, <1>2, <1>3, <1>4, <1>5, <1>6, <1>7, <1>8, <1>9, <1>10, StepKinds
     DEF Others

\* A part is not freed and there.
LEMMA PartsTypeNext == PartsOK /\ PartsInv /\ [Next]_vars => PartsOK'
<1> SUFFICES ASSUME PartsOK, PartsInv, [Next]_vars PROVE PartsOK'
  OBVIOUS
<1> USE DEF PartsOK, PartsInv, Between, BeforeRtl, BeforeScan, BeforeWs,
    BeforeContext, BeforeCtrl, AfterCtrl, AfterScan, AfterRtl, AfterWs,
    AfterContext, AfterDemod
<1>1. CASE Creates
  <2>. USE DEF Create
  <2>1. CASE CreateDemod
    BY <2>1 DEF CreateDemod
  <2>2. CASE CreateRtl
    BY <2>2 DEF CreateRtl
  <2>3. CASE CreateScan
    BY <2>3 DEF CreateScan
  <2>4. CASE CreateWs
    BY <2>4 DEF CreateWs
  <2>5. CASE CreateContext
    BY <2>5 DEF CreateContext
  <2>6. CASE CreateCtrl
    BY <2>6 DEF CreateCtrl
  <2>. QED
    BY <1>1, <2>1, <2>2, <2>3, <2>4, <2>5, <2>6 DEF Creates
<1>2. CASE Starts
  BY <1>2 DEF Starts, StartDemod, StartRtl, StartWs, Start
<1>3. CASE Moves
  BY <1>3 DEF Moves, ExitFailed, Turn, UseAndGoto, Use, Leave, DestroyDemod,
     Cancel, Return
<1>4. CASE Tells
  BY <1>4 DEF Tells, ExitDemod, ExitAgain, ExitWs, ExitRtl, Tell
<1>5. CASE Joins
  BY <1>5 DEF Joins, JoinDemod, JoinAgain, JoinWs, JoinRtl, Join
<1>6. CASE Frees
  BY <1>6 DEF Frees, FreeDemod, DestroyContext, FreeWs, FreeRtl, FreeScan,
     FreeCtrl, Free
<1>7. CASE Demod
  BY <1>7 DEF Demod, DemodTest, DemodWork, UseAndGoto, Use
<1>8. CASE Rtl
  BY <1>8 DEF Rtl, ReadBegins, Callback, Push, ReadEnds, Spin, UseAndGoto, Use
<1>9. CASE Ws
  BY <1>9 DEF Ws, WsTest, ServiceReturns, Receive, SetScan, Tune, Execute,
     UseAndGoto, Use
<1>10. CASE Outside
  BY <1>10 DEF Outside, CallbackReturns, Signal, Lose, Over, vars
<1>. QED
  BY <1>1, <1>2, <1>3, <1>4, <1>5, <1>6, <1>7, <1>8, <1>9, <1>10, StepKinds
     DEF Others

\* Joins are counted; without commands nothing overwrites EXITING.
LEMMA JoinsNext ==
  PlacesOK /\ ThreadsOK /\ JoinsInv /\ [Next]_vars
    => JoinsInv'
<1> SUFFICES ASSUME PlacesOK, ThreadsOK, JoinsInv, [Next]_vars PROVE JoinsInv'
  OBVIOUS
<1> USE DEF PlacesOK, ThreadsOK, JoinsInv, BeforeRtl, BeforeScan, BeforeWs,
    BeforeContext, BeforeCtrl, AfterCtrl, AfterScan, AfterRtl, AfterWs,
    AfterContext, AfterDemod
<1>1. CASE Creates
  BY <1>1 DEF Creates, CreateDemod, CreateRtl, CreateScan, CreateWs,
     CreateContext, CreateCtrl, Create
<1>2. CASE Starts
  BY <1>2 DEF Starts, StartDemod, StartRtl, StartWs, Start
<1>3. CASE Moves
  BY <1>3 DEF Moves, ExitFailed, Turn, UseAndGoto, Use, Leave, DestroyDemod,
     Cancel, Return
<1>4. CASE Tells
  BY <1>4 DEF Tells, ExitDemod, ExitAgain, ExitWs, ExitRtl, Tell
<1>5. CASE Joins
  BY <1>5 DEF Joins, JoinDemod, JoinAgain, JoinWs, JoinRtl, Join
<1>6. CASE Frees
  BY <1>6 DEF Frees, FreeDemod, DestroyContext, FreeWs, FreeRtl, FreeScan,
     FreeCtrl, Free
<1>7. CASE Demod
  BY <1>7 DEF Demod, DemodTest, DemodWork, UseAndGoto, Use
<1>8. CASE Rtl
  BY <1>8 DEF Rtl, ReadBegins, Callback, Push, ReadEnds, Spin, UseAndGoto, Use
<1>9. CASE Ws
  BY <1>9 DEF Ws, WsTest, ServiceReturns, Receive, SetScan, Tune, Execute,
     UseAndGoto, Use
<1>10. CASE Outside
  BY <1>10 DEF Outside, CallbackReturns, Signal, Lose, Over, vars
<1>. QED
  BY <1>1, <1>2, <1>3, <1>4, <1>5, <1>6, <1>7, <1>8, <1>9, <1>10, StepKinds
     DEF Others

\* States and joins keep their types.
LEMMA ThreadsTypeNext ==
  PlacesOK /\ ThreadsOK /\ ThreadsInv /\ JoinsInv /\ [Next]_vars
    => ThreadsOK'
<1> SUFFICES ASSUME PlacesOK, ThreadsOK, ThreadsInv, JoinsInv, [Next]_vars
             PROVE  ThreadsOK'
  OBVIOUS
<1> USE DEF PlacesOK, ThreadsOK, ThreadsInv, JoinsInv, BeforeRtl, BeforeScan,
    BeforeWs, BeforeContext, BeforeCtrl, AfterCtrl, AfterScan, AfterRtl,
    AfterWs, AfterContext, AfterDemod
<1>1. CASE Creates
  BY <1>1 DEF Creates, CreateDemod, CreateRtl, CreateScan, CreateWs,
     CreateContext, CreateCtrl, Create
<1>2. CASE Starts
  BY <1>2 DEF Starts, StartDemod, StartRtl, StartWs, Start
<1>3. CASE Moves
  BY <1>3 DEF Moves, ExitFailed, Turn, UseAndGoto, Use, Leave, DestroyDemod,
     Cancel, Return
<1>4. CASE Tells
  BY <1>4 DEF Tells, ExitDemod, ExitAgain, ExitWs, ExitRtl, Tell
<1>5. CASE Joins
  BY <1>5 DEF Joins, JoinDemod, JoinAgain, JoinWs, JoinRtl, Join
<1>6. CASE Frees
  BY <1>6 DEF Frees, FreeDemod, DestroyContext, FreeWs, FreeRtl, FreeScan,
     FreeCtrl, Free
<1>7. CASE Demod
  BY <1>7 DEF Demod, DemodTest, DemodWork, UseAndGoto, Use
<1>8. CASE Rtl
  BY <1>8 DEF Rtl, ReadBegins, Callback, Push, ReadEnds, Spin, UseAndGoto, Use
<1>9. CASE Ws
  BY <1>9 DEF Ws, WsTest, ServiceReturns, Receive, SetScan, Tune, Execute,
     UseAndGoto, Use
<1>10. CASE Outside
  BY <1>10 DEF Outside, CallbackReturns, Signal, Lose, Over, vars
<1>. QED
  BY <1>1, <1>2, <1>3, <1>4, <1>5, <1>6, <1>7, <1>8, <1>9, <1>10, StepKinds
     DEF Others

\* What a running thread finds.
LEMMA RunningFinds ==
  ASSUME PlacesOK, PartsInv, ThreadsInv, Alive
  PROVE  /\ pc["rtl"] \notin {"none", "done"} => {"rtl", "ctrl"} \subseteq live
         /\ pc["ws"] \notin {"none", "done"}
              => {"rtl", "scan", "ws", "ctrl"} \subseteq live
         /\ pc["demod"] \notin {"none", "done"} => {"dem"} \subseteq live
         /\ pc["main"] = "loop" => Parts \subseteq live
<1> USE DEF PlacesOK, PartsInv, Between, ThreadsInv, MainLabels, BeforeRtl,
    BeforeScan, BeforeWs, BeforeContext, BeforeCtrl, AfterCtrl, AfterScan,
    AfterRtl, AfterWs, AfterContext, AfterDemod
<1>1. pc["rtl"] \notin {"none", "done"} => "rtl" \in live /\ "ctrl" \in live
  OBVIOUS
<1>2. pc["ws"] \notin {"none", "done"}
        => "rtl" \in live /\ "scan" \in live /\ "ws" \in live /\ "ctrl" \in live
  OBVIOUS
<1>3. pc["demod"] \notin {"none", "done"} => "dem" \in live
  OBVIOUS
<1>4. pc["main"] = "loop" => /\ "dem" \in live /\ "rtl" \in live
                            /\ "scan" \in live /\ "ws" \in live
                            /\ "context" \in live /\ "ctrl" \in live
  OBVIOUS
<1>. QED
  BY <1>1, <1>2, <1>3, <1>4

\* No step uses one of the four parts out of its time.
LEMMA OrderlyNext ==
  PlacesOK /\ PartsInv /\ ThreadsInv /\ OrderlyUse /\ [Next]_vars
    => OrderlyUse'
<1> SUFFICES ASSUME PlacesOK, PartsInv, ThreadsInv, OrderlyUse, [Next]_vars
             PROVE  OrderlyUse'
  OBVIOUS
<1> USE DEF OrderlyUse
<1>1. CASE Creates
  BY <1>1 DEF Creates, CreateDemod, CreateRtl, CreateScan, CreateWs,
     CreateContext, CreateCtrl, Create
<1>2. CASE Starts
  BY <1>2 DEF Starts, StartDemod, StartRtl, StartWs, Start
<1>3. CASE Moves
  <2>1. CASE Turn
    BY <2>1, RunningFinds DEF Turn, UseAndGoto, Use
  <2>2. CASE ExitFailed \/ Leave \/ DestroyDemod \/ Cancel \/ Return
    BY <2>2 DEF ExitFailed, Leave, DestroyDemod, Cancel, Return
  <2>. QED
    BY <1>3, <2>1, <2>2 DEF Moves
<1>4. CASE Tells
  BY <1>4 DEF Tells, ExitDemod, ExitAgain, ExitWs, ExitRtl, Tell
<1>5. CASE Joins
  BY <1>5 DEF Joins, JoinDemod, JoinAgain, JoinWs, JoinRtl, Join
<1>6. CASE Frees
  BY <1>6 DEF Frees, FreeDemod, DestroyContext, FreeWs, FreeRtl, FreeScan,
     FreeCtrl, Free
<1>7. CASE Demod
  BY <1>7 DEF Demod, DemodTest, DemodWork, UseAndGoto, Use
<1>8. CASE Rtl
  <2>1. CASE Callback \/ Push \/ Spin
    BY <2>1, RunningFinds DEF Callback, Push, Spin, UseAndGoto, Use
  <2>2. CASE ReadBegins \/ ReadEnds
    BY <2>2 DEF ReadBegins, ReadEnds
  <2>. QED
    BY <1>8, <2>1, <2>2 DEF Rtl
<1>9. CASE Ws
  BY <1>9, RunningFinds DEF Ws, WsTest, ServiceReturns, Receive, SetScan,
     Tune, Execute, UseAndGoto, Use
<1>10. CASE Outside
  BY <1>10 DEF Outside, CallbackReturns, Signal, Lose, Over, vars
<1>. QED
  BY <1>1, <1>2, <1>3, <1>4, <1>5, <1>6, <1>7, <1>8, <1>9, <1>10, StepKinds
     DEF Others

\* The invariant is inductive.
LEMMA NextInv == Inv /\ [Next]_vars => Inv'
  BY PlacesNext, PartsNext, ThreadsNext, WorldNext, PartsTypeNext, JoinsNext,
     ThreadsTypeNext, OrderlyNext DEF Inv, TypeOK

LEMMA Invariant == Spec => []Inv
  BY InitInv, NextInv, PTL DEF Spec

-----------------------------------------------------------------------------
(* The theorems.                                                           *)

\* Type correctness; a part is never there and freed at once.
THEOREM TypeCorrect == Spec => []TypeOK
<1>1. Inv => TypeOK
  BY DEF Inv
<1>. QED
  BY <1>1, Invariant, PTL

\* Whatever clients, dongle and signals do, only the demodulator and the
\* context are ever used before they are created or after they are freed.
THEOREM UsesAreOrderly == Spec => []OrderlyUse
<1>1. Inv => OrderlyUse
  BY DEF Inv
<1>. QED
  BY <1>1, Invariant, PTL

\* Without commands no thread is joined twice (demod.c:493-497): the state of
\* the demodulator is still EXITING when demod_destroy looks.
THEOREM JoinsAreSingle == Spec => []JoinedOnce
<1>1. Inv => JoinedOnce
  BY DEF Inv, JoinsInv, JoinedOnce
<1>. QED
  BY <1>1, Invariant, PTL

\* KeptUses, thread by thread.
LEMMA KeptUsesAre ==
  /\ KeptUses["demod"] = {"dem"}
  /\ KeptUses["rtl"] = {"rtl", "ctrl"}
  /\ KeptUses["ws"] = {"rtl", "scan", "ws", "ctrl"}
  BY DEF KeptUses

\* The initial state maps to the initial state.
LEMMA LifeInit == Init => Life!Init
  BY DEF Init, Life!Init

\* A step that leaves parts and threads as they are maps to a stutter.
LEMMA LifeStutters ==
  ASSUME PlacesOK, UNCHANGED <<live, freed>>, DOMAIN pc' = DOMAIN pc,
         \A t \in Threads : pc'[t] = pc[t] \/ /\ pc'[t] \notin {"none", "done"}
                                              /\ pc[t] \notin {"none", "done"}
  PROVE  UNCHANGED Life!vars
<1>1. Running' = Running
  OBVIOUS
<1>2. Stopped' = Stopped
  OBVIOUS
<1>. QED
  BY <1>1, <1>2 DEF Life!vars

\* The end of thread t maps to its Stop.
LEMMA LifeStops ==
  ASSUME PlacesOK, UNCHANGED <<live, freed>>, NEW t \in Threads,
         pc[t] \notin {"none", "done"}, pc' = [pc EXCEPT ![t] = "done"]
  PROVE  Life!Next
<1>1. Running' = Running \ {t}
  BY DEF PlacesOK
<1>2. Stopped' = Stopped \cup {t}
  BY DEF PlacesOK
<1>3. Life!Stop(t)
  BY <1>1, <1>2 DEF Life!Stop
<1>. QED
  BY <1>3 DEF Life!Next

\* The creation of a part maps to Create.
LEMMA LifeCreates ==
  ASSUME Inv, Creates PROVE Life!Next
<1> USE DEF Inv, TypeOK, PlacesOK, PartsInv, Between, BeforeRtl, BeforeScan,
    BeforeWs, BeforeContext, BeforeCtrl, AfterCtrl, AfterScan, AfterRtl,
    AfterWs, AfterContext, AfterDemod
<1>. SUFFICES ASSUME NEW p \in Parts, NEW from, NEW to, Create(p, from, to),
                     p \notin live \cup freed
              PROVE  Life!Next
  BY DEF Creates, CreateDemod, CreateRtl, CreateScan, CreateWs,
     CreateContext, CreateCtrl, Create
<1>1. Running' = Running /\ Stopped' = Stopped
  BY DEF Create
<1>2. Life!Create(p)
  BY <1>1 DEF Life!Create, Create
<1>. QED
  BY <1>2 DEF Life!Next

\* A free maps to Free: the users of the part have ended.
LEMMA LifeFrees ==
  ASSUME Inv, Frees PROVE Life!Next
<1> USE DEF Inv, TypeOK, PlacesOK, PartsInv, ThreadsInv, Between, BeforeRtl,
    BeforeScan, BeforeWs, BeforeContext, BeforeCtrl, AfterCtrl, AfterScan,
    AfterRtl, AfterWs, AfterContext, AfterDemod
<1>. SUFFICES ASSUME NEW p \in Parts, NEW from, NEW to, Free(p, from, to),
                     p \in live, \A t \in Running : p \notin KeptUses[t]
              PROVE  Life!Next
  <2>. USE KeptUsesAre DEF Free
  <2>1. CASE FreeDemod
    BY <2>1 DEF FreeDemod
  <2>2. CASE DestroyContext
    <3>1. Free("context", "destroyContext", "joinWs")
      BY <2>2 DEF DestroyContext
    <3>2. "context" \in live
      BY <3>1
    <3>3. \A t \in Threads : "context" \notin KeptUses[t]
      OBVIOUS
    <3>. QED
      BY <3>1, <3>2, <3>3
  <2>3. CASE FreeWs
    BY <2>3 DEF FreeWs
  <2>4. CASE FreeRtl
    BY <2>4 DEF FreeRtl
  <2>5. CASE FreeScan
    BY <2>5 DEF FreeScan
  <2>6. CASE FreeCtrl
    BY <2>6 DEF FreeCtrl
  <2>. QED
    BY <2>1, <2>2, <2>3, <2>4, <2>5, <2>6 DEF Frees
<1>1. Running' = Running /\ Stopped' = Stopped
  BY DEF Free
<1>2. Life!Free(p)
  BY <1>1 DEF Life!Free, Free
<1>. QED
  BY <1>2 DEF Life!Next

\* The start of a thread maps to Start: what it uses is there.
LEMMA LifeStarts ==
  ASSUME Inv, Starts PROVE Life!Next
<1>. SUFFICES ASSUME NEW t \in Threads, NEW from, NEW to, NEW first,
                     Start(t, from, to, first), pc[t] = "none",
                     first \notin {"none", "done"}, KeptUses[t] \subseteq live
              PROVE  Life!Next
  <2>. USE KeptUsesAre
       DEF Inv, TypeOK, PlacesOK, PartsInv, ThreadsInv, Between, BeforeRtl,
           BeforeScan, BeforeWs, BeforeContext, BeforeCtrl, AfterCtrl,
           AfterScan, AfterRtl, AfterWs, AfterContext, AfterDemod
  <2>1. CASE StartDemod
    <3>1. Start("demod", "startDemod", "startRtl", "test")
      BY <2>1 DEF StartDemod
    <3>2. pc["demod"] = "none"
      BY <3>1 DEF Start
    <3>3. KeptUses["demod"] \subseteq live
      BY <3>1 DEF Start
    <3>. QED
      BY <3>1, <3>2, <3>3
  <2>2. CASE StartRtl
    <3>1. Start("rtl", "startRtl", "startWs", "begin")
      BY <2>2 DEF StartRtl
    <3>2. pc["rtl"] = "none"
      BY <3>1 DEF Start
    <3>3. KeptUses["rtl"] \subseteq live
      BY <3>1 DEF Start
    <3>. QED
      BY <3>1, <3>2, <3>3
  <2>3. CASE StartWs
    <3>1. Start("ws", "startWs", "loop", "test")
      BY <2>3 DEF StartWs
    <3>2. pc["ws"] = "none"
      BY <3>1 DEF Start
    <3>3. KeptUses["ws"] \subseteq live
      BY <3>1 DEF Start
    <3>. QED
      BY <3>1, <3>2, <3>3
  <2>. QED
    BY <2>1, <2>2, <2>3 DEF Starts
<1>. USE DEF Inv, TypeOK, PlacesOK, Start
<1>1. Running' = Running \cup {t}
  OBVIOUS
<1>2. Stopped' = Stopped
  OBVIOUS
<1>3. Life!Start(t)
  BY <1>1, <1>2 DEF Life!Start
<1>. QED
  BY <1>3 DEF Life!Next

\* Every step maps to a step of Lifecycle or to a stutter.
LEMMA LifeNext == Inv /\ [Next]_vars => [Life!Next]_(Life!vars)
<1>. SUFFICES ASSUME Inv, [Next]_vars PROVE Life!Next \/ UNCHANGED Life!vars
  OBVIOUS
<1>. PlacesOK
  BY DEF Inv, TypeOK
<1>1. CASE Creates
  BY <1>1, LifeCreates
<1>2. CASE Starts
  BY <1>2, LifeStarts
<1>3. CASE Moves
  BY <1>3, LifeStutters DEF PlacesOK, Moves, ExitFailed, Turn, UseAndGoto,
     Use, Leave, DestroyDemod, Cancel, Return
<1>4. CASE Tells
  BY <1>4, LifeStutters DEF PlacesOK, Tells, ExitDemod, ExitAgain, ExitWs,
     ExitRtl, Tell
<1>5. CASE Joins
  BY <1>5, LifeStutters DEF PlacesOK, Joins, JoinDemod, JoinAgain, JoinWs,
     JoinRtl, Join
<1>6. CASE Frees
  BY <1>6, LifeFrees
<1>7. CASE Demod
  <2>1. CASE DemodTest
    <3>1. CASE pc' = [pc EXCEPT !["demod"] = "done"]
      BY <2>1, <3>1, LifeStops DEF DemodTest, UseAndGoto
    <3>2. CASE pc' # [pc EXCEPT !["demod"] = "done"]
      BY <2>1, <3>2, LifeStutters DEF PlacesOK, DemodTest, UseAndGoto, Use
    <3>. QED
      BY <3>1, <3>2
  <2>2. CASE DemodWork
    BY <2>2, LifeStutters DEF PlacesOK, DemodWork, Use
  <2>. QED
    BY <1>7, <2>1, <2>2 DEF Demod
<1>8. CASE Rtl
  <2>1. CASE Spin
    <3>1. CASE pc' = [pc EXCEPT !["rtl"] = "done"]
      BY <2>1, <3>1, LifeStops DEF Spin, UseAndGoto
    <3>2. CASE pc' # [pc EXCEPT !["rtl"] = "done"]
      BY <2>1, <3>2, LifeStutters DEF PlacesOK, Spin, UseAndGoto, Use
    <3>. QED
      BY <3>1, <3>2
  <2>2. CASE ReadBegins \/ Callback \/ Push \/ ReadEnds
    BY <2>2, LifeStutters DEF PlacesOK, ReadBegins, Callback, Push, ReadEnds,
       UseAndGoto, Use
  <2>. QED
    BY <1>8, <2>1, <2>2 DEF Rtl
<1>9. CASE Ws
  <2>1. CASE WsTest
    <3>1. CASE pc' = [pc EXCEPT !["ws"] = "done"]
      BY <2>1, <3>1, LifeStops DEF WsTest, UseAndGoto
    <3>2. CASE pc' # [pc EXCEPT !["ws"] = "done"]
      BY <2>1, <3>2, LifeStutters DEF PlacesOK, WsTest, UseAndGoto, Use
    <3>. QED
      BY <3>1, <3>2
  <2>2. CASE ServiceReturns \/ Receive \/ SetScan \/ Tune \/ Execute
    BY <2>2, LifeStutters DEF PlacesOK, ServiceReturns, Receive, SetScan,
       Tune, Execute, UseAndGoto, Use
  <2>. QED
    BY <1>9, <2>1, <2>2 DEF Ws
<1>10. CASE Outside
  BY <1>10, LifeStutters DEF PlacesOK, Outside, CallbackReturns, Signal, Lose,
     Over, vars
<1>. QED
  BY <1>1, <1>2, <1>3, <1>4, <1>5, <1>6, <1>7, <1>8, <1>9, <1>10, StepKinds
     DEF Others

\* The server implements Lifecycle (app.c:35-57): what a thread goes on using
\* is there before it starts and until it has ended.
THEOREM LifeImplements == Spec => LifeSpec
  BY LifeInit, LifeNext, Invariant, PTL DEF Spec, LifeSpec, Life!Spec
=============================================================================
