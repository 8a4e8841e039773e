---------------------------- MODULE DemodProofs ----------------------------
(***************************************************************************)
(* Theorems about module Demod, for every set of rates and commands, every *)
(* bound on the block numbers, with and without spurious wakeups.          *)
(***************************************************************************)
EXTENDS Demod, TLAPS

USE DEF config, buffers, locals, status, Threads, Mutexes, Modes,
        Goto, Free, Lock, Unlock, Signal

-----------------------------------------------------------------------------
(* Type correctness.                                                       *)

\* A block number that is saturated stays within the bound, and no block is
\* numbered below the one before it.
LEMMA SaturateFacts ==
  ASSUME NEW n \in Blocks
  PROVE  Saturate(n + 1) \in Blocks /\ n <= Saturate(n + 1)
<1>1. MaxBlocks \in Nat
  BY ConstantsAssumption
<1>. QED
  BY <1>1 DEF Saturate, Blocks

\* Types need to know how the program starts: nothing is set before
\* controller_create, which runs alone until it has started the threads.
Startup ==
  /\ pc["main"] = "create" <=> mode = "NONE"
  /\ pc["main"] = "create" <=> inputRate = NoRate
  /\ pc["main"] \in {"create", "execute", "teardown", "init"}
       => \A m \in Modes : chain[m].st = "null"
  /\ pc["main"] \in {"create", "execute", "teardown", "init", "spawn"}
       => state = "HALTED" /\ pc["demod"] = "unborn"
  /\ pc["main"] \in {"create", "execute", "teardown", "init", "spawn", "run",
                     "start"}
       <=> pc["ws"] = "unborn"
  /\ pc["ws"] = "unborn" <=> pc["rtl"] = "unborn"
  /\ pc["main"] \in {"run", "start"} => pc["demod"] # "unborn"
  /\ pc["main"] = "start" => state # "HALTED"
  /\ pc["ws"] \notin {"unborn", "crashed"}
       => state # "HALTED" /\ pc["demod"] # "unborn"
  /\ pc["demod"] \in {"lockChain", "demodulate"} => dmode \in Modes

TypeInv == TypeOK /\ Startup

LEMMA InitType == Init => TypeInv
<1> SUFFICES ASSUME Init PROVE TypeInv
  OBVIOUS
<1> USE DEF Init
<1>1. /\ input \in Blocks /\ header \in Blocks /\ sent \in Blocks
      /\ output \in [blk : Blocks, len : Rates \cup {NoRate}, quiet : BOOLEAN]
      /\ snr \in [blk : Blocks, loud : BOOLEAN]
  BY ConstantsAssumption DEF Blocks
<1>2. chain \in [Modes -> Chain]
  BY DEF Chain
<1>3. pc \in [Threads -> MainLabels \cup DemodLabels \cup RtlLabels \cup WsLabels]
  BY DEF MainLabels, DemodLabels, RtlLabels, WsLabels
<1>4. TypeOK
  BY <1>1, <1>2, <1>3
     DEF TypeOK, MainLabels, DemodLabels, RtlLabels, WsLabels
<1>5. Startup
  BY ConstantsAssumption DEF Startup
<1>. QED
  BY <1>4, <1>5 DEF TypeInv

LEMMA NextType == TypeInv /\ [Next]_vars => TypeInv'
<1> SUFFICES ASSUME TypeInv, [Next]_vars PROVE TypeInv'
  OBVIOUS
<1> USE ConstantsAssumption
    DEF TypeInv, TypeOK, Startup, Chain, Blocks, MainLabels, DemodLabels,
        RtlLabels, WsLabels
<1>1. ASSUME NEW t \in {"main", "ws"}, ExecuteReset(t) PROVE TypeInv'
  BY <1>1 DEF ExecuteReset
<1>2. ASSUME NEW t \in {"main", "ws"}, ExecuteTeardown(t) PROVE TypeInv'
  BY <1>2 DEF ExecuteTeardown
<1>3. ASSUME NEW t \in {"main", "ws"}, ExecuteInit(t) PROVE TypeInv'
  BY <1>3 DEF ExecuteInit
<1>4. ASSUME NEW t \in {"main", "ws"}, ExecuteSpawn(t) PROVE TypeInv'
  BY <1>4 DEF ExecuteSpawn
<1>5. CASE ExecuteRun("main", "start") \/ ExecuteRun("ws", "idle")
  BY <1>5 DEF ExecuteRun
<1>6. CASE Create
  BY <1>6 DEF Create
<1>7. CASE StartThreads
  BY <1>7 DEF StartThreads
<1>8. CASE LoopTest
  BY <1>8 DEF LoopTest
<1>9. CASE Report
  BY <1>9 DEF Report
<1>10. CASE GetMetrics
  BY <1>10 DEF GetMetrics
<1>11. CASE PopWait
  BY <1>11 DEF PopWait
<1>12. CASE PopLen
  BY <1>12 DEF PopLen
<1>13. CASE PopLock
  BY <1>13 DEF PopLock
<1>14. CASE Release
  BY <1>14 DEF Release
<1>15. CASE Exit
  BY <1>15 DEF Exit
<1>16. CASE Join
  BY <1>16 DEF Join
<1>17. CASE PushLock
  BY <1>17 DEF PushLock
<1>18. CASE PushCopy
  <2>1. input' \in Blocks
    BY <1>18, SaturateFacts DEF PushCopy
  <2>. QED
    BY <1>18, <2>1 DEF PushCopy
<1>19. CASE PushSignal
  BY <1>19 DEF PushSignal
<1>20. CASE ThreadTest
  BY <1>20 DEF ThreadTest
<1>21. CASE ThreadWait
  BY <1>21 DEF ThreadWait
<1>22. CASE ThreadLock
  BY <1>22 DEF ThreadLock
<1>23. CASE MeasureSnr
  BY <1>23 DEF MeasureSnr
<1>24. CASE GetMode
  BY <1>24 DEF GetMode
<1>25. CASE LockChain
  BY <1>25 DEF LockChain
<1>26. CASE Demodulate
  BY <1>26 DEF Demodulate
<1>27. CASE Crash
  BY <1>27 DEF Crash
<1>28. CASE Squelch
  BY <1>28 DEF Squelch
<1>29. CASE MeasureUnlock
  BY <1>29 DEF MeasureUnlock
<1>30. CASE Publish
  BY <1>30 DEF Publish
<1>31. CASE Receive
  BY <1>31 DEF Receive, NoCommand
<1>32. CASE SetRate
  BY <1>32 DEF SetRate, NoCommand
<1>33. CASE SetMode
  BY <1>33 DEF SetMode, NoCommand
<1>34. CASE SigHandler
  BY <1>34 DEF SigHandler
<1>35. CASE SpuriousWakeup
  BY <1>35 DEF SpuriousWakeup
<1>36. CASE UNCHANGED vars
  BY <1>36 DEF vars
<1>. QED
  BY <1>1, <1>2, <1>3, <1>4, <1>5, <1>6, <1>7, <1>8, <1>9, <1>10,
     <1>11, <1>12, <1>13, <1>14, <1>15, <1>16, <1>17, <1>18, <1>19,
     <1>20, <1>21, <1>22, <1>23, <1>24, <1>25, <1>26, <1>27, <1>28,
     <1>29, <1>30, <1>31, <1>32, <1>33, <1>34, <1>35, <1>36
     DEF Next, Main, Execute, Rtl, Thread, Command, Dead

\* Every variable keeps to its type; in particular a chain that exists was
\* built for a real rate, whatever commands arrive while it is rebuilt.
THEOREM TypeCorrect == Spec => []TypeOK
<1>1. TypeInv => TypeOK
  BY DEF TypeInv
<1>. QED
  BY <1>1, InitType, NextType, PTL DEF Spec
-----------------------------------------------------------------------------
(* Who holds which mutex, by where the threads are.                        *)

LockInv ==
  /\ holder["metrics"] \in {"none", "demod"}
  /\ holder["metrics"] = "demod" <=>
       pc["demod"] \in {"lockInput", "lockOutput", "measure", "getMode",
                       "lockChain", "demodulate", "squelch", "unlock",
                       "crashed"}
  /\ holder["input"] \in {"none", "demod", "rtl"}
  /\ holder["input"] = "demod" <=>
       pc["demod"] \in {"lockOutput", "measure", "getMode", "lockChain",
                       "demodulate", "squelch", "crashed"}
  /\ holder["input"] = "rtl" <=> pc["rtl"] = "copy"
  /\ holder["output"] \in {"none", "demod", "main"}
  /\ holder["output"] = "demod" <=>
       pc["demod"] \in {"measure", "getMode", "lockChain", "demodulate",
                       "squelch", "crashed"}
  /\ holder["output"] = "main" <=> pc["main"] = "send"
  /\ \A m \in Modes :
       /\ holder[m] \in {"none", "demod"}
       /\ holder[m] = "demod" <=>
            pc["demod"] \in {"demodulate", "crashed"} /\ dmode = m
  /\ \A t \in Threads : pc[t] = "crashed" <=> Crashed

LEMMA InitLocks == Init => LockInv
BY DEF Init, LockInv, Crashed

LEMMA NextLocks == TypeInv /\ LockInv /\ [Next]_vars => LockInv'
<1> SUFFICES ASSUME TypeInv, LockInv, [Next]_vars PROVE LockInv'
  OBVIOUS
<1> USE DEF TypeInv, TypeOK, LockInv, Crashed
<1>1. ASSUME NEW t \in {"main", "ws"}, ExecuteReset(t) PROVE LockInv'
  BY <1>1 DEF ExecuteReset
<1>2. ASSUME NEW t \in {"main", "ws"}, ExecuteTeardown(t) PROVE LockInv'
  BY <1>2 DEF ExecuteTeardown
<1>3. ASSUME NEW t \in {"main", "ws"}, ExecuteInit(t) PROVE LockInv'
  BY <1>3 DEF ExecuteInit
<1>4. ASSUME NEW t \in {"main", "ws"}, ExecuteSpawn(t) PROVE LockInv'
  BY <1>4 DEF ExecuteSpawn, Startup
<1>5. CASE ExecuteRun("main", "start") \/ ExecuteRun("ws", "idle")
  BY <1>5 DEF ExecuteRun
<1>6. CASE Create
  BY <1>6 DEF Create
<1>7. CASE StartThreads
  BY <1>7 DEF StartThreads, Startup
<1>8. CASE LoopTest
  BY <1>8 DEF LoopTest
<1>9. CASE Report
  BY <1>9 DEF Report
<1>10. CASE GetMetrics
  BY <1>10 DEF GetMetrics
<1>11. CASE PopWait
  BY <1>11 DEF PopWait
<1>12. CASE PopLen
  BY <1>12 DEF PopLen
<1>13. CASE PopLock
  BY <1>13 DEF PopLock
<1>14. CASE Release
  BY <1>14 DEF Release
<1>15. CASE Exit
  BY <1>15 DEF Exit
<1>16. CASE Join
  BY <1>16 DEF Join
<1>17. CASE PushLock
  BY <1>17 DEF PushLock
<1>18. CASE PushCopy
  BY <1>18 DEF PushCopy
<1>19. CASE PushSignal
  BY <1>19 DEF PushSignal
<1>20. CASE ThreadTest
  BY <1>20 DEF ThreadTest
<1>21. CASE ThreadWait
  BY <1>21 DEF ThreadWait
<1>22. CASE ThreadLock
  BY <1>22 DEF ThreadLock
<1>23. CASE MeasureSnr
  BY <1>23 DEF MeasureSnr
<1>24. CASE GetMode
  BY <1>24 DEF GetMode
<1>25. CASE LockChain
  BY <1>25 DEF LockChain
<1>26. CASE Demodulate
  BY <1>26 DEF Demodulate
<1>27. CASE Crash
  BY <1>27 DEF Crash
<1>28. CASE Squelch
  BY <1>28 DEF Squelch
<1>29. CASE MeasureUnlock
  BY <1>29 DEF MeasureUnlock
<1>30. CASE Publish
  BY <1>30 DEF Publish
<1>31. CASE Receive
  BY <1>31 DEF Receive
<1>32. CASE SetRate
  BY <1>32 DEF SetRate
<1>33. CASE SetMode
  BY <1>33 DEF SetMode
<1>34. CASE SigHandler
  BY <1>34 DEF SigHandler
<1>35. CASE SpuriousWakeup
  BY <1>35 DEF SpuriousWakeup
<1>36. CASE UNCHANGED vars
  BY <1>36 DEF vars
<1>. QED
  BY <1>1, <1>2, <1>3, <1>4, <1>5, <1>6, <1>7, <1>8, <1>9, <1>10,
     <1>11, <1>12, <1>13, <1>14, <1>15, <1>16, <1>17, <1>18, <1>19,
     <1>20, <1>21, <1>22, <1>23, <1>24, <1>25, <1>26, <1>27, <1>28,
     <1>29, <1>30, <1>31, <1>32, <1>33, <1>34, <1>35, <1>36
     DEF Next, Main, Execute, Rtl, Thread, Command, Dead
-----------------------------------------------------------------------------
(* Threads never wait for each other in a circle.                          *)

\* Nobody waits for a thread that waits: the websocket thread holds nothing,
\* main holds output_m and librtlsdr's thread input_m only while they are
\* not blocked, and the demod thread gives everything up before it waits.
LEMMA NoCircle == TypeInv /\ LockInv => NoCircularWait
<1> SUFFICES ASSUME TypeInv, LockInv,
                    NEW S \in (SUBSET Threads) \ {{}},
                    \A t \in S : \E u \in S : WaitsFor(t, u)
             PROVE  FALSE
  BY DEF NoCircularWait, Waits
<1>1. \A t \in Threads : \A u \in Threads :
        WaitsFor(t, u) /\ t # "demod" => u = "demod"
  BY DEF WaitsFor, Wants, TypeInv, TypeOK, LockInv, Crashed, MainLabels,
         RtlLabels, WsLabels
<1>2. "demod" \in S
  <2>1. PICK t \in S : TRUE
    OBVIOUS
  <2>2. PICK u \in S : WaitsFor(t, u)
    BY <2>1
  <2>. QED
    BY <1>1, <2>1, <2>2
<1>3. PICK u \in S : WaitsFor("demod", u)
  BY <1>2
<1>4. \A v \in Threads : ~WaitsFor(u, v)
  BY <1>3 DEF WaitsFor, Wants, TypeInv, TypeOK, LockInv, Crashed, MainLabels,
         DemodLabels, RtlLabels, WsLabels
<1>. QED
  BY <1>4

\* No group of threads is ever blocked on itself, so the nesting of the
\* mutexes of demod.c and its condition variables cannot deadlock.
THEOREM DeadlockFree == Spec => []NoCircularWait
BY InitType, NextType, InitLocks, NextLocks, NoCircle, PTL DEF Spec
-----------------------------------------------------------------------------
(* The buffers stay as they are while somebody works on them.              *)

LEMMA StepStable ==
  ASSUME TypeInv, LockInv, [Next]_vars
  PROVE  /\ holder["input"] = "demod" => input' = input
         /\ pc["main"] = "send" => output' = output
<1> DEFINE Stable == /\ holder["input"] = "demod" => input' = input
                    /\ pc["main"] = "send" => output' = output
<1> USE DEF TypeInv, TypeOK, LockInv
<1>1. CASE PushCopy
  BY <1>1 DEF PushCopy
<1>2. CASE Demodulate
  BY <1>2 DEF Demodulate
<1>3. CASE Squelch
  BY <1>3 DEF Squelch
<1>4. CASE UNCHANGED <<input, output>>
  BY <1>4
<1>5. \/ PushCopy \/ Demodulate \/ Squelch
      \/ UNCHANGED <<input, output>>
  BY DEF Next, Main, Execute, Rtl, Thread, Command, Dead, vars, Create,
         ExecuteReset, ExecuteTeardown, ExecuteInit, ExecuteSpawn, ExecuteRun,
         StartThreads, LoopTest, Report, GetMetrics, PopWait, PopLen, PopLock,
         Release, Exit, Join, PushLock, PushSignal, ThreadTest, ThreadWait,
         ThreadLock, MeasureSnr, GetMode, LockChain, Crash, MeasureUnlock,
         Publish, Receive, SetRate, SetMode, SigHandler, SpuriousWakeup
<1>. QED
  BY <1>1, <1>2, <1>3, <1>4, <1>5

\* A block is neither overwritten while it is demodulated nor while it is
\* sent: input_m and output_m protect what they are there for.
THEOREM NoTornBlocks == Spec => BuffersStable
<1>1. TypeInv /\ LockInv /\ [Next]_vars
        => [ /\ holder["input"] = "demod" => input' = input
             /\ pc["main"] = "send" => output' = output ]_vars
  BY StepStable
<1>. QED
  BY <1>1, InitType, NextType, InitLocks, NextLocks, PTL
     DEF Spec, BuffersStable

-----------------------------------------------------------------------------
(* The pipeline implements LatestBlock.                                    *)

\* A block reaches the listener through the output buffer, which is filled
\* from the input buffer: each holds a block no newer than the one before.
Order == sent <= output.blk /\ output.blk <= input

LEMMA NextOrder ==
  ASSUME TypeInv, Order, [Next]_vars
  PROVE  Order' /\ [Pipe!Next]_<<input, sent>>
<1> USE DEF Pipe!Next, Pipe!Arrive, Pipe!Deliver
<1>1. input \in Nat /\ output.blk \in Nat /\ sent \in Nat
  BY ConstantsAssumption DEF TypeInv, TypeOK, Blocks
<1>2. CASE PushCopy
  <2>1. input' = Saturate(input + 1) /\ UNCHANGED <<output, sent>>
    BY <1>2 DEF PushCopy
  <2>2. input' = Pipe!Saturate(input + 1)
    BY <2>1 DEF Saturate, Pipe!Saturate
  <2>3. input' \in Nat /\ input <= input'
    BY <2>1, SaturateFacts, ConstantsAssumption DEF TypeInv, TypeOK, Blocks
  <2>. QED
    BY <1>1, <2>1, <2>2, <2>3 DEF Order
<1>3. CASE Demodulate
  <2>1. output'.blk = input /\ UNCHANGED <<input, sent>>
    BY <1>3 DEF Demodulate
  <2>. QED
    BY <1>1, <2>1 DEF Order
<1>4. CASE PopLock
  <2>1. sent' = output.blk /\ UNCHANGED <<input, output>>
    BY <1>4 DEF PopLock
  <2>. QED
    BY <1>1, <2>1 DEF Order
<1>5. CASE Squelch
  <2>1. output'.blk = output.blk /\ UNCHANGED <<input, sent>>
    BY <1>5 DEF Squelch
  <2>. QED
    BY <2>1 DEF Order
<1>6. CASE UNCHANGED <<input, output, sent>>
  BY <1>6 DEF Order
<1>7. \/ PushCopy \/ Demodulate \/ PopLock \/ Squelch
      \/ UNCHANGED <<input, output, sent>>
  BY DEF Next, Main, Execute, Rtl, Thread, Command, Dead, vars, Create,
         ExecuteReset, ExecuteTeardown, ExecuteInit, ExecuteSpawn, ExecuteRun,
         StartThreads, LoopTest, Report, GetMetrics, PopWait, PopLen, Release,
         Exit, Join, PushLock, PushSignal, ThreadTest, ThreadWait, ThreadLock,
         MeasureSnr, GetMode, LockChain, Crash, MeasureUnlock, Publish,
         Receive, SetRate, SetMode, SigHandler, SpuriousWakeup
<1>. QED
  BY <1>2, <1>3, <1>4, <1>5, <1>6, <1>7

\* Sample blocks are delivered in the order they arrived in, never one that
\* has not arrived and never one older than what was sent before: the four
\* threads with their buffers, mutexes and lost wakeups do what LatestBlock
\* does in two steps.
THEOREM PipeImplements == Spec => PipeSpec
<1>1. Init => Order /\ Pipe!Init
  BY DEF Init, Order, Pipe!Init
<1>2. TypeInv /\ Order /\ [Next]_vars => Order' /\ [Pipe!Next]_<<input, sent>>
  BY NextOrder
<1>. QED
  BY <1>1, <1>2, InitType, NextType, PTL
     DEF Spec, PipeSpec, Pipe!Spec, Pipe!vars

-----------------------------------------------------------------------------
(* The metrics and the output buffer belong together.                      *)

MetricsInv ==
  /\ pc["demod"] \in {"getMode", "lockChain", "demodulate", "squelch"}
       => snr.blk = input
  /\ pc["demod"] = "squelch" => output.blk = input
  /\ pc["demod"] = "unlock" \/ (Free("metrics") /\ snr.blk # 0)
       => snr.blk = output.blk /\ output.quiet = ~snr.loud

LEMMA InitMetrics == Init => MetricsInv
BY DEF Init, MetricsInv

LEMMA NextMetrics == TypeInv /\ LockInv /\ MetricsInv /\ [Next]_vars => MetricsInv'
<1> SUFFICES ASSUME TypeInv, LockInv, MetricsInv, [Next]_vars
             PROVE  MetricsInv'
  OBVIOUS
<1> USE DEF TypeInv, TypeOK, LockInv, MetricsInv
<1>1. ASSUME NEW t \in {"main", "ws"}, ExecuteReset(t) PROVE MetricsInv'
  BY <1>1 DEF ExecuteReset
<1>2. ASSUME NEW t \in {"main", "ws"}, ExecuteTeardown(t) PROVE MetricsInv'
  BY <1>2 DEF ExecuteTeardown
<1>3. ASSUME NEW t \in {"main", "ws"}, ExecuteInit(t) PROVE MetricsInv'
  BY <1>3 DEF ExecuteInit
<1>4. ASSUME NEW t \in {"main", "ws"}, ExecuteSpawn(t) PROVE MetricsInv'
  BY <1>4 DEF ExecuteSpawn
<1>5. CASE ExecuteRun("main", "start") \/ ExecuteRun("ws", "idle")
  BY <1>5 DEF ExecuteRun
<1>6. CASE Create
  BY <1>6 DEF Create
<1>7. CASE StartThreads
  BY <1>7 DEF StartThreads
<1>8. CASE LoopTest
  BY <1>8 DEF LoopTest
<1>9. CASE Report
  BY <1>9 DEF Report
<1>10. CASE GetMetrics
  BY <1>10 DEF GetMetrics
<1>11. CASE PopWait
  BY <1>11 DEF PopWait
<1>12. CASE PopLen
  BY <1>12 DEF PopLen
<1>13. CASE PopLock
  BY <1>13 DEF PopLock
<1>14. CASE Release
  BY <1>14 DEF Release
<1>15. CASE Exit
  BY <1>15 DEF Exit
<1>16. CASE Join
  BY <1>16 DEF Join
<1>17. CASE PushLock
  BY <1>17 DEF PushLock
<1>18. CASE PushCopy
  BY <1>18 DEF PushCopy
<1>19. CASE PushSignal
  BY <1>19 DEF PushSignal
<1>20. CASE ThreadTest
  BY <1>20 DEF ThreadTest
<1>21. CASE ThreadWait
  BY <1>21 DEF ThreadWait
<1>22. CASE ThreadLock
  BY <1>22 DEF ThreadLock
<1>23. CASE MeasureSnr
  BY <1>23 DEF MeasureSnr
<1>24. CASE GetMode
  BY <1>24 DEF GetMode
<1>25. CASE LockChain
  BY <1>25 DEF LockChain
<1>26. CASE Demodulate
  BY <1>26 DEF Demodulate
<1>27. CASE Crash
  BY <1>27 DEF Crash
<1>28. CASE Squelch
  BY <1>28 DEF Squelch
<1>29. CASE MeasureUnlock
  BY <1>29 DEF MeasureUnlock
<1>30. CASE Publish
  BY <1>30 DEF Publish
<1>31. CASE Receive
  BY <1>31 DEF Receive
<1>32. CASE SetRate
  BY <1>32 DEF SetRate
<1>33. CASE SetMode
  BY <1>33 DEF SetMode
<1>34. CASE SigHandler
  BY <1>34 DEF SigHandler
<1>35. CASE SpuriousWakeup
  BY <1>35 DEF SpuriousWakeup
<1>36. CASE UNCHANGED vars
  BY <1>36 DEF vars
<1>. QED
  BY <1>1, <1>2, <1>3, <1>4, <1>5, <1>6, <1>7, <1>8, <1>9, <1>10,
     <1>11, <1>12, <1>13, <1>14, <1>15, <1>16, <1>17, <1>18, <1>19,
     <1>20, <1>21, <1>22, <1>23, <1>24, <1>25, <1>26, <1>27, <1>28,
     <1>29, <1>30, <1>31, <1>32, <1>33, <1>34, <1>35, <1>36
     DEF Next, Main, Execute, Rtl, Thread, Command, Dead

\* The SNR in the header belongs to a block that was in the output buffer
\* when it was read, and a later block may be there when it is sent.
HeaderInv ==
  /\ header <= output.blk
  /\ header # 0 =>
       pc["main"] \in {"pop", "waiting", "popLen", "popLock", "send", "crashed"}
  /\ header # 0 /\ pc["main"] # "send" => header >= sent
  /\ pc["main"] = "send" => header <= sent

LEMMA InitHeader == Init => HeaderInv
BY DEF Init, HeaderInv

LEMMA NextHeader ==
  ASSUME TypeInv, LockInv, MetricsInv, Order, HeaderInv, [Next]_vars
  PROVE  HeaderInv'
<1>1. /\ input \in Nat /\ output.blk \in Nat /\ sent \in Nat /\ header \in Nat
      /\ snr.blk \in Nat
  BY ConstantsAssumption DEF TypeInv, TypeOK, Blocks
<1>2. CASE GetMetrics
  <2>1. /\ pc' = [pc EXCEPT !["main"] = "pop"] /\ pc["main"] = "getMetrics"
        /\ header' = snr.blk /\ holder["metrics"] = "none"
        /\ UNCHANGED <<output, sent>>
    BY <1>2 DEF GetMetrics
  <2>2. snr.blk # 0 => snr.blk = output.blk
    BY <2>1 DEF MetricsInv
  <2>3. pc'["main"] = "pop"
    BY <2>1 DEF TypeInv, TypeOK
  <2>. QED
    BY <1>1, <2>1, <2>2, <2>3 DEF HeaderInv, Order
<1>3. CASE PopLock
  <2>1. /\ pc' = [pc EXCEPT !["main"] = "send"]
        /\ sent' = output.blk /\ UNCHANGED <<output, header>>
    BY <1>3 DEF PopLock
  <2>2. pc'["main"] = "send"
    BY <2>1 DEF TypeInv, TypeOK
  <2>. QED
    BY <1>1, <2>1, <2>2 DEF HeaderInv
<1>4. CASE Release
  <2>1. header' = 0 /\ UNCHANGED <<output, sent>>
    BY <1>4 DEF Release
  <2>. QED
    BY <1>1, <2>1 DEF HeaderInv
<1>5. CASE Demodulate
  <2>1. output'.blk = input /\ UNCHANGED <<sent, header>>
    BY <1>5 DEF Demodulate
  <2>2. pc'["main"] = pc["main"]
    BY <1>5 DEF Demodulate, TypeInv, TypeOK
  <2>. QED
    BY <1>1, <2>1, <2>2 DEF HeaderInv, Order
<1>6. CASE Crash
  <2>1. pc' = [t \in Threads |-> "crashed"] /\ UNCHANGED <<output, sent, header>>
    BY <1>6 DEF Crash
  <2>2. pc["main"] # "send"
    BY <1>6 DEF Crash, LockInv
  <2>. QED
    BY <2>1, <2>2 DEF HeaderInv
<1>7. CASE Squelch
  <2>1. output'.blk = output.blk /\ UNCHANGED <<sent, header>>
    BY <1>7 DEF Squelch
  <2>2. pc'["main"] = pc["main"]
    BY <1>7 DEF Squelch, TypeInv, TypeOK
  <2>. QED
    BY <2>1, <2>2 DEF HeaderInv
<1>8. CASE /\ UNCHANGED <<output, sent, header>>
           /\ \/ pc'["main"] = pc["main"]
              \/ /\ pc["main"] \notin {"waiting", "send", "crashed"}
                 /\ pc["main"] \in {"pop", "popLen"}
                      => pc'["main"] \in {"waiting", "popLock"}
                 /\ pc'["main"] # "send" /\ pc["main"] # "popLock"
              \/ pc["main"] = "waiting" /\ pc'["main"] = "popLen"
  BY <1>8 DEF HeaderInv
<1>9. \/ GetMetrics \/ PopLock \/ Release \/ Demodulate \/ Crash \/ Squelch
      \/ /\ UNCHANGED <<output, sent, header>>
         /\ \/ pc'["main"] = pc["main"]
            \/ /\ pc["main"] \notin {"waiting", "send", "crashed"}
               /\ pc["main"] \in {"pop", "popLen"}
                    => pc'["main"] \in {"waiting", "popLock"}
               /\ pc'["main"] # "send" /\ pc["main"] # "popLock"
            \/ pc["main"] = "waiting" /\ pc'["main"] = "popLen"
  BY DEF TypeInv, TypeOK, Next, Main, Execute, Rtl, Thread, Command, Dead,
         vars, Create,
         ExecuteReset, ExecuteTeardown, ExecuteInit, ExecuteSpawn, ExecuteRun,
         StartThreads, LoopTest, Report, PopWait, PopLen, Exit, Join, PushLock,
         PushCopy, PushSignal, ThreadTest, ThreadWait, ThreadLock, MeasureSnr,
         GetMode, LockChain, MeasureUnlock, Publish, Receive, SetRate, SetMode,
         SigHandler, SpuriousWakeup
<1>. QED
  BY <1>2, <1>3, <1>4, <1>5, <1>6, <1>7, <1>8, <1>9

\* Whoever takes metrics_m finds metrics that were reset or that belong to
\* the block in the output buffer, and the squelch judged that block; what
\* main puts in the header is no older than the block heard last and no newer
\* than the block it goes out with.
THEOREM MetricsAgree == Spec => []MetricsDescribeOutput
<1>1. Init => Order
  BY DEF Init, Order
<1>2. TypeInv /\ Order /\ [Next]_vars => Order'
  BY NextOrder
<1>3. MetricsInv /\ HeaderInv => MetricsDescribeOutput
  BY DEF MetricsInv, HeaderInv, MetricsDescribeOutput
<1>4. TypeInv /\ LockInv /\ MetricsInv /\ Order /\ HeaderInv /\ [Next]_vars
        => HeaderInv'
  BY NextHeader
<1>. QED
  BY <1>1, <1>2, <1>3, <1>4, InitType, NextType, InitLocks, NextLocks,
     InitMetrics, NextMetrics, InitHeader, PTL DEF Spec

-----------------------------------------------------------------------------
(* What demod_execute does to the chains.                                  *)

\* The thread that runs demod_execute: main, then the websocket thread.
ChainInv ==
  /\ pc["main"] \in {"spawn", "run", "start"}
       \/ pc["ws"] \in {"idle", "setRate", "spawn", "run"}
       => chain[mode] = [st |-> "live", rate |-> inputRate]
  /\ pc["ws"] = "setMode" => chain[mode].st = "live"
  /\ \A m \in Modes :
       chain[m].st = "destroyed" => pc["ws"] \in {"init", "crashed"} /\ m = mode
  /\ dmode \in Modes /\ chain[dmode].st = "null"
       => pc["ws"] \in {"execute", "teardown", "init", "crashed"} /\ dmode = mode

LEMMA InitChains == Init => ChainInv
BY DEF Init, ChainInv

LEMMA NextChains == TypeInv /\ LockInv /\ ChainInv /\ [Next]_vars => ChainInv'
<1> SUFFICES ASSUME TypeInv, LockInv, ChainInv, [Next]_vars
             PROVE  ChainInv'
  OBVIOUS
<1> USE DEF TypeInv, TypeOK, Chain, Startup, LockInv, ChainInv
<1>1. ASSUME NEW t \in {"main", "ws"}, ExecuteReset(t) PROVE ChainInv'
  BY <1>1 DEF ExecuteReset
<1>2. ASSUME NEW t \in {"main", "ws"}, ExecuteTeardown(t) PROVE ChainInv'
  BY <1>2 DEF ExecuteTeardown
<1>3. ASSUME NEW t \in {"main", "ws"}, ExecuteInit(t) PROVE ChainInv'
  BY <1>3 DEF ExecuteInit
<1>4. ASSUME NEW t \in {"main", "ws"}, ExecuteSpawn(t) PROVE ChainInv'
  BY <1>4 DEF ExecuteSpawn
<1>5. CASE ExecuteRun("main", "start") \/ ExecuteRun("ws", "idle")
  BY <1>5 DEF ExecuteRun
<1>6. CASE Create
  BY <1>6 DEF Create
<1>7. CASE StartThreads
  BY <1>7 DEF StartThreads
<1>8. CASE LoopTest
  BY <1>8 DEF LoopTest
<1>9. CASE Report
  BY <1>9 DEF Report
<1>10. CASE GetMetrics
  BY <1>10 DEF GetMetrics
<1>11. CASE PopWait
  BY <1>11 DEF PopWait
<1>12. CASE PopLen
  BY <1>12 DEF PopLen
<1>13. CASE PopLock
  BY <1>13 DEF PopLock
<1>14. CASE Release
  BY <1>14 DEF Release
<1>15. CASE Exit
  BY <1>15 DEF Exit
<1>16. CASE Join
  BY <1>16 DEF Join
<1>17. CASE PushLock
  BY <1>17 DEF PushLock
<1>18. CASE PushCopy
  BY <1>18 DEF PushCopy
<1>19. CASE PushSignal
  BY <1>19 DEF PushSignal
<1>20. CASE ThreadTest
  BY <1>20 DEF ThreadTest
<1>21. CASE ThreadWait
  BY <1>21 DEF ThreadWait
<1>22. CASE ThreadLock
  BY <1>22 DEF ThreadLock
<1>23. CASE MeasureSnr
  BY <1>23 DEF MeasureSnr
<1>24. CASE GetMode
  BY <1>24 DEF GetMode, MainLabels, WsLabels
<1>25. CASE LockChain
  BY <1>25 DEF LockChain
<1>26. CASE Demodulate
  BY <1>26 DEF Demodulate
<1>27. CASE Crash
  BY <1>27 DEF Crash
<1>28. CASE Squelch
  BY <1>28 DEF Squelch
<1>29. CASE MeasureUnlock
  BY <1>29 DEF MeasureUnlock
<1>30. CASE Publish
  BY <1>30 DEF Publish
<1>31. CASE Receive
  BY <1>31 DEF Receive
<1>32. CASE SetRate
  BY <1>32 DEF SetRate
<1>33. CASE SetMode
  BY <1>33 DEF SetMode
<1>34. CASE SigHandler
  BY <1>34 DEF SigHandler
<1>35. CASE SpuriousWakeup
  BY <1>35 DEF SpuriousWakeup
<1>36. CASE UNCHANGED vars
  BY <1>36 DEF vars
<1>. QED
  BY <1>1, <1>2, <1>3, <1>4, <1>5, <1>6, <1>7, <1>8, <1>9, <1>10,
     <1>11, <1>12, <1>13, <1>14, <1>15, <1>16, <1>17, <1>18, <1>19,
     <1>20, <1>21, <1>22, <1>23, <1>24, <1>25, <1>26, <1>27, <1>28,
     <1>29, <1>30, <1>31, <1>32, <1>33, <1>34, <1>35, <1>36
     DEF Next, Main, Execute, Rtl, Thread, Command, Dead

\* A command that has returned has left the chain of the current mode ready
\* for the current rate, for every sequence of commands.
THEOREM CommandsApplied == Spec => []ChangesApplied
<1>1. ChainInv => ChangesApplied
  BY DEF ChainInv, ChangesApplied
<1>. QED
  BY <1>1, InitType, NextType, InitLocks, NextLocks, InitChains, NextChains,
     PTL DEF Spec

\* The pipeline can only run into a chain that is not usable while a command
\* is between setting the mode and having built the chain for it.
THEOREM CrashNeedsCommand == Spec => []ExposedOnlyDuringCommand
<1>1. TypeInv /\ LockInv /\ ChainInv => ExposedOnlyDuringCommand
  BY DEF TypeInv, TypeOK, Startup, Chain, LockInv, Crashed, ChainInv,
         ExposedOnlyDuringCommand
<1>. QED
  BY <1>1, InitType, NextType, InitLocks, NextLocks, InitChains, NextChains,
     PTL DEF Spec

-----------------------------------------------------------------------------
(* With wakeups that are real, buffers are filled before they are used.    *)

FilledInv ==
  /\ pc["rtl"] = "signal" => input # 0
  /\ pc["demod"] \in {"lockMetrics", "lockInput", "lockOutput", "measure",
                      "getMode", "lockChain", "demodulate"} => input # 0
  /\ pc["demod"] \in {"squelch", "unlock", "publish"} => output.len # NoRate
  /\ pc["main"] \in {"popLen", "popLock", "send"} => output.len # NoRate

LEMMA InitFilled == Init => FilledInv
BY DEF Init, FilledInv

LEMMA NextFilled ==
  ~Spurious /\ TypeInv /\ FilledInv /\ [Next]_vars => FilledInv'
<1> SUFFICES ASSUME ~Spurious, TypeInv, FilledInv, [Next]_vars
             PROVE  FilledInv'
  OBVIOUS
<1> USE ConstantsAssumption
    DEF TypeInv, TypeOK, Chain, Startup, Blocks, FilledInv
<1>1. ASSUME NEW t \in {"main", "ws"}, ExecuteReset(t) PROVE FilledInv'
  BY <1>1 DEF ExecuteReset
<1>2. ASSUME NEW t \in {"main", "ws"}, ExecuteTeardown(t) PROVE FilledInv'
  BY <1>2 DEF ExecuteTeardown
<1>3. ASSUME NEW t \in {"main", "ws"}, ExecuteInit(t) PROVE FilledInv'
  BY <1>3 DEF ExecuteInit
<1>4. ASSUME NEW t \in {"main", "ws"}, ExecuteSpawn(t) PROVE FilledInv'
  BY <1>4 DEF ExecuteSpawn
<1>5. CASE ExecuteRun("main", "start") \/ ExecuteRun("ws", "idle")
  BY <1>5 DEF ExecuteRun
<1>6. CASE Create
  BY <1>6 DEF Create
<1>7. CASE StartThreads
  BY <1>7 DEF StartThreads
<1>8. CASE LoopTest
  BY <1>8 DEF LoopTest
<1>9. CASE Report
  BY <1>9 DEF Report
<1>10. CASE GetMetrics
  BY <1>10 DEF GetMetrics
<1>11. CASE PopWait
  BY <1>11 DEF PopWait
<1>12. CASE PopLen
  BY <1>12 DEF PopLen
<1>13. CASE PopLock
  BY <1>13 DEF PopLock
<1>14. CASE Release
  BY <1>14 DEF Release
<1>15. CASE Exit
  BY <1>15 DEF Exit
<1>16. CASE Join
  BY <1>16 DEF Join
<1>17. CASE PushLock
  BY <1>17 DEF PushLock
<1>18. CASE PushCopy
  BY <1>18 DEF PushCopy, Saturate
<1>19. CASE PushSignal
  BY <1>19 DEF PushSignal
<1>20. CASE ThreadTest
  BY <1>20 DEF ThreadTest
<1>21. CASE ThreadWait
  BY <1>21 DEF ThreadWait
<1>22. CASE ThreadLock
  BY <1>22 DEF ThreadLock
<1>23. CASE MeasureSnr
  BY <1>23 DEF MeasureSnr
<1>24. CASE GetMode
  BY <1>24 DEF GetMode
<1>25. CASE LockChain
  BY <1>25 DEF LockChain
<1>26. CASE Demodulate
  BY <1>26 DEF Demodulate
<1>27. CASE Crash
  BY <1>27 DEF Crash
<1>28. CASE Squelch
  BY <1>28 DEF Squelch
<1>29. CASE MeasureUnlock
  BY <1>29 DEF MeasureUnlock
<1>30. CASE Publish
  BY <1>30 DEF Publish
<1>31. CASE Receive
  BY <1>31 DEF Receive
<1>32. CASE SetRate
  BY <1>32 DEF SetRate
<1>33. CASE SetMode
  BY <1>33 DEF SetMode
<1>34. CASE SigHandler
  BY <1>34 DEF SigHandler
<1>35. CASE SpuriousWakeup
  BY <1>35 DEF SpuriousWakeup
<1>36. CASE UNCHANGED vars
  BY <1>36 DEF vars
<1>. QED
  BY <1>1, <1>2, <1>3, <1>4, <1>5, <1>6, <1>7, <1>8, <1>9, <1>10,
     <1>11, <1>12, <1>13, <1>14, <1>15, <1>16, <1>17, <1>18, <1>19,
     <1>20, <1>21, <1>22, <1>23, <1>24, <1>25, <1>26, <1>27, <1>28,
     <1>29, <1>30, <1>31, <1>32, <1>33, <1>34, <1>35, <1>36
     DEF Next, Main, Execute, Rtl, Thread, Command, Dead

\* safe_cond_wait checks no predicate; if pthread_cond_wait never returns
\* without a signal, that is enough for the first turns to be safe.
THEOREM FilledBeforeUsed == ~Spurious => (Spec => []NothingFromNothing)
<1> SUFFICES ASSUME ~Spurious PROVE Spec => []NothingFromNothing
  OBVIOUS
<1>1. TypeInv /\ FilledInv /\ [Next]_vars => FilledInv'
  BY NextFilled
<1>2. FilledInv => NothingFromNothing
  BY DEF FilledInv, NothingFromNothing
<1>. QED
  BY <1>1, <1>2, InitType, NextType, InitFilled, PTL DEF Spec

=============================================================================
