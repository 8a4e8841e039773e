------------------------------- MODULE Demod -------------------------------
(***************************************************************************)
(* The receive pipeline of demod.c and the threads that meet in it:        *)
(*                                                                         *)
(*   "rtl"    librtlsdr's callback: demod_push copies a block of samples   *)
(*   "demod"  _demod_thread_fn: measures, demodulates and squelches it     *)
(*   "main"   controller_execute: demod_pop_and_lock, send, demod_release; *)
(*            first controller_create, in the end demod_exit               *)
(*   "ws"     the websocket thread: controller_command, demod_execute      *)
(*                                                                         *)
(* There is one action per critical section, and one per lock where locks  *)
(* nest.  Mutexes that guard one assignment or one read and are never held *)
(* while a thread blocks (common_m, state_m, input_ready_m,                *)
(* output_ready_m) are folded into the step they guard.  A block of        *)
(* samples is the number of its arrival, its length stands for the sample  *)
(* rate it was resampled from, and the measured SNR for the outcome of the *)
(* squelch test.  Throughput is a figure nothing reads back: left out.     *)
(***************************************************************************)
EXTENDS Naturals

CONSTANTS
  Rates,       \* the sample rates of interest
  InitRate,    \* the rate controller_create sets
  NoRate,      \* no rate: before controller_create, or not in a command
  Commands,    \* the commands that may arrive: [rate, mode], absent options
               \* being NoRate and "NONE"
  MaxBlocks,   \* bound: block numbers saturate at this value
  Loudness,    \* what the squelch test may come to: BOOLEAN, or bound: {TRUE}
  Spurious     \* may pthread_cond_wait return without a signal?

ASSUME ConstantsAssumption ==
  /\ InitRate \in Rates
  /\ NoRate \notin Rates
  /\ Commands \subseteq
       [rate : Rates \cup {NoRate}, mode : {"FM", "AM", "NONE"}]
  /\ MaxBlocks \in Nat \ {0}
  /\ Loudness \subseteq BOOLEAN /\ Loudness # {}
  /\ Spurious \in BOOLEAN

VARIABLES
  mode,        \* common.mode
  inputRate,   \* common.input_rate
  chain,       \* the liquid-dsp objects of each mode: fm and am
  input,       \* the block in the input buffer, 0 while input_len is 0
  output,      \* the output buffer: block, output_len, zeroed by the squelch?
  snr,         \* metrics.snr: the block it was measured on, loud enough?
  state,       \* operational state
  holder,      \* which thread holds each mutex
  pc,          \* where each thread is
  dmode,       \* the demod thread's copy of the mode, while it has one
  cmd,         \* the command the websocket thread is carrying out
  len,         \* controller_execute: data_len, while it has one
  header,      \* controller_execute: the block whose SNR is in the header, 0
               \* when it has none
  sent,        \* controller_execute: the block it sent last
  exiting      \* app.c: has a signal been received?

vars == <<mode, inputRate, chain, input, output, snr, state, holder, pc,
          dmode, cmd, len, header, sent, exiting>>

config  == <<mode, inputRate, chain>>
buffers == <<input, output, snr>>
locals  == <<dmode, cmd, len, header, sent>>
status  == <<state, exiting>>

Modes   == {"FM", "AM"}
Threads == {"rtl", "demod", "main", "ws"}
Mutexes == {"metrics", "input", "output"} \cup Modes   \* fm_m, am_m by mode

NoCommand == [rate |-> NoRate, mode |-> "NONE"]
Saturate(n) == IF n < MaxBlocks THEN n ELSE MaxBlocks

-----------------------------------------------------------------------------
(* Control: a thread moves on, takes a mutex, gives one up, wakes another  *)
(* that waits on a condition variable.                                     *)

Goto(t, from, to) == pc[t] = from /\ pc' = [pc EXCEPT ![t] = to]
Free(m) == holder[m] = "none"
Lock(t, m) == Free(m) /\ holder' = [holder EXCEPT ![m] = t]
Unlock(ms) == holder' = [m \in Mutexes |-> IF m \in ms THEN "none" ELSE holder[m]]

\* safe_cond_signal: lost unless the waiter is in pthread_cond_wait already
Signal(t, from, to, waiter, woken) ==
  /\ pc[t] = from
  /\ pc' = [pc EXCEPT ![t] = to,
                      ![waiter] = IF @ = "waiting" THEN woken ELSE @]

Crashed == pc["demod"] = "crashed"

-----------------------------------------------------------------------------
Init ==
  /\ mode = "NONE"
  /\ inputRate = NoRate
  /\ chain = [m \in Modes |-> [st |-> "null", rate |-> NoRate]]
  /\ input = 0
  /\ output = [blk |-> 0, len |-> NoRate, quiet |-> FALSE]
  /\ snr = [blk |-> 0, loud |-> FALSE]
  /\ state = "HALTED"
  /\ holder = [m \in Mutexes |-> "none"]
  /\ pc = [t \in Threads |-> IF t = "main" THEN "create" ELSE "unborn"]
  /\ dmode = "NONE"
  /\ cmd = NoCommand
  /\ len = NoRate
  /\ header = 0
  /\ sent = 0
  /\ exiting = FALSE

-----------------------------------------------------------------------------
(* demod_execute, run by "main" from controller_create and by "ws" at the  *)
(* end of every command.                                                   *)

ExecuteResetUnlocked(t) ==
  /\ Goto(t, "execute", "teardown")
  /\ snr' = [blk |-> 0, loud |-> FALSE]
  /\ UNCHANGED <<config, input, output, status, holder, locals>>

ExecuteResetOutput(t) ==
  /\ Goto(t, "execute", "teardown")
  /\ Free("metrics")
  /\ snr' = [blk |-> 0, loud |-> FALSE]
  /\ output' = [output EXCEPT !.blk = 0]
  /\ UNCHANGED <<config, input, status, holder, locals>>

ExecuteReset(t) ==                 \* reset metrics, under metrics_m
  /\ Goto(t, "execute", "teardown")
  /\ Free("metrics")
  /\ snr' = [blk |-> 0, loud |-> FALSE]
  /\ UNCHANGED <<config, input, output, status, holder, locals>>

ExecuteTeardown(t) ==              \* destroys the objects, keeps the pointers
  /\ Goto(t, "teardown", "init")
  /\ Free(mode)
  /\ chain' = IF chain[mode].st = "null" THEN chain
               ELSE [chain EXCEPT ![mode] = [st |-> "destroyed", rate |-> @.rate]]
  /\ UNCHANGED <<mode, inputRate, buffers, status, holder, locals>>

ExecuteInitUnread(t) ==
  /\ Goto(t, "init", "spawn")
  /\ Free(mode)
  /\ chain' = [chain EXCEPT ![mode].st = "live"]
  /\ UNCHANGED <<mode, inputRate, buffers, status, holder, locals>>

ExecuteInit(t) ==                  \* creates them for the current rate
  /\ Goto(t, "init", "spawn")
  /\ Free(mode)
  /\ chain' = [chain EXCEPT ![mode] = [st |-> "live", rate |-> inputRate]]
  /\ UNCHANGED <<mode, inputRate, buffers, status, holder, locals>>

ExecuteSpawn(t) ==                 \* pthread_create, the first time
  /\ pc[t] = "spawn"
  /\ pc' = IF state = "HALTED"
             THEN [pc EXCEPT ![t] = "run", !["demod"] = "check"]
             ELSE [pc EXCEPT ![t] = "run"]
  /\ UNCHANGED <<config, buffers, status, holder, locals>>

ExecuteRun(t, next) ==
  /\ Goto(t, "run", next)
  /\ state' = "RUNNING"
  /\ UNCHANGED <<config, buffers, exiting, holder, locals>>

-----------------------------------------------------------------------------
(* "main": controller_create, then main's loop over controller_execute.    *)

Create ==
  /\ Goto("main", "create", "execute")
  /\ mode' = "FM"
  /\ inputRate' = InitRate
  /\ UNCHANGED <<chain, buffers, status, holder, locals>>

StartThreads ==                    \* rtl_execute, websocket_execute
  /\ pc["main"] = "start"
  /\ pc' = [pc EXCEPT !["main"] = "loop", !["rtl"] = "idle", !["ws"] = "idle"]
  /\ UNCHANGED <<config, buffers, status, holder, locals>>

LoopTest ==
  /\ pc["main"] = "loop"
  /\ \/ exiting /\ Goto("main", "loop", "exit")
     \/ ~exiting /\ Goto("main", "loop", "report")
  /\ UNCHANGED <<config, buffers, status, holder, locals>>

\* The header, when a heartbeat is due, and a running scanner read the
\* metrics under metrics_m; otherwise nothing is read.
Report ==
  /\ \/ Goto("main", "report", "pop")
     \/ Goto("main", "report", "getMetrics")
  /\ UNCHANGED <<config, buffers, status, holder, locals>>

GetMetrics ==
  /\ Goto("main", "getMetrics", "pop")
  /\ Free("metrics")
  /\ header' = snr.blk
  /\ UNCHANGED <<config, buffers, status, holder, dmode, cmd, len, sent>>

PopWait ==
  /\ Goto("main", "pop", "waiting")
  /\ UNCHANGED <<config, buffers, status, holder, locals>>

PopLen ==                          \* read before output_m is taken
  /\ Goto("main", "popLen", "popLock")
  /\ len' = output.len
  /\ UNCHANGED <<config, buffers, status, holder, dmode, cmd, header,
                 sent>>

PopNoLock ==
  /\ Goto("main", "popLock", "send")
  /\ sent' = output.blk
  /\ UNCHANGED <<config, buffers, status, holder, dmode, cmd, len, header>>

PopLock ==
  /\ Goto("main", "popLock", "send")
  /\ Lock("main", "output")
  /\ sent' = output.blk            \* what websocket_send then copies
  /\ UNCHANGED <<config, buffers, status, dmode, cmd, len, header>>

ReleaseForgotten ==
  /\ Goto("main", "send", "loop")
  /\ UNCHANGED <<config, buffers, status, holder, locals>>

Release ==
  /\ Goto("main", "send", "loop")
  /\ Unlock({"output"})
  /\ len' = NoRate /\ header' = 0    \* the locals are gone
  /\ UNCHANGED <<config, buffers, status, dmode, cmd, sent>>

ExitUnset ==
  /\ Goto("main", "exit", "join")
  /\ UNCHANGED <<config, buffers, status, holder, locals>>

Exit ==                            \* demod_exit
  /\ Goto("main", "exit", "join")
  /\ state' = "EXITING"
  /\ UNCHANGED <<config, buffers, exiting, holder, locals>>

Join ==
  /\ Goto("main", "join", "joined")
  /\ pc["demod"] = "done"
  /\ UNCHANGED <<config, buffers, status, holder, locals>>

-----------------------------------------------------------------------------
(* "rtl": demod_push, from the callback librtlsdr makes for every block.   *)

PushLock ==
  /\ Goto("rtl", "idle", "copy")
  /\ Lock("rtl", "input")
  /\ UNCHANGED <<config, buffers, status, locals>>

PushCopy ==
  /\ Goto("rtl", "copy", "signal")
  /\ input' = Saturate(input + 1)
  /\ Unlock({"input"})
  /\ UNCHANGED <<config, output, snr, status, locals>>

PushNoSignal ==
  /\ Goto("rtl", "signal", "idle")
  /\ UNCHANGED <<config, buffers, status, holder, locals>>

PushSignal ==
  /\ Signal("rtl", "signal", "idle", "demod", "lockMetrics")
  /\ UNCHANGED <<config, buffers, status, holder, locals>>

-----------------------------------------------------------------------------
(* "demod": one turn of _demod_thread_fn's loop.                           *)

ThreadTest ==
  /\ IF state = "EXITING" THEN Goto("demod", "check", "done")
                          ELSE Goto("demod", "check", "wait")
  /\ UNCHANGED <<config, buffers, status, holder, locals>>

ThreadNoWait ==
  /\ Goto("demod", "wait", "lockMetrics")
  /\ UNCHANGED <<config, buffers, status, holder, locals>>

ThreadWait ==
  /\ Goto("demod", "wait", "waiting")
  /\ UNCHANGED <<config, buffers, status, holder, locals>>

ThreadLock ==
  /\ \/ Goto("demod", "lockMetrics", "lockInput") /\ Lock("demod", "metrics")
     \/ Goto("demod", "lockInput", "lockOutput") /\ Lock("demod", "input")
     \/ Goto("demod", "lockOutput", "measure") /\ Lock("demod", "output")
  /\ UNCHANGED <<config, buffers, status, locals>>

MeasureSnr ==
  /\ Goto("demod", "measure", "getMode")
  /\ \E loud \in Loudness : snr' = [blk |-> input, loud |-> loud]
  /\ UNCHANGED <<config, input, output, status, holder, locals>>

GetMode ==
  /\ Goto("demod", "getMode", "lockChain")
  /\ dmode' = mode
  /\ UNCHANGED <<config, buffers, status, holder, cmd, len, header, sent>>

LockChain ==
  /\ Goto("demod", "lockChain", "demodulate")
  /\ Lock("demod", dmode)
  /\ UNCHANGED <<config, buffers, status, locals>>

Demodulate ==                      \* _demod_fm, _demod_am
  /\ Goto("demod", "demodulate", "squelch")
  /\ chain[dmode].st # "null"      \* a null resampler is dereferenced: Crash
  /\ output' = [blk |-> input, len |-> chain[dmode].rate, quiet |-> FALSE]
  /\ Unlock({dmode})
  /\ dmode' = "NONE"
  /\ UNCHANGED <<config, input, snr, status, cmd, len, header, sent>>

\* Objects that were never created or are destroyed already: undefined
\* behaviour.  The process dies here, or (destroyed) Demodulate survives it.
Crash ==
  /\ pc["demod"] = "demodulate"
  /\ chain[dmode].st # "live"
  /\ pc' = [t \in Threads |-> "crashed"]
  /\ UNCHANGED <<config, buffers, status, holder, locals>>

Squelch ==                         \* ... and unlock input_m, output_m
  /\ Goto("demod", "squelch", "unlock")
  /\ output' = [blk |-> output.blk, len |-> output.len, quiet |-> ~snr.loud]
  /\ Unlock({"input", "output"})
  /\ UNCHANGED <<config, input, snr, status, locals>>

MeasureKept ==
  /\ Goto("demod", "unlock", "publish")
  /\ UNCHANGED <<config, buffers, status, holder, locals>>

MeasureUnlock ==                   \* throughput, and unlock metrics_m
  /\ Goto("demod", "unlock", "publish")
  /\ Unlock({"metrics"})
  /\ UNCHANGED <<config, buffers, status, locals>>

Publish ==
  /\ Signal("demod", "publish", "check", "main", "popLen")
  /\ UNCHANGED <<config, buffers, status, holder, locals>>

-----------------------------------------------------------------------------
(* "ws": controller_command.  Changes of frequency and of the scanner do   *)
(* not touch the pipeline; every command ends in demod_execute.            *)

Receive ==
  /\ Goto("ws", "idle", "setRate")
  /\ cmd' \in Commands
  /\ UNCHANGED <<config, buffers, status, holder, dmode, len, header, sent>>

SetRate ==
  /\ Goto("ws", "setRate", "setMode")
  /\ inputRate' = IF cmd.rate = NoRate THEN inputRate ELSE cmd.rate
  /\ UNCHANGED <<mode, chain, buffers, status, holder, locals>>

SetModeOnly ==
  /\ Goto("ws", "setMode", "idle")
  /\ mode' = IF cmd.mode = "NONE" THEN mode ELSE cmd.mode
  /\ cmd' = NoCommand
  /\ UNCHANGED <<inputRate, chain, buffers, status, holder, dmode, len, header,
                 sent>>

SetMode ==
  /\ Goto("ws", "setMode", "execute")
  /\ mode' = IF cmd.mode = "NONE" THEN mode ELSE cmd.mode
  /\ cmd' = NoCommand
  /\ UNCHANGED <<inputRate, chain, buffers, status, holder, dmode, len, header,
                 sent>>

-----------------------------------------------------------------------------
SigHandler ==
  /\ ~exiting
  /\ exiting' = TRUE
  /\ UNCHANGED <<config, buffers, state, holder, pc, locals>>

\* POSIX lets pthread_cond_wait return although nobody signalled.
SpuriousWakeup ==
  /\ Spurious
  /\ \/ Goto("demod", "waiting", "lockMetrics")
     \/ Goto("main", "waiting", "popLen")
  /\ UNCHANGED <<config, buffers, status, holder, locals>>

Execute(t, next) ==
  ExecuteReset(t) \/ ExecuteTeardown(t) \/ ExecuteInit(t) \/ ExecuteSpawn(t)
    \/ ExecuteRun(t, next)

Main ==
  \/ Create \/ Execute("main", "start") \/ StartThreads
  \/ LoopTest \/ Report \/ GetMetrics \/ PopWait \/ PopLen \/ PopLock \/ Release
  \/ Exit \/ Join
Rtl == PushLock \/ PushCopy \/ PushSignal
Thread ==
  \/ ThreadTest \/ ThreadWait \/ ThreadLock \/ MeasureSnr \/ GetMode
  \/ LockChain \/ Demodulate \/ Crash \/ Squelch \/ MeasureUnlock \/ Publish
Command == SetRate \/ SetMode \/ Execute("ws", "idle")

Dead == Crashed /\ UNCHANGED vars     \* a crashed process takes no more steps

Next ==
  \/ Main \/ Rtl \/ Thread \/ Command
  \/ Receive \/ SigHandler \/ SpuriousWakeup
  \/ Dead

Spec == Init /\ [][Next]_vars

(***************************************************************************)
(* Every thread keeps running, and gets a mutex that is free again and     *)
(* again: between two blocks the demod thread blocks until the next USB    *)
(* transfer, far longer than a waiter needs to be scheduled.  Nothing is   *)
(* assumed of commands, signals and spurious wakeups.                      *)
(***************************************************************************)
Fairness ==
  SF_vars(Main) /\ SF_vars(Rtl) /\ SF_vars(Thread) /\ SF_vars(Command)

FairSpec == Spec /\ Fairness
-----------------------------------------------------------------------------
(* Properties.                                                             *)

MainLabels  == {"create", "execute", "teardown", "init", "spawn", "run",
                "start", "loop", "report", "getMetrics", "pop", "waiting",
                "popLen", "popLock", "send", "exit", "join", "joined",
                "crashed"}
DemodLabels == {"unborn", "check", "wait", "waiting", "lockMetrics",
                "lockInput", "lockOutput", "measure", "getMode", "lockChain",
                "demodulate", "squelch", "unlock", "publish", "done",
                "crashed"}
RtlLabels   == {"unborn", "idle", "copy", "signal", "crashed"}
WsLabels    == {"unborn", "idle", "setRate", "setMode", "execute", "teardown",
                "init", "spawn", "run", "crashed"}

Blocks == 0 .. MaxBlocks
Chain  == [st : {"null"}, rate : {NoRate}]
            \cup [st : {"live", "destroyed"}, rate : Rates]

\* Type invariant.  A chain that exists was built for a real rate.
TypeOK ==
  /\ mode \in Modes \cup {"NONE"}
  /\ inputRate \in Rates \cup {NoRate}
  /\ chain \in [Modes -> Chain]
  /\ input \in Blocks
  /\ output \in [blk : Blocks, len : Rates \cup {NoRate}, quiet : BOOLEAN]
  /\ snr \in [blk : Blocks, loud : BOOLEAN]
  /\ state \in {"HALTED", "RUNNING", "EXITING"}
  /\ holder \in [Mutexes -> Threads \cup {"none"}]
  /\ pc \in [Threads -> MainLabels \cup DemodLabels \cup RtlLabels \cup WsLabels]
  /\ pc["main"]  \in MainLabels
  /\ pc["demod"] \in DemodLabels
  /\ pc["rtl"]   \in RtlLabels
  /\ pc["ws"]    \in WsLabels
  /\ dmode \in Modes \cup {"NONE"}
  /\ cmd \in Commands \cup {NoCommand}
  /\ len \in Rates \cup {NoRate}
  /\ header \in Blocks
  /\ sent \in Blocks
  /\ exiting \in BOOLEAN

\* The SNR and the block it belongs to.  Whatever commands reset the metrics
\* and whatever blocks arrive meanwhile, from the measurement to the squelch
\* the thread works with the SNR of the block it demodulates, and when it has
\* let go of metrics_m they are reset, or those of the block in the output
\* buffer, which is silent just when they are below the threshold.  The SNR
\* the listener is shown need not be that of the block it is sent with: it is
\* read before main waits for that block.  But it is no older than what the
\* listener has heard by then, and no newer than what it is sent with.
MetricsDescribeOutput ==
  /\ pc["demod"] \in {"getMode", "lockChain", "demodulate", "squelch"}
       => snr.blk = input
  /\ pc["demod"] = "unlock" \/ (Free("metrics") /\ snr.blk # 0)
       => snr.blk = output.blk /\ output.quiet = ~snr.loud
  /\ header # 0 => IF pc["main"] = "send" THEN header <= sent
                                         ELSE header >= sent

\* No block is torn: the input buffer does not change from the moment the
\* demod thread has it locked until it lets go, and the output buffer does
\* not change while controller_execute sends it.
BuffersStable ==
  [][ /\ holder["input"] = "demod" => input' = input
      /\ pc["main"] = "send" => output' = output ]_vars

\* When controller_command has returned, the demodulator that runs is one
\* built for the mode and the input rate that are set, whatever the sequence
\* of commands: none leaves a chain behind that was built for an older rate.
ChangesApplied ==
  pc["ws"] = "idle" => chain[mode] = [st |-> "live", rate |-> inputRate]

\* The demod thread can meet a chain that is not usable (never created, or
\* destroyed) only while a command is rebuilding that very chain: outside
\* of demod_execute the pipeline never runs on freed objects.
ExposedOnlyDuringCommand ==
  pc["demod"] = "demodulate" /\ chain[dmode].st # "live"
    => pc["ws"] \in {"execute", "teardown", "init"} /\ dmode = mode

\* Thread t is about to take mutex m.
Wants(t, m) ==
  CASE m = "metrics" -> pc[t] \in {"execute", "getMetrics", "lockMetrics"}
    [] m = "input"   -> pc[t] = "lockInput" \/ (t = "rtl" /\ pc[t] = "idle")
    [] m = "output"  -> pc[t] \in {"popLock", "lockOutput"}
    [] OTHER         -> \/ pc[t] \in {"teardown", "init"} /\ m = mode
                        \/ pc[t] = "lockChain" /\ m = dmode

\* A mutex is waited for from its holder, a condition variable from the
\* thread that signals it, a join from the thread that is to end.
WaitsFor(t, u) ==
  \/ \E m \in Mutexes : Wants(t, m) /\ holder[m] = u
  \/ t = "demod" /\ u = "rtl"   /\ pc[t] = "waiting"
  \/ t = "main"  /\ u = "demod" /\ pc[t] \in {"waiting", "join"}

\* No group of threads waits for each other: the order metrics_m, input_m,
\* output_m, fm_m / am_m of the demod thread, the output_m controller_execute
\* keeps while it sends, and the two condition variables never close a cycle.
Waits == {e \in Threads \X Threads : WaitsFor(e[1], e[2])}
NoCircularWait ==
  LET waits == Waits IN
  \A S \in (SUBSET Threads) \ {{}} :
    \E t \in S : \A u \in S : <<t, u>> \notin waits

\* If pthread_cond_wait only returns when it was signalled, nothing is done
\* with a buffer that was never filled: the thread measures a block that was
\* pushed, and controller_execute pops a length that was produced.  (safe_
\* cond_wait has no predicate to check, so this rests on the wakeups alone.)
NothingFromNothing ==
  /\ pc["demod"] \in {"lockMetrics", "measure", "demodulate"} => input # 0
  /\ pc["main"] \in {"popLen", "send"} => output.len # NoRate

\* The pipeline implements LatestBlock: a block that has arrived is what is
\* in the input buffer, and what is sent never runs backwards, although the
\* signals that hand blocks from thread to thread are lost and repeated.
Pipe == INSTANCE LatestBlock WITH arrived <- input, delivered <- sent
PipeSpec == Pipe!Spec

\* Every block that arrives is overtaken by a send: the listener is given it
\* or a later one, unless the program is told to stop or dies.
Delivered ==
  \A k \in 1 .. MaxBlocks :
    input >= k ~> (sent >= k \/ exiting \/ Crashed)

\* controller_command always returns to the websocket thread, although it
\* takes the metrics mutex and the chain's from under the running pipeline.
CommandReturns == pc["ws"] = "setRate" ~> (pc["ws"] = "idle" \/ Crashed)

\* After SIGINT, SIGTERM, SIGQUIT or SIGPIPE main gets through demod_exit:
\* out of the wait for another block, the demod thread sees EXITING, out of
\* its own wait, and is joined, unless a command is run meanwhile.
ExitUndisturbed ==
  exiting /\ pc["main"] # "join" /\ pc["ws"] = "idle"
    ~> (pc["main"] = "joined" \/ Crashed \/ pc["ws"] # "idle")

\* app.c: "Signal received, exiting!"  The same whatever commands there are.
ExitCompletes == exiting ~> (pc["main"] = "joined" \/ Crashed)

\* demod_execute "is called to apply any changes to the modulation
\* parameters": until it has, the thread keeps to what was applied before,
\* so the chain it is about to run has been built and is not destroyed.
RunsAppliedChain ==
  pc["demod"] = "demodulate" => chain[dmode].st = "live"
=============================================================================
