# RTL and Liquid: models, checks and proofs

RTL and Liquid is a software radio: a C server reads samples from an RTL-SDR dongle,
demodulates them with liquid-dsp and sends the sound to a browser, whose buttons send
commands back.  The server runs four threads that meet in one structure; the browser
code runs callbacks that meet in one queue, timers and events that meet in one status,
and tabs that share a radio.  This directory holds TLA+ modules of the parts where
threads, callbacks and commands meet, the TLC configurations that check them, and
TLAPS proofs.

    tlc -config Demod_safety.cfg MCDemod      (and so on, see "Runs")
    tlapm DemodProofs.tla

## The system

| Part | State | Operations | Interacts with |
|---|---|---|---|
| `app.c` | `exiting` | main loop, signal handler, destruction | calls everything below |
| `controller.c` | heartbeat time | `controller_create`, `controller_execute` (one turn of the loop: header, scanner, pop, send, release), `controller_command` | main's thread and, for commands, the websocket thread |
| `demod.c` | mode, rates, frequency (`common_m`); the objects of each mode (`fm_m`, `am_m`); input and output buffer; metrics; state | `push`, thread loop, `pop_and_lock`, `release`, `execute`, `exit`, getters and setters | all four threads |
| `rtl.c` | the device, one buffer, state | callback for every block; tune, rate, gain; cancel and join | pushes into demod; tuned by two threads |
| `scanner.c` | mode, start frequency, last station, time of the last step (`common_m`) | `execute` once per turn of main's loop, `set_mode` from commands | tunes demod and dongle, reads the SNR |
| `websocket.c` | one message and its size (`output_m`), a semaphore, the primary connection | `send` from main; callbacks of libwebsockets in its own thread | runs the commands |
| `app.jsx` | `buffers`, `cursor`, `semaphore` | `onMessage`, `onaudioprocess` | fed by the websocket; gives heartbeats to `modulations.jsx` |
| `connector.jsx`, `client.jsx` | status, address, socket | connect, disconnect, send | events of the socket, timers |
| `modulations.jsx`, `am.jsx`, `fm.jsx`, `settings.jsx` | tab, heartbeat, station lists, sample rate | clicks become commands; a heartbeat records a station | `client.jsx` |
| `frequency-tuner.jsx` | the frequency being dragged | mouse events, drawing | `am.jsx`, `fm.jsx` |

What is hard here:

- **Condition variables without a predicate.**  `safe_cond_wait` waits for a signal,
  not for a state: a signal is lost when nobody waits, and one may come for what has
  been taken already.
- **State read before a lock and used after it.**  `demod_pop_and_lock` reads the
  length, `scanner_execute` nearly everything it works with, the websocket callback
  compares with `output_size` after the unlock.
- **Two threads that reconfigure a running pipeline.**  A command sets the mode, tears
  objects down and creates others while blocks keep coming; main tunes for the scanner
  while the websocket thread tunes for the user.
- **Shutdown**: main waits for a block before it looks at `exiting`, a command can
  turn EXITING back into RUNNING, and parts are freed while threads still run.
- **Two ends that only tell each other differences.**  The interface sends mode and
  frequency as two commands and either may be refused without an answer; what it
  learns comes in headers of which any may be overwritten before it is sent.
- **Late answers.**  The status of the connection is set a quarter of a second after
  the event, the frequency a second after a change of rate, by timers that outlive
  what they were started for.

What makes each part right: blocks reach the listener in order and whole; the squelch
goes by the SNR of its block, and the SNR shown is no older than what was heard;
nobody deadlocks; after a command the chain that runs is the one asked for; a scan
covers the band and ends; demodulator and dongle are at one frequency unless there is
a reason; no message is forgotten; the sound is continuous and in order; a part is
freed after its last use; the status is that of the socket; a station on the list is a
station.  `PROJECT.json` lists every hazard with its line and the property that would
catch it.

## Modules

`LatestBlock` is the abstract promise of the pipeline: numbered blocks arrive, the
listener is handed blocks that have arrived, never one older than before. Blocks may
be skipped or repeated.  Both hand-overs of the server implement it.

`Demod` is the pipeline with its four threads: `rtl` (`demod_push`), `demod`
(`_demod_thread_fn`), `main` (`controller_create`, the loop, `demod_exit`) and `ws`
(`controller_command` as far as it changes the pipeline, `demod_execute`).  There is
one action per critical section and one per lock where locks nest; `pc` says where
each thread is, `holder` who has each mutex, and the wait of a condition variable is a
place a thread stays in until `Signal` (or a spurious wakeup) moves it.  Data:

- a block is the number of its arrival (it saturates at `MaxBlocks`); the output
  buffer remembers the block it was made from, for which rate, and whether the squelch
  zeroed it; `snr` is the block it was measured on and whether it was loud (which of
  the two is a choice among `Loudness`); `header` is the block whose SNR main has put
  into the header, before it waits for the block that goes out with it;
- `chain[m]` is what `fm->...`, `am->...` point to: `null`, `live` for a rate, or
  `destroyed` (the pointers are kept).  To run a chain that is null or destroyed is
  undefined behaviour: the process dies (`Crash`), or, on destroyed objects, goes on
  (`Demodulate`).
- The mutexes `common_m`, `state_m`, `input_ready_m` and `output_ready_m` guard one
  assignment or a signal and are folded into that step.  The read of metrics in a turn
  of the loop (up to three of them) is one action, `GetMetrics`.
- `metrics_m` is never initialised in `demod_create`; it is modelled as a working
  mutex, which it is where fresh memory is zero.  Throughput is left out.
- A spurious wakeup before the first block is modelled as a turn that works on block
  0, with either outcome of the squelch; what the arithmetic makes of an empty buffer
  on the way is left out.

`Tuning` is everything that tunes: `scanner_execute`, with one action for each read it
makes before `common_m`, and `controller_command` in the order of its options.
Frequencies are integers, the bands, steps and offset are constants, the SNR is the
frequency it was measured on.  Between the dongle and the SNR there are two stages, a
block on its way (`air`) and the measurement (`heard`).  `Tunable` is what the dongle
accepts (no AM without an upconverter); a refusal goes unnoticed, as in the code.
`settled` is the scanner's half second.  The history variable `apart` remembers that
two tunings overlapped, that the dongle refused or that the mode alone was changed,
until a tuning to which none of this happens is through.  `PromptSnr` states an
assumption about the environment: a new frequency is measured within half a second.
It holds for rates from 1 MS/s (a block of 131072 samples lasts 0.13 s); at 250 kS/s a
block lasts 0.52 s and it does not.

`Websocket` is the one-message buffer between `websocket_send` and the callbacks:
mutex, semaphore, primary connection, and libwebsockets as an environment that makes
one callback at a time.  A write may fail, or take any part of the message.

`AppAudio` is the queue of `app.jsx`.  A callback runs to its end, so only the loop of
`onMessage` is divided, one step per sample, and `onaudioprocess` has to wait for it.

`Connector` is `connector.jsx` with the sockets of `client.jsx`: status, address,
button, whether the radio's controls are disabled, all the sockets there have been
with the callbacks they keep, and the queue of quarter-second timers.  The browser's
`WebSocket` is modelled from its use: it may open, fail (after which `close` follows
`error`, which `ignoreClose` has to catch) or close, and `send` throws while it is
connecting.  `renders` says whether `modulations.jsx` throws when it is given a state:
in the callback of a socket it takes the timer along (`connector.jsx:52`), in the timer
the status (`connector.jsx:57`).

`Shutdown` is the life of the program: `main` from the first create to the last
destroy, one action per call, and the three threads as far as they use parts. `live`
and `freed` are the parts, `misused` remembers what was used when it was not there;
such a use is undefined and either kills the program or not. `Lifecycle` is the
promise: create, use, free, in that order, and no part is freed under a thread that
uses it.  `Shutdown` implements it for every part but two (`KeptUses`): the
demodulator is freed while the dongle still pushes blocks into it, and the context
while the websocket thread is inside it.

`Numbers` holds the pure conversions: hundredths of MHz or kHz to Hz and back,
`(float)`, and the bytes of the dongle through `int8_t`.  `Interface` extends it:
tabs, heartbeat, station lists, cursor, the timer of the settings, the commands and
the headers on their way, and the server they act on (mode, frequency, scanner, the
samples on their way and the last SNR).  A command is one step of the server;
`scanner_execute` is three, its look at the modes, its other unlocked reads and what it
does under `common_m`, with commands in between; the finer division is in `Tuning`.
The SNR is that of the last block that was measured, one block behind the dongle, and
is reset by every command (`demod_execute`).  The server outlives the page: it starts
out in whatever mode an earlier page has left it (`world.left`), while a new page
always starts on FM (`modulations.jsx:14`).  React is modelled by when it renders:
at the end of a handler of its own, at once in a timer or a socket's callback; what
render throws leaves the new state and the old page (`Render`).  `seen` is what was
rendered last, because `componentWillReceiveProps` of `fm.jsx` looks at that and not
at the heartbeat received.

`MCDemod`, `MCTuning`, `MCConnector`, `MCShutdown` and `MCInterface` give the
constants small values; the modules whose names end in `Proofs` hold the theorems. The
operators that are named after a mistake (`PushNoSignal`, `DoneEarly`, `JoinWsNever`,
...) are variants of the action or test that follows them, used to confirm that the
properties notice the mistake; no specification uses them.

How the modules meet: `Demod` shows that every command and every turn of main's loop
ends; `Tuning`, `Websocket` and `Interface` take that for granted in their fairness.
A block `Demod` sends is a message of `Websocket`, and the browser reads what
`Websocket` writes in `AppAudio`.  `Demod` has the pipeline while it runs and the exit
as far as the demod thread goes; `Shutdown` has the rest of the exit with the pipeline
reduced to "a block wakes a thread".  `Interface` uses of `Connector` that the
controls are disabled without a connection, of `Websocket` that a header may be
overwritten.

## Runs

| Run | Asks | Bounds and size |
|---|---|---|
| `Demod_safety` | `MetricsDescribeOutput`, `ExposedOnlyDuringCommand`, `ChangesApplied`, `BuffersStable`, `PipeSpec` | 2 rates, 4 commands, 2 block numbers, spurious wakeups: 6.4 million states, 2 min |
| `Demod_commands` | `NoCircularWait`, `NothingFromNothing`; under fairness `Delivered`, `CommandReturns`, `ExitUndisturbed` | 1 rate, one change of mode, then commands that change nothing, 2 block numbers, signals always above the squelch, no spurious wakeups: 101 thousand states, 1.5 min |
| `Demod_exitWithCommands` | `ExitCompletes` fails | 1 rate, changes of mode either way, 1 block number |
| `Demod_runsApplied` | `RunsAppliedChain` fails | changes of mode |
| `Websocket_buffer` | types, `NothingForgotten`, `FeedSpec`, `Served` | 2 connections, 2 sizes, 3 messages: 1640 states, 2 s |
| `Websocket_partial` | `GivenUpForCause` fails | the same, 4 messages |
| `Tuning_scan` | `InBand`, `RadioFollows`, `FoundIsStation`, `ScanCoversAlone`, `ScanEnds`, `SeekEnds` | 3 sessions of 2 commands: scans and seeks from 4 frequencies (one off the grid); scans retuned; scans across a change of band: 327 thousand states, 44 s |
| `Tuning_restart` | `ScanCovers` fails | a scan started twice |
| `AppAudio_queue` | types, `QueueInOrder`, `PlayedInOrder`, `Played` | buffers of 3, messages of up to 5, 12 samples and what the last message adds: 2248 states, 3 s |
| `Connector_status` | `NeverStuck`, `ControlsMatch`, `Honest`, `ConnectingEnds` | 4 kinds of user, 3 connections: 16265 states, 3 s |
| `Shutdown_order` | `OrderlyUse`, `JoinedOnce`, `LifeSpec`, `Exits` | 16 worlds: with and without commands, a lost dongle, a failed start, an early signal: 17352 states, 5 s |
| `Interface_tabs` | `FollowsTab`, `ShownIsTuned`, `ListedIsStation`, `NothingLost`, `ListedInTime`, `StaysPut`, `CatchesUp`, `ConversionsExact` | 7 worlds of 2 to 4 gestures, 3 ticks of FM and 2 of AM, the server left in FM or AM: 722 thousand states, 2 min |

The type invariants of `Demod`, `Tuning`, `Connector`, `Shutdown` and `Interface` are
proved for all constants (below), and so are left out of the runs.

Why these bounds are enough to be worth a run.  Two block numbers tell "none", "the
first block" and, since numbers saturate, "all later ones" apart, so that `Delivered`
asks of the second block what it asks of the first; the theorems hold for any number.
With two block numbers the liveness run has only one kind of command, a change to AM:
the first one brings the chain of the other mode in, the later ones stand for all that
change no setting.  The interface sends commands with one option, and commands do
not overlap, because one thread runs them; two rates and two modes suffice for a chain
that was built for what is no longer set.  Commands in `Demod` are not counted: any
sequence of them is covered.  In `Tuning` two commands give every overlap of a command
with a scan that another one started.  The bands have four and three frequencies, with
first, last, inner and off-grid ones among them.  Three connections give an earlier, a
present and a next one, each with its timers.  In `Shutdown` nothing is bounded.  In
`Interface` the ticks are real ones around the defaults; stations are at the first and
the last tick of FM, where a scan wraps, and at the last of AM.  The seven worlds
differ in the mode the server was left in, in what the user does, whether the user
waits until everything is quiet, and whether commands, heartbeats and measurements are
through within a quarter of a second.  Four gestures are enough to tune, change the
tab, start a scan and come back.  One heartbeat is under way at a time: the next one
replaces it in the server's buffer anyway.  A second change of rate while the timer of
the first runs is left out, and so are steps of the scanner away from the ticks
(`OnTick`): where the step of one mode leads to from a frequency of the other.

What the runs found that the code, its comments or its messages do not say:

- `demod_execute` ends in RUNNING even over EXITING (`demod.c:553`): a command in
  flight at shutdown makes `demod_exit` join a thread that never ends.
- "apply any changes to the modulation parameters" (`demod.c:526`): the thread looks
  at the mode itself, so `-m am` exposes NULL objects until `_demod_am_init` has run,
  and every command exposes destroyed ones between teardown and init.
- "partial write" (`websocket.c:114`): `output_size` is that of a later message.
- "done scanning" (`scanner.c:115`): a scan started anew while a step of the old one
  is under way is ended by that step.

What the models show besides, which no text of the repository denies and the
properties therefore allow or leave out:

- Main can be handed the same block twice: the thread signals after the unlock; main,
  woken for one block, takes `output_m` after the next one has been produced and is
  then woken again.  `LatestBlock` allows it.
- A scan that starts within a block of a retune judges its first frequency by the SNR
  of the one before (`scanner.c:99`), because only steps of the scanner set
  `tune_time`; so does one in which the user tunes.  `FoundIsStation` is about scans
  that nothing else tunes, `ListedIsStation` about users who wait for the measurement
  or tune only by scanning.
- A scan that starts between two steps of the grid passes by the frequencies of the
  grid above its start; `ScanCoversAlone` says which ones it does judge (`Course`).
- The dongle can stay on one frequency while the demodulator, from which the scanner
  goes on, is on another: when the two threads tune at once, in opposite orders
  (`scanner.c:120`, `controller.c:182`), or the dongle refuses.  `RadioFollows` says
  that it takes one of these, and that the next tuning mends it.
- The SNR in a header is that of a block before the one it goes out with
  (`controller.c:215` reads it before `pop` waits): one block or more behind.
- A page that is reloaded shows FM while the server is still in AM, and its greeting
  of 90.7 MHz is refused there; the two agree from the first click on another tab.
- A scan the user leaves for the other tab can tune the dongle back to the band it was
  on, after the commands of the new tab: `scanner_execute` computes with the mode it
  read before them (`scanner.c:64`, `120`).  The mode is right all the same.
- A seek switches itself off in the step that finds the station (`scanner.c:130`), and
  the interface records stations only while the header says "seeking" or "scanning":
  what a seek finds, or a scan in its last step, never gets on the list.
- Opening the settings during a scan makes `render` throw with the next station
  (`modulations.jsx:44`): the samples of that message are lost, and if it happens in
  the callback of the connection or in its timer the status stays "connecting" with
  everything locked.
- `targetFreq` is one variable for both tuners (`frequency-tuner.jsx:7`): a click on
  the cursor that does not move it tunes to where the last drag ended, on whichever
  band.  The AM tab does not follow seeks at all.
- The program does not exit when the dongle has been lost (main waits in `pop`), nor
  when the cancel comes before `rtlsdr_read_async` has begun (the join waits for a
  thread that reads for ever).
- The demodulator is used after it was freed, by the dongle's callback, and the
  context by the websocket thread.

## Fairness

- `Demod`: strong fairness of each thread.  A mutex that is free again and again is
  obtained in the end: between two blocks the demod thread is blocked until the next
  USB transfer, orders of magnitude longer than a waiter needs to be scheduled. Blocks
  keep coming (`Rtl` is fair): the liveness properties are about a dongle that works.
  Commands, signals and spurious wakeups are not assumed to happen.
- `Websocket`: `libwebsocket_service` returns every 50 ms and serves what is ready; a
  connection that stays is writable again and again.  Nothing makes main call
  `websocket_send` or a browser come or go.
- `Tuning`: both threads keep running, blocks keep coming, time goes by; strong
  fairness for commands, which wait for `common_m`.
- `AppAudio`: the sound card keeps asking, a callback that has begun ends.
- `Connector`: timers fire; the browser gives up a connection or a closing handshake
  in the end.  Nobody has to click, and no connection has to break.
- `Shutdown`: weak fairness of each thread.  The dongle sends blocks until it is lost,
  and a read that was cancelled ends; neither signal nor loss is assumed.
- `Interface`: the server reads its commands, takes the steps of a scan and sends its
  header (the half second and the measurement are not assumed to come); headers may be
  overwritten, but not all of them (`Receive` is strongly fair: there are four a
  second, and one is overwritten only if the socket takes nothing until the next block
  is sent).

Deadlock is checked in every run; a process that has ended or crashed, a scanner that
is off and a connection nobody clicks on are allowed to stand still by actions of
their own.

## Proofs

Every theorem holds for all values of the constants that satisfy the named
`ConstantsAssumption`, and TLC evaluates those assumptions in the runs.

`DemodProofs`.  `TypeInv` strengthens `TypeOK` by what is fixed while a thread is at a
place (before `controller_create` is through nobody but main runs, the thread's copy
of the mode is a real mode while it uses it, a crash takes every thread with it).
`LockInv` says for every place which mutexes its thread holds; nothing about locks is
inductive without it.  On these rest

- `DeadlockFree`: `ws` holds nothing where it waits, `main` and `rtl` hold one mutex
  each only where they wait for nothing, so whoever waits for a thread waits for
  `demod`; and whoever `demod` waits for waits for nobody;
- `NoTornBlocks` (only the holder of the mutex changes a buffer) and `PipeImplements`
  (`Order`: `sent` <= `output.blk` <= `input` while they are handed on, so every step
  is a step of `LatestBlock` or a stutter);
- `MetricsAgree` (the SNR is reset or that of the block being worked on, place by
  place; `HeaderInv`: the one in the header was that of the output buffer, which a
  later block may have taken over when it is sent), `CommandsApplied` (what
  `demod_execute` has done at each place, for each of the two threads that run it),
  `CrashNeedsCommand`, and `FilledBeforeUsed`, which needs the hypothesis that there
  are no spurious wakeups.

`WebsocketProofs`.  The semaphore is 0 whenever main is about to post, which makes it
binary; a message that differs from the last one written is announced or on its way:
`TypeCorrect`, `NoneForgotten`, `NoTornMessages`, `FeedImplements`.

`TuningProofs`.  `TypeCorrect` for any commands.  `StaysInBand` for sessions that keep
the band (`KeepsBand`: no command changes the mode): every frequency on its way, read,
computed or about to be set, is in the band (`BandInv`), and `FollowingFacts` shows
that wrapping keeps it there for any step.  It does not hold without its hypothesis: a
mode set between the scanner's reads and its writes gives a mixture of both bands.
`DongleFollows` for all sessions: while one thread tunes alone, what it has set first
is what it sets next (`RadioInv`), and `apart` holds from where this goes wrong to the
next tuning to which it does not happen.  `FoundIsTrue` under `PromptSnr` and
`ScannerTunes` (no command tunes, the dongle accepts the band): once the half second
is over what was measured last was measured on the dongle's frequency, and a step that
saw it over when it read the clock is the only one that could start another
(`SettledInv`).

A scan that is left alone (one command so far, module `Tuning` counts them) is proved
to do its work in any band, from any start.  The hypothesis `SingleOptions` is what
`client.jsx` does: a command that sets the scanner sets nothing else.  Until that
command has reached the scanner nothing moves (`WaitingInv`); from then on only the
scanner tunes, and what main read without the mutex is still so when it decides
(`ScansInv`).  `CoverInv` relates what was judged to where the scan set out and where
it is.  Its course leads in steps from its start to the end of the band and then along
the grid up to its start (`Course`; the whole grid, if it starts on the grid).  It has
judged the course from its start up to here (`Ahead`), or has come round and judged
all but what lies between here and its start (`Round`).  `ScanStep` shows that a step
keeps this and may end the scan only when the course is complete, hence
`ScanCoversAloneHolds`.  It rests on the arithmetic of the grid (`GridGap`: two of its
frequencies are a step apart at least), which is where TLC's band of four frequencies
says nothing about others.  `ScanJudgesOnce` is the converse: nothing is judged twice
(`Once`), so the scan takes as many steps as there are frequencies at the most.  It
needs the band to end on its grid, as 87.9 .. 107.9 MHz in steps of 0.2 does: a scan
started above the last frequency of the grid would never come back to its start.

`AppAudioProofs`.  `QueueInOrder` is inductive with `TypeOK`: all buffers but the last
are full, each sample's place follows from its number, behind the cursor is silence.
`HeardInOrder` follows from what the first buffer then holds.

`ConnectorProofs`, for any number of connections.  `LockIsLifted`: a socket that is
still connecting or a timer always stands behind the status "connecting"; neither the
`send` nor the rendering of a callback can throw where that would matter.
`ControlsFollow`: `disabled` and the status are set together wherever they are set.
For a patient user `PatientInv` says that all sockets but the present one are dead and
how the timers that run follow from its state (`Stage`): hence `StatusIsHonest`, and
also `NeverTwo` (one connection at a time) and `SendsAreSafe` (the controls are
disabled while `send` would throw).

`ShutdownProofs`.  Where main is tells which parts exist (`PartsInv`), which threads
have been started and which have ended (`ThreadsInv`), and how often each was joined
(`JoinsInv`).  On these rest `TypeCorrect`, `UsesAreOrderly`, `JoinsAreSingle` and
`LifeImplements`, the refinement: main creates all a thread uses before it starts it
and is past the thread's join when it frees what the thread uses.

`NumbersProofs`.  All ticks of both bands survive `floor`, text and `float`
(`TicksAreExact`: FM ticks are multiples of 8 Hz below 2^27, AM ticks below 2^24), all
bytes survive `int8_t` (`SamplesAreExact`), and no frequency of one band is shown at a
tick of the other (`BandsStayApart`), which is why a station recorded under the wrong
tab does no harm.

`InterfaceProofs`, for all bands, offsets, stations and users.  `TypeCorrect` needs
`ViewInv`: the page lags behind the tab only while a heartbeat with a station is shown
on the settings tab, and then there is no cursor to drag.  `ConversionsAreExact` from
`NumbersProofs`.  `NothingIsLost` from `SettingsInv`: with a patient user, while the
settings are open nothing that could start a scan is on its way and no heartbeat that
reports a station.

What the scanner does between its reads and its writes rests on `TurnInv`: with a user
who waits no command comes in between, because none is under way while a scan is on
(`BusyInv`), so its locals are still what the server has.  With other users they are
not, and the theorems say what remains.

`StationsAreReal`, for users who wait or who only scan and seek (`Heeds`), of whom
neither tunes while a scan may be on.  `MeasuredInv`: when the half second is over the
samples and the last measurement, if there is one, are of the dongle's frequency;
`HeardInv`: a step that goes by the SNR stands at a station then; `FoundInv`: every
frequency the scanner remembers, a header carries or a list holds is that of a station
of one of the bands.  The hypothesis `BandsApart` says that it is shown, and received,
only on its own band (`TicksApart`, `DonglesApart`) and that the greeting of a new page
passes the float and is refused on AM (`GreetingFits`).

What the page and the server agree on once they are at rest depends on the commands
that are still on their way, in the order they will be carried out:

- `ServerFollowsTab`.  The mode, for any users: nothing but commands sets it, and the
  last one that does is the one of the tab (`ModeInv`).  The tick, for users who wait
  or do not scan (`Calm`): `Lands(q, s, m, F)` says of the commands `q` and the server
  `s` that it will end in mode `m` at one of the ticks `F`: it is there already and no
  command takes it away, or one of them brings it there after the last change of mode.
  `LandsInv` says so of the tab that is shown and all its ticks.  A frequency may also
  come from elsewhere (the timer sends what a heartbeat said, the scanner steps from
  where it is), so `FreqInv` says of every frequency on its way that it is `Known`: a
  tick of whatever mode accepts it.  The hypothesis `BandsFit` says that of the ticks,
  of what the dongle is given for them, and of the frequencies a step away.
- `TimerStaysPut`, from `PutInv`: while a user who waits has the settings open, page,
  wire and server hold one frequency, that of the dongle.  `DongleStays`: if the
  server accepts it at all, it is that of the tick.
- `ScanIsListedInTime`.  `ReportInv`: when a scan is about to go on, the station it
  found last is in the page's heartbeat and in those on their way.  `ListInv`: the
  station of the page's heartbeat is on the list.
- `CursorShowsServer`.  For the users the property is about (`Steady`) `ShownInv` has
  four parts: a scan, a seek or a timer needs its button pressed (`PressedInv`);
  before the first connection all is as the page before left it (`UntouchedInv`); a
  seek that is shown is a seek that is going on, or the last heartbeat is yet to come
  (`SeekingInv`); and the server lands at the very tick that is shown, or the scan
  that runs set out from it and will come back to it (`CursorInv`).  FM must not have
  an upconverter: the FM tab shows the dongle's frequency after a seek.
- `RealReceiver`.  The bands of the two tuners and the upconverter's 125 MHz satisfy
  `BandsFit`, `DongleStays` and `BandsApart` (`RealBandsFit`, `RealDongleStays`,
  `RealBandsApart`): the five properties hold of the real receiver for all stations,
  any number of gestures, either mode the server was left in, and the users that each
  of them is about.  The proof splits
  the frequencies by their remainders: 100 kHz modulo 200 for FM, 0 modulo 10 for AM.

Model-checked only: every liveness property (`Delivered`, `CommandReturns`,
`ExitUndisturbed`, `Served`, `SeekEnds`, `ScanEnds`, `Played`, `ConnectingEnds`,
`Exits`, `CatchesUp`) is beyond the prover.  All invariants and
action properties that passing runs check are theorems, of all constants or under the
hypotheses named above; `ScanJudgesOnce` is the safety half of `ScanEnds`.

## Not modelled

- Signal processing inside a critical section (FFT, resampling, demodulation): it
  computes on one block and touches nothing else.
- `output_m` of the websocket in `NoCircularWait`: main takes it inside its own
  `output_m` of the demodulator, the websocket thread takes it holding nothing.
- Device search, gain and frequency correction: calls of librtlsdr without a state
  here.
- How a line is cut into words and options (`strtok`, `getopt`) and the lookup of a
  mode's name: C string handling without a state.  Commands are modelled as the
  interface sends them, one well-formed option each.
- The growth of the audio queue when the sound card is slower than the samples:
  nothing bounds it, so there is no bound to check.
- Layout, pixels and drawing of the interface; the SNR and throughput it displays.
- A second browser at the same time: the server closes its connection
  (`websocket.c:89`).  `Interface` has one page, on a server an earlier page has used.
- In `Interface`, a page that finds a scan going on (the server starts with the
  scanner off and at a default), and the SNR that a change of rate resets.
- The libraries in `interface/js/lib` (React, its JSX compiler, a text loader), which
  make up most of the lines under `src/`: third-party code, of which `Connector` and
  `Interface` model what the interface relies on.  `transmitters/` and the build
  files.

What could be proved next: the safety half of `SeekEnds`, that a seek passes no
station by, and `ScanEnds` for a scan that is retuned within its band.
