------------------------------ MODULE Interface ------------------------------
(***************************************************************************)
(* The tabs of the interface and the server they tune: modulations.jsx,    *)
(* am.jsx, fm.jsx, settings.jsx, frequency-tuner.jsx and the set functions *)
(* of client.jsx on one side, commands and heartbeats in between, mode,    *)
(* frequency and scanner on the other.                                     *)
(*                                                                         *)
(* React calls the render functions as soon as a state is set, or, in a    *)
(* handler of its own, when the handler is through; what render throws     *)
(* comes out of setState, the new state stays and the page is the old one. *)
(* Of the server, a command is one step here; scanner_execute reads, and   *)
(* later acts upon what it has read.  Module Tuning divides both further.  *)
(* Frequencies are counted as in module Numbers.                           *)
(***************************************************************************)
EXTENDS Numbers, Sequences

CONSTANTS
  BandMin, BandMax,   \* per mode: the first and the last tick
  Default,            \* per mode: the tick a new tab tunes to (defaultFreq)
  Offset,             \* per mode: of the upconverter, in Hz
  Worlds              \* [left, stations, gestures, patient, prompt, max]

Band(m) == {BandMin[m] + i * TickStep(m) :
              i \in 0 .. (BandMax[m] - BandMin[m]) \div TickStep(m)}

Gestures == {"tab", "settings", "drag", "press", "station", "scan", "seek",
             "rate", "disconnect"}

(***************************************************************************)
(* A world has a server that an earlier page has left in some mode, at its *)
(* default and, bound, with the scanner off; stations, at the ticks of     *)
(* each band; and a user with some gestures, of which "press" is a click   *)
(* on the cursor that does not move it.  A patient user waits until the    *)
(* last gesture has had its effect, and the SNR is that of the frequency.  *)
(* In a prompt world commands, heartbeats and the measurement of a new     *)
(* frequency take a quarter of a second: less than the half second of the  *)
(* scanner, and than the timer of the settings.  Otherwise they take their *)
(* time, and heartbeats get lost when the server's next message overwrites *)
(* them.  Bound: the user makes up to max gestures.                        *)
(***************************************************************************)
ASSUME ConstantsAssumption ==
  /\ BandMin \in [Modes -> Nat \ {0}] /\ BandMax \in [Modes -> Nat]
  /\ \A m \in Modes : Default[m] \in Band(m) /\ BandMax[m] \in Band(m)
  /\ DOMAIN Default = Modes
  /\ Offset \in [Modes -> Nat]
  /\ \A w \in Worlds :
       /\ w.left \in Modes
       /\ \A m \in Modes : w.stations[m] \subseteq Band(m)
       /\ w.gestures \subseteq Gestures
       /\ w.patient \in BOOLEAN /\ w.prompt \in BOOLEAN
       /\ w.max \in Nat

VARIABLES
  tab,        \* Modulations: state.mode
  hb,         \* Modulations: state.heartbeat
  view,       \* the tab that is rendered
  seen,       \* the heartbeat it was rendered with last
  stations,   \* Modulations: props.stations, the last ones found
  shown,      \* Fm, Am: state.frequency
  dragging,   \* FrequencyTuner: state.dragging, and what it is: "no", "drag",
              \* "press", or "moved" when a drag has moved the cursor
  targetFreq, \* frequency-tuner.jsx: one for both tuners
  retune,     \* Settings: the timer that tunes after a change of rate
  connected,  \* is there a connection, and are the controls enabled?
  up, down,   \* commands to the server, heartbeats to the interface
  server,     \* [mode, fc, rfc] and the scanner's [smode, from, last]
  turn,       \* main: the locals of scanner_execute, and where it is
  due,        \* have 0.5 s gone by since the scanner's last step?
  air, snr,   \* dongle frequency: of the samples on their way, and of the
              \* last measurement, NoFreq when it was reset
  lost,       \* has onMessage thrown, and the samples of the message gone?
  opened,     \* history: has a click put up a tab that was not there?
  world, gestures   \* one of Worlds for good; how many gestures so far

page == <<tab, hb, view, seen, stations, shown, dragging, targetFreq, retune,
          connected, lost>>
receiver == <<server, turn, due, air, snr>>
user == <<opened, world, gestures>>
vars == <<page, up, down, receiver, user>>

Tabs    == Modes \cup {"settings"}
NoFreq  == -1
NoTimer == -2
Live    == -1     \* the timer runs, and its component is there

Command(m, scan, fc) == [mode |-> m, scan |-> scan, fc |-> fc]
SetMode(m)        == <<Command(m, "none", NoFreq)>>
SetScan(s)        == <<Command("none", s, NoFreq)>>
SetCenterFreq(fc) == IF fc > 0 THEN <<Command("none", "none", fc)>> ELSE <<>>

HeaderOf(s) == [fc       |-> s.rfc,
                scanning |-> s.smode = "on",
                seeking  |-> s.smode \in {"up", "down"},
                last     |-> s.last]
Header == HeaderOf(server)

Start(m) == [mode |-> m, fc |-> Hz(m, Default[m]),
             rfc |-> Hz(m, Default[m]) + Offset[m],
             smode |-> "off", from |-> NoFreq, last |-> NoFreq]
NoTurn == [at |-> "out", smode |-> "off", due |-> FALSE, mode |-> "fm",
           just |-> FALSE, fc |-> 0, step |-> 0, strong |-> FALSE]

Init ==
  /\ tab = "fm" /\ view = "fm"
  /\ hb = [fc |-> 0, scanning |-> FALSE, seeking |-> FALSE, last |-> 0]
  /\ seen = hb
  /\ stations = [m \in Modes |-> {}]
  /\ shown = Default["fm"]
  /\ dragging = "no" /\ targetFreq = 0 /\ retune = NoTimer
  /\ connected = FALSE
  /\ up = <<>> /\ down = <<>>
  /\ lost = FALSE
  /\ world \in Worlds /\ gestures = 0 /\ opened = FALSE
  /\ server = Start(world.left) /\ turn = NoTurn /\ due = TRUE
  /\ air = server.rfc /\ snr = NoFreq

-----------------------------------------------------------------------------
(* Rendering.                                                              *)

RecordingSeeks(h) == h.seeking /\ h.last > 0

\* A station the scanner has found since it set out.
Recording(h) == (h.scanning \/ h.seeking) /\ h.last > 0

RendersListsFirst(t, h)   == t # "settings"
RendersNotAfterScan(t, h) == h.last > 0 => t # "settings"

\* There is no list of stations for the settings: render throws.
Renders(t, h) == Recording(h) => t # "settings"

Recorded(t, h) ==
  IF Recording(h) THEN [stations EXCEPT ![t] = @ \cup {h.last}] ELSE stations

\* Fm follows a seek, one heartbeat behind (componentWillReceiveProps looks
\* at the old one); a tab that was not there starts with its default.
ShownNewly(t, f) == IF t # view /\ t \in Modes THEN Default[t] ELSE f

ShownAfter(t, f) ==
  CASE t # view /\ t \in Modes          -> Default[t]
    [] t = view /\ t = "fm" /\ seen.seeking -> seen.fc \div PerHundredth("fm")
    [] OTHER                            -> f

\* ... and tunes to it (componentWillMount).
Mounts(t) ==
  IF t # view /\ t \in Modes THEN SetCenterFreq(Hz(t, Default[t])) ELSE <<>>

\* Modulations is given tab t and heartbeat h, Fm or Am frequency f.
Render(t, h, f) ==
  /\ tab' = t /\ hb' = h
  /\ IF Renders(t, h)
     THEN /\ view' = t /\ seen' = h
          /\ stations' = Recorded(t, h)
          /\ shown' = ShownAfter(t, f)
          /\ retune' = IF t # view /\ view = "settings" /\ retune = Live
                       THEN seen.fc ELSE retune
     ELSE UNCHANGED <<view, seen, stations, shown, retune>>

-----------------------------------------------------------------------------
(* The user.                                                               *)

Send(commands) == up' = IF connected THEN up \o commands ELSE up

Settled ==
  /\ up = <<>> /\ down = <<>> /\ hb = Header /\ seen = hb
  /\ server.smode = "off" /\ retune = NoTimer
  /\ air = server.rfc /\ snr = server.rfc

Gesture(g) ==
  /\ g \in world.gestures
  /\ dragging = "no"
  /\ connected /\ world.patient => Settled
  /\ gestures < world.max /\ gestures' = gestures + 1
  /\ UNCHANGED world

Elsewhere(g) == Gesture(g) /\ UNCHANGED opened   \* not on a tab

\* The controls are enabled a moment after the socket has opened, and the
\* socket is told "-f 90700000" (connector.jsx, see module Connector).
Connect ==
  /\ ~connected /\ dragging = "no"
  /\ Renders(tab, hb) /\ Render(tab, hb, shown)
  /\ connected' = TRUE
  /\ up' = up \o SetCenterFreq(Hz("fm", Default["fm"]))
  /\ UNCHANGED <<dragging, targetFreq, down, receiver, lost, user>>

Disconnect ==
  /\ Elsewhere("disconnect")
  /\ connected
  /\ Renders(tab, hb) /\ Render(tab, hb, shown)
  /\ connected' = FALSE
  /\ down' = <<>>
  /\ UNCHANGED <<dragging, targetFreq, up, receiver, lost>>

OnClick(t) ==                       \* a tab
  /\ Gesture(IF t \in Modes THEN "tab" ELSE "settings")
  /\ connected
  /\ Render(t, hb, shown)
  /\ Send(IF t \in Modes THEN SetMode(t) \o Mounts(t) ELSE <<>>)
  /\ opened' = (opened \/ (t \in Modes /\ t # view))
  /\ UNCHANGED <<dragging, targetFreq, connected, down, receiver, lost>>

OnMouseDown(g) ==                   \* on the cursor, if there is one
  /\ g \in {"drag", "press"} /\ Elsewhere(g)
  /\ view \in Modes /\ ~seen.scanning /\ ~seen.seeking
  /\ dragging' = g
  /\ UNCHANGED <<tab, hb, view, seen, stations, shown, targetFreq, retune,
                 connected, up, down, receiver, lost>>

\* Fm and Am ignore what the tuner tells them when they are disabled.
OnMouseMove(t) ==
  /\ dragging \in {"drag", "moved"} /\ t \in Band(view)
  /\ dragging' = "moved"
  /\ targetFreq' = t
  /\ shown' = IF connected THEN t ELSE shown
  /\ UNCHANGED <<tab, hb, view, seen, stations, retune, connected, up, down,
                 receiver, lost, user>>

\* If the mouse has not moved targetFreq is that of an earlier drag, on
\* either tab, or still 0, which Fm leaves alone and Am shows as undefined.
OnMouseUp ==
  /\ dragging \in {"press", "moved"}
  /\ dragging' = "no"
  /\ shown' = CASE connected /\ targetFreq # 0                 -> targetFreq
                [] connected /\ targetFreq = 0 /\ view = "am" -> NoFreq
                [] OTHER                                      -> shown
  /\ Send(SetCenterFreq(Hz(view, targetFreq)))
  /\ UNCHANGED <<tab, hb, view, seen, stations, targetFreq, retune, connected,
                 down, receiver, lost, user>>

\* The ticks at which there is a station to click on.
Listed(m) == {Shown(m, s) : s \in stations[m]} \cap Band(m)

OnStation(t) ==
  /\ Elsewhere("station")
  /\ connected /\ view \in Modes /\ t \in Listed(view)
  /\ shown' = t
  /\ Send(SetCenterFreq(Hz(view, t)))
  /\ UNCHANGED <<tab, hb, view, seen, stations, dragging, targetFreq, retune,
                 connected, down, receiver, lost>>

OnScan(s) ==                        \* onScan, onSeekUp, onSeekDown
  /\ Elsewhere(IF s = "on" THEN "scan" ELSE "seek")
  /\ connected /\ view \in Modes
  /\ Send(SetScan(s))
  /\ UNCHANGED <<page, down, receiver>>

\* The rate itself changes nothing of this but the SNR, which any command
\* resets: left out.  Bound: one timer at a time.
OnChangeSampleRate ==
  /\ Elsewhere("rate")
  /\ connected /\ view = "settings"
  /\ retune = NoTimer /\ retune' = Live
  /\ UNCHANGED <<tab, hb, view, seen, stations, shown, dragging, targetFreq,
                 connected, up, down, receiver, lost>>

-----------------------------------------------------------------------------
(* Timer and heartbeats.                                                   *)

\* Does the interface know where the server is, and the server the user's
\* last wish?
Told == connected => up = <<>> /\ down = <<>> /\ hb = Header

\* A component that is gone keeps the heartbeat it was given last.
Retune ==
  /\ retune # NoTimer /\ (world.prompt => Told)
  /\ retune' = NoTimer
  /\ Send(SetCenterFreq(IF retune = Live THEN seen.fc ELSE retune))
  /\ UNCHANGED <<tab, hb, view, seen, stations, shown, dragging, targetFreq,
                 connected, down, receiver, lost, user>>

Receive ==                          \* onMessage
  /\ down # <<>>
  /\ Render(tab, Head(down), shown)
  /\ lost' = (lost \/ ~Renders(tab, Head(down)))
  /\ down' = Tail(down)
  /\ UNCHANGED <<dragging, targetFreq, connected, up, receiver, user>>

Heartbeat ==                        \* Bound: one under way at a time
  /\ connected /\ down = <<>> /\ turn.at = "out"
  /\ down' = <<Header>>
  /\ UNCHANGED <<page, up, receiver, user>>

Overwritten ==
  /\ ~world.prompt /\ down # <<>>
  /\ down' = Tail(down)
  /\ UNCHANGED <<page, up, receiver, user>>

-----------------------------------------------------------------------------
(* The server.                                                             *)

InBandAlways(m, f) == f > 0
InBand(m, f) == Hz(m, BandMin[m]) <= f /\ f <= Hz(m, BandMax[m])

\* mode, scanner_set_mode, frequency
After(c, s) ==
  LET m    == IF c.mode # "none" THEN c.mode ELSE s.mode
      scan == IF c.scan # "none"
              THEN [s EXCEPT !.mode = m, !.smode = c.scan, !.from = NoFreq,
                             !.last = NoFreq]
              ELSE [s EXCEPT !.mode = m]
      f    == ToFloat(c.fc)
  IN  IF c.fc > 0 /\ InBand(m, f)
      THEN [scan EXCEPT !.fc = f, !.rfc = f + Offset[m]] ELSE scan

\* After a command there is no SNR until the next block is measured.
ControllerCommand ==
  /\ up # <<>>
  /\ server' = After(Head(up), server)
  /\ snr' = NoFreq
  /\ up' = Tail(up)
  /\ UNCHANGED <<page, down, turn, due, air, user>>

-----------------------------------------------------------------------------
(* The scanner.                                                            *)

\* It looks at what it needs without a lock; commands may come in between.
\* Bound: away from the ticks, where the step of one mode leads from a
\* frequency of the other, it does not go on.
OnTick(f) == \E m \in Modes : \E t \in Band(m) : f = Hz(m, t)

ScannerReadsMode ==
  /\ turn.at = "out" /\ server.smode # "off" /\ OnTick(server.fc)
  /\ turn' = [NoTurn EXCEPT !.at = "mode", !.smode = server.smode,
                            !.due = due, !.mode = server.mode]
  /\ UNCHANGED <<page, up, down, server, due, air, snr, user>>

\* The SNR is above the threshold at the stations.
Strong == \E m \in Modes : \E t \in world.stations[m] :
            snr = Hz(m, t) + Offset[m]

ScannerReadsRest ==
  /\ turn.at = "mode"
  /\ turn' = [turn EXCEPT !.at = "rest", !.just = server.from < 0,
                          !.fc = server.fc, !.strong = Strong,
                          !.step = Hz(server.mode, TickStep(server.mode))]
  /\ UNCHANGED <<page, up, down, server, due, air, snr, user>>

Up(t)     == t.fc + t.step
Down(t)   == t.fc - t.step
Top(t)    == Hz(t.mode, BandMax[t.mode])
Bottom(t) == Hz(t.mode, BandMin[t.mode])

Tuned(t, s, f) == [s EXCEPT !.fc = f, !.rfc = f + Offset[t.mode]]

ScanOn(t, s) ==
  LET wrapped == Up(t) > Top(t)
      next    == IF wrapped THEN Bottom(t) ELSE Up(t)
      done    == (wrapped \/ t.fc < s.from) /\ s.from <= next
  IN  [Tuned(t, s, next) EXCEPT !.last  = IF t.strong THEN t.fc ELSE @,
                                !.smode = IF done THEN "off" ELSE @]

Seek(t, s, wrapped, next) ==
  IF t.strong /\ (t.fc # s.from \/ wrapped)
  THEN [s EXCEPT !.last = t.fc, !.smode = "off"]
  ELSE Tuned(t, s, next)

JudgesAtOnce(t) == ~t.just

\* It waits half a second for the measurement, but not for its first one.
Judges(t) == t.due /\ ~t.just

\* What scanner_execute, with t for its locals, makes of s.
Step(t, s) ==
  CASE t.just -> [s EXCEPT !.from = t.fc]
    [] Judges(t) /\ t.smode = "on" -> ScanOn(t, s)
    [] Judges(t) /\ t.smode = "up" ->
         Seek(t, s, Up(t) > Top(t),
              IF Up(t) > Top(t) THEN Bottom(t) ELSE Up(t))
    [] Judges(t) /\ t.smode = "down" ->
         Seek(t, s, Down(t) < Bottom(t),
              IF Down(t) < Bottom(t) THEN Top(t) ELSE Down(t))
    [] OTHER -> s

ScannerWrites ==
  /\ turn.at = "rest"
  /\ server' = Step(turn, server)
  /\ due' = (due /\ ~Judges(turn))
  /\ turn' = NoTurn
  /\ UNCHANGED <<page, up, down, air, snr, user>>

HalfSecond ==
  /\ ~due /\ due' = TRUE
  /\ world.prompt => Told /\ air = server.rfc /\ snr = server.rfc
  /\ UNCHANGED <<page, up, down, server, turn, air, snr, user>>

\* The demodulator measures samples that have been on their way for a while.
Measure ==
  /\ snr # air \/ air # server.rfc
  /\ snr' = air /\ air' = server.rfc
  /\ UNCHANGED <<page, up, down, server, turn, due, user>>

Next ==
  \/ Connect \/ Disconnect
  \/ \E t \in Tabs : OnClick(t)
  \/ \E g \in Gestures : OnMouseDown(g)
  \/ \E m \in Modes : \E t \in Band(m) : OnMouseMove(t) \/ OnStation(t)
  \/ OnMouseUp
  \/ \E s \in {"on", "up", "down"} : OnScan(s)
  \/ OnChangeSampleRate
  \/ Retune \/ Receive \/ Heartbeat \/ Overwritten
  \/ ControllerCommand
  \/ ScannerReadsMode \/ ScannerReadsRest \/ ScannerWrites
  \/ HalfSecond \/ Measure

Spec == Init /\ [][Next]_vars

(***************************************************************************)
(* The server reads its commands, goes on with a scan and sends its        *)
(* heartbeats; not all of them are lost.                                   *)
(***************************************************************************)
FairSpec ==
  /\ Spec
  /\ WF_vars(ControllerCommand)
  /\ WF_vars(ScannerReadsMode) /\ WF_vars(ScannerReadsRest)
  /\ WF_vars(ScannerWrites)
  /\ WF_vars(Heartbeat) /\ SF_vars(Receive)

-----------------------------------------------------------------------------
(* Properties.                                                             *)

Heartbeats == [fc : Nat, scanning : BOOLEAN, seeking : BOOLEAN, last : Int]
Commands   == [mode : Modes \cup {"none"}, fc : Int,
               scan : {"none", "on", "up", "down"}]

PageOK ==
  /\ tab \in Tabs /\ view \in Tabs /\ (tab \in Modes => view = tab)
  /\ hb \in Heartbeats /\ seen \in Heartbeats
  /\ DOMAIN stations = Modes /\ \A m \in Modes : stations[m] \subseteq Nat
  /\ shown \in Int /\ targetFreq \in Nat
  /\ dragging \in {"no", "drag", "press", "moved"}
  /\ dragging # "no" => view \in Modes
  /\ retune \in Int
  /\ connected \in BOOLEAN /\ lost \in BOOLEAN
WireOK == up \in Seq(Commands) /\ down \in Seq(Heartbeats) /\ Len(down) <= 1
ServerOK ==
  server \in [mode : Modes, fc : Nat, rfc : Nat, from : Int, last : Int,
              smode : {"off", "on", "up", "down"}]
TurnOK ==
  /\ turn \in [at : {"out", "mode", "rest"}, due : BOOLEAN, mode : Modes,
               smode : {"off", "on", "up", "down"}, just : BOOLEAN,
               fc : Nat, step : Nat, strong : BOOLEAN]
  /\ due \in BOOLEAN /\ air \in Nat /\ snr \in Nat \cup {NoFreq}
UserOK ==
  world \in Worlds /\ gestures \in 0 .. world.max /\ opened \in BOOLEAN

\* Type invariant; Fm or Am is rendered when its tab is chosen.
TypeOK == PageOK /\ WireOK /\ ServerOK /\ TurnOK /\ UserOK

\* A page starts with the tab of FM, whatever the server has been left in
\* (modulations.jsx:14): the two agree from then on, or from the first click
\* that puts up another tab.
Ours == world.left = "fm" \/ opened

\* However fast the user goes from tab to tab: when the commands have arrived
\* the server is in the mode of the tab.  The dongle is at one of its ticks
\* too, although it is set by a command of its own, which may be refused, and
\* scanner and timer tune in between; but not with a user who leaves the tab
\* during a scan: the scanner may tune to the band it started out in after
\* the commands (scanner.c:64, 120).
Calm == world.patient \/ world.gestures \cap {"scan", "seek"} = {}
FollowsTab ==
  Ours /\ up = <<>> /\ tab \in Modes =>
    /\ server.mode = tab
    /\ Calm => \E t \in Band(tab) : server.rfc = Hz(tab, t) + Offset[tab]

\* What the cursor shows is what the server is tuned to, once the user has
\* let go and what was sent has arrived: for a user who waits, or does not
\* scan, seek or change the rate, and on the FM tab after a seek too.
Quiet == up = <<>> /\ down = <<>> /\ seen = Header /\ dragging = "no"
           /\ server.smode = "off" /\ retune = NoTimer
ShownIsTuned ==
  /\ world.gestures \cap {"press", "disconnect"} = {}
  /\ world.patient \/ world.gestures \cap {"scan", "seek", "rate"} = {}
  /\ "seek" \in world.gestures => world.prompt /\ tab = "fm"
  /\ Ours /\ connected /\ Quiet /\ tab \in Modes
  => Hz(tab, shown) = server.fc

\* A station on the list is a station, and of the band it is listed for,
\* although it is recorded under whatever tab is open, and judged by what was
\* measured last (scanner.c:80).  It need not be when the user tunes just
\* before a scan, which judges its first frequency at once, or during one
\* (scanner.c:100).
Heeds == world.patient
           \/ world.gestures \subseteq {"scan", "seek", "settings"}
ListedIsStation ==
  world.prompt /\ Heeds
    => \A m \in Modes : Listed(m) \subseteq world.stations[m]

\* With a user who waits, a scan does not go on to its next station before
\* the last one is on the list.
ListedInTime ==
  [][ /\ world.patient /\ world.prompt
      /\ server.smode = "on" /\ server'.smode = "on"
      /\ server.last > 0 /\ server'.last # server.last
      => server.last \in stations[tab] ]_vars

\* With a user who waits no heartbeat makes render throw, which would take
\* the samples behind it along (app.jsx:89).
NothingLost == world.patient => ~lost

\* With a user who waits the timer that tunes again after a change of rate
\* leaves the dongle where it is, on AM too, where it sends the frequency of
\* the dongle for that of the station; if page and server agree.
StaysPut ==
  [][ Ours /\ world.patient /\ "disconnect" \notin world.gestures
      /\ view = "settings" => server'.rfc = server.rfc ]_vars

\* Whatever the user sets on either tab arrives at the server as it is shown,
\* through floor, text and float, and comes back as the same tick; and every
\* sample of the dongle is the one it stands for.
ConversionsExact == connected => TicksArrive /\ SamplesArrive

\* The interface gets to know where the server is, however many heartbeats
\* are overwritten, and even if render threw before.
CatchesUp ==
  connected /\ server.smode = "off"
    ~> seen = Header \/ ~connected \/ server.smode # "off"
=============================================================================
