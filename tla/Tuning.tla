------------------------------- MODULE Tuning -------------------------------
(***************************************************************************)
(* What the radio is tuned to, and who tunes it:                           *)
(*                                                                         *)
(*   "main"  scanner_execute (scanner.c), once per turn of main's loop     *)
(*   "ws"    controller_command (controller.c), once per command           *)
(*                                                                         *)
(* Both set the frequency of the dongle and the frequency the demodulator  *)
(* reports, one after the other, and scanner_execute reads most of what it *)
(* works with before it takes the scanner's mutex.  Every such read is a   *)
(* step.  Frequencies are integers: the bands and steps are constants, the *)
(* SNR is the frequency it was measured on, and a station is a frequency   *)
(* whose SNR is above the threshold.                                       *)
(***************************************************************************)
EXTENDS Integers

CONSTANTS
  FreqMin, FreqMax,   \* the band of each mode
  FreqStep,           \* demod_lookup_frequency_step
  Offset,             \* of the upconverter, for each mode
  Sessions,           \* what may go on: [from, stations, commands, max]
  Tunable,            \* the frequencies the dongle accepts
  PromptSnr           \* is a new frequency measured within half a second?

Modes     == {"FM", "AM"}
ScanModes == {"OFF", "ON", "UP", "DOWN"}
NoFreq    == -1

(***************************************************************************)
(* A session with a client: the FM frequencies the radio may be on at its  *)
(* start (controller_create's 90.7 MHz, or where earlier commands have     *)
(* tuned to); the frequencies of the dongle where a station sends; the     *)
(* commands the client may send, [mode, scan, fc], absent options being    *)
(* "NONE", "NONE" and 0; and, a bound, how many it sends.                  *)
(***************************************************************************)
ASSUME ConstantsAssumption ==
  /\ FreqMin \in [Modes -> Nat \ {0}] /\ FreqMax \in [Modes -> Nat]
  /\ FreqStep \in [Modes -> Nat \ {0}] /\ Offset \in [Modes -> Nat]
  /\ \A m \in Modes : FreqMin[m] <= FreqMax[m]
  /\ \A s \in Sessions :
       /\ s.from \subseteq FreqMin["FM"] .. FreqMax["FM"]
       /\ \A f \in s.from : f + Offset["FM"] \in Tunable
       /\ s.stations \subseteq Tunable
       /\ s.commands \subseteq [mode : Modes \cup {"NONE"},
                                scan : ScanModes \cup {"NONE"}, fc : Nat]
       /\ s.max \in Nat
  /\ Tunable \subseteq Nat
  /\ PromptSnr \in BOOLEAN

VARIABLES
  mode,       \* demod: common.mode
  dfc,        \* demod: common.center_freq
  rfc,        \* the frequency of the dongle
  scan,       \* scanner: common.mode, fc, last_station_found
  common_m,   \* scanner: the thread that holds the mutex, or "none"
  settled,    \* have 0.5 s gone by since tune_time?
  air,        \* the frequency the samples on their way were taken on
  heard,      \* the frequency metrics.snr was measured on, NoFreq when reset
  pc,         \* where each thread is
  loc,        \* main: the locals of scanner_execute
  cmd,        \* ws: the command it carries out
  session,    \* the session that is under way, one of Sessions for good
  issued,     \* number of commands so far
  visited,    \* history: the frequencies the current scan has judged
  apart       \* history: may dfc and rfc be apart? (see RadioFollows)

vars == <<mode, dfc, rfc, scan, common_m, settled, air, heard, pc, loc, cmd,
          issued, visited, apart, session>>

NoLocals  == [smode |-> "OFF", due |-> FALSE, dmode |-> "FM", just |-> FALSE,
              fc |-> NoFreq, step |-> 0, strong |-> FALSE, next |-> NoFreq]
NoCommand == [mode |-> "NONE", scan |-> "NONE", fc |-> 0]

Band(m) == FreqMin[m] .. FreqMax[m]
Goto(t, from, to) == pc[t] = from /\ pc' = [pc EXCEPT ![t] = to]

\* Between the first and the second frequency of a tuning: the scanner sets
\* the demodulator's first, a command the dongle's.
StepHalfway    == pc["main"] = "tuneRtl"
CommandHalfway == pc["ws"] = "tuneDemod" /\ cmd.fc \in Band(mode)

\* rtlsdr_set_center_freq may refuse; nobody looks at the status
TuneDongle(f) == rfc' = IF f \in Tunable THEN f ELSE rfc

Init ==
  /\ mode = "FM"
  /\ session \in Sessions
  /\ dfc \in session.from
  /\ rfc = dfc + Offset["FM"]
  /\ scan = [mode |-> "OFF", fc |-> NoFreq, last |-> NoFreq]
  /\ common_m = "none"
  /\ settled = TRUE
  /\ air = rfc
  /\ heard = NoFreq
  /\ pc = [t \in {"main", "ws"} |-> "idle"]
  /\ loc = NoLocals
  /\ cmd = NoCommand
  /\ issued = 0
  /\ visited = {}
  /\ apart = FALSE

-----------------------------------------------------------------------------
(* "main": scanner_execute.  First the reads.                              *)

Keep == UNCHANGED <<mode, dfc, rfc, scan, common_m, settled, air, heard, cmd,
                    issued, visited, apart, session>>

GetScanMode ==                      \* and the clock; returns at once if off
  /\ Goto("main", "idle", "getDmode")
  /\ common_m = "none"
  /\ scan.mode # "OFF"
  /\ loc' = [loc EXCEPT !.smode = scan.mode, !.due = settled]
  /\ Keep

GetDmode ==
  /\ Goto("main", "getDmode", "getJust")
  /\ loc' = [loc EXCEPT !.dmode = mode]
  /\ Keep

GetJustStarted ==                   \* read without the mutex
  /\ Goto("main", "getJust", "getFreq")
  /\ loc' = [loc EXCEPT !.just = (scan.fc < 0)]
  /\ Keep

GetFreq ==
  /\ Goto("main", "getFreq", "getStep")
  /\ loc' = [loc EXCEPT !.fc = dfc]
  /\ Keep

GetStep ==                          \* of the mode there is now
  /\ Goto("main", "getStep", "getSnr")
  /\ loc' = [loc EXCEPT !.step = FreqStep[mode]]
  /\ Keep

GetSnr ==
  /\ Goto("main", "getSnr", "lock")
  /\ loc' = [loc EXCEPT !.strong = (heard \in session.stations)]
  /\ Keep

(* Then, under common_m, the decision ...                                  *)

Start == IF loc.just THEN loc.fc ELSE scan.fc            \* fc_initial
Up    == loc.fc + loc.step
Down  == loc.fc - loc.step

\* Off the end of the band, and the frequency that comes next.
Wraps == IF loc.smode = "DOWN" THEN Down < FreqMin[loc.dmode]
                               ELSE Up > FreqMax[loc.dmode]
Following ==
  CASE loc.smode = "DOWN" -> IF Wraps THEN FreqMax[loc.dmode] ELSE Down
    [] OTHER              -> IF Wraps THEN FreqMin[loc.dmode] ELSE Up

DueAtOnce   == ~loc.just
DoneEarly   == Wraps \/ Start <= Following
DoneAtStart == Following = Start
FoundAtEnd  == loc.strong /\ loc.fc # Start /\ Wraps

Due   == ~loc.just /\ loc.due
Done  == (Wraps \/ loc.fc < Start) /\ Start <= Following
Found == loc.strong /\ (loc.fc # Start \/ Wraps)

NotDue ==
  /\ Goto("main", "lock", "idle")
  /\ common_m = "none"
  /\ ~Due
  /\ scan' = [scan EXCEPT !.fc = Start]
  /\ loc' = NoLocals
  /\ UNCHANGED <<mode, dfc, rfc, common_m, settled, air, heard, cmd, issued,
                 visited, apart, session>>

Judge == /\ settled' = FALSE        \* mark time
         /\ visited' = visited \cup {loc.fc}

MoveOn == /\ common_m' = "main"
          /\ loc' = [loc EXCEPT !.next = Following]

StepScan ==
  /\ Goto("main", "lock", "tuneDemod")
  /\ common_m = "none"
  /\ Due /\ loc.smode = "ON"
  /\ scan' = [mode |-> IF Done THEN "OFF" ELSE scan.mode,
              fc   |-> scan.fc,
              last |-> IF loc.strong THEN loc.fc ELSE scan.last]
  /\ Judge /\ MoveOn
  /\ UNCHANGED <<mode, dfc, rfc, air, heard, cmd, issued, apart, session>>

SeekFound ==
  /\ Goto("main", "lock", "idle")
  /\ common_m = "none"
  /\ Due /\ loc.smode \in {"UP", "DOWN"} /\ Found
  /\ scan' = [mode |-> "OFF", fc |-> scan.fc, last |-> loc.fc]
  /\ Judge
  /\ loc' = NoLocals
  /\ UNCHANGED <<mode, dfc, rfc, common_m, air, heard, cmd, issued, apart,
                 session>>

SeekOn ==
  /\ Goto("main", "lock", "tuneDemod")
  /\ common_m = "none"
  /\ Due /\ loc.smode \in {"UP", "DOWN"} /\ ~Found
  /\ Judge /\ MoveOn
  /\ UNCHANGED <<mode, dfc, rfc, scan, air, heard, cmd, issued, apart,
                 session>>

(* ... and the new frequency, common_m still held.                         *)

StepTuneDemod ==
  /\ Goto("main", "tuneDemod", "tuneRtl")
  /\ dfc' = loc.next
  /\ apart' = CommandHalfway
  /\ UNCHANGED <<mode, rfc, scan, common_m, settled, air, heard, loc, cmd,
                 issued, visited, session>>

StepKeepDongle ==
  /\ Goto("main", "tuneRtl", "idle")
  /\ apart' = (apart \/ loc.dmode # mode)
  /\ common_m' = "none"
  /\ loc' = NoLocals
  /\ UNCHANGED <<mode, dfc, rfc, scan, settled, air, heard, cmd, issued,
                 visited, session>>

StepTuneRtl ==
  /\ Goto("main", "tuneRtl", "idle")
  /\ TuneDongle(loc.next + Offset[loc.dmode])
  /\ apart' = \/ apart \/ loc.dmode # mode
              \/ loc.next + Offset[loc.dmode] \notin Tunable
  /\ common_m' = "none"
  /\ loc' = NoLocals
  /\ UNCHANGED <<mode, dfc, scan, settled, air, heard, cmd, issued, visited,
                 session>>

-----------------------------------------------------------------------------
(* "ws": controller_command, in the order of the code; an option that is   *)
(* absent or not accepted leaves things as they are.  (Sample rates: see   *)
(* module Demod.)                                                          *)

Receive ==
  /\ Goto("ws", "idle", "setMode")
  /\ issued < session.max
  /\ issued' = issued + 1
  /\ cmd' \in session.commands
  /\ UNCHANGED <<mode, dfc, rfc, scan, common_m, settled, air, heard, loc,
                 visited, apart, session>>

SetMode ==
  /\ Goto("ws", "setMode", "setScan")
  /\ mode' = IF cmd.mode = "NONE" THEN mode ELSE cmd.mode
  /\ apart' = (apart \/ mode' # mode)
  /\ UNCHANGED <<dfc, rfc, scan, common_m, settled, air, heard, loc, cmd,
                 issued, visited, session>>

SetScan ==                          \* scanner_set_mode
  /\ Goto("ws", "setScan", "tuneRtl")
  /\ \/ cmd.scan = "NONE" /\ UNCHANGED <<scan, visited>>
     \/ /\ cmd.scan # "NONE" /\ common_m = "none"
        /\ scan' = [mode |-> cmd.scan, fc |-> NoFreq, last |-> NoFreq]
        /\ visited' = {}
  /\ UNCHANGED <<mode, dfc, rfc, common_m, settled, air, heard, loc, cmd,
                 issued, apart, session>>

TuneRtl ==
  /\ Goto("ws", "tuneRtl", "tuneDemod")
  /\ IF cmd.fc \in Band(mode)
     THEN /\ TuneDongle(cmd.fc + Offset[mode])
          /\ apart' = (StepHalfway \/ cmd.fc + Offset[mode] \notin Tunable)
     ELSE UNCHANGED <<rfc, apart>>
  /\ UNCHANGED <<mode, dfc, scan, common_m, settled, air, heard, loc, cmd,
                 issued, visited, session>>

TuneDemodAnywhere ==
  /\ Goto("ws", "tuneDemod", "execute")
  /\ dfc' = IF cmd.fc > 0 THEN cmd.fc ELSE dfc
  /\ UNCHANGED <<mode, rfc, scan, common_m, settled, air, heard, loc, cmd,
                 issued, visited, apart, session>>

TuneDemod ==
  /\ Goto("ws", "tuneDemod", "execute")
  /\ dfc' = IF cmd.fc \in Band(mode) THEN cmd.fc ELSE dfc
  /\ UNCHANGED <<mode, rfc, scan, common_m, settled, air, heard, loc, cmd,
                 issued, visited, apart, session>>

Execute ==                          \* demod_execute resets the metrics
  /\ Goto("ws", "execute", "idle")
  /\ heard' = NoFreq
  /\ cmd' = NoCommand
  /\ UNCHANGED <<mode, dfc, rfc, scan, common_m, settled, air, loc, issued,
                 visited, apart, session>>

-----------------------------------------------------------------------------
(* Time, and the samples.  A block is taken on one frequency and measured  *)
(* later; when PromptSnr, that takes less than the scanner's half second,  *)
(* and so does tuning the dongle.                                          *)

Sample ==
  /\ air # rfc
  /\ air' = rfc
  /\ UNCHANGED <<mode, dfc, rfc, scan, common_m, settled, heard, pc, loc, cmd,
                 issued, visited, apart, session>>

MeasureSnr ==
  /\ heard # air
  /\ heard' = air
  /\ UNCHANGED <<mode, dfc, rfc, scan, common_m, settled, air, pc, loc, cmd,
                 issued, visited, apart, session>>

HalfSecond ==
  /\ ~settled
  /\ PromptSnr => common_m = "none" /\ air = rfc /\ heard = rfc
  /\ settled' = TRUE
  /\ UNCHANGED <<mode, dfc, rfc, scan, common_m, air, heard, pc, loc, cmd,
                 issued, visited, apart, session>>

-----------------------------------------------------------------------------
Main ==
  \/ GetScanMode \/ GetDmode \/ GetJustStarted \/ GetFreq \/ GetStep \/ GetSnr
  \/ NotDue \/ StepScan \/ SeekFound \/ SeekOn \/ StepTuneDemod \/ StepTuneRtl
Command == SetMode \/ SetScan \/ TuneRtl \/ TuneDemod \/ Execute
Idle    == scan.mode = "OFF" /\ UNCHANGED vars   \* main, scanner off

Next == \/ Main \/ Receive \/ Command \/ Sample \/ MeasureSnr \/ HalfSecond
        \/ Idle

Spec == Init /\ [][Next]_vars

(***************************************************************************)
(* Both threads keep running (module Demod: every block is overtaken by a  *)
(* send, every command returns), blocks keep coming and time goes by; the  *)
(* websocket thread gets common_m, which main holds for two calls at most  *)
(* per block.                                                              *)
(***************************************************************************)
FairSpec ==
  /\ Spec
  /\ WF_vars(Main) /\ SF_vars(Command)
  /\ WF_vars(Sample) /\ WF_vars(MeasureSnr) /\ WF_vars(HalfSecond)

-----------------------------------------------------------------------------
(* Properties.                                                             *)

Freqs == Nat \cup {NoFreq}

\* Type invariant.
TypeOK ==
  /\ mode \in Modes
  /\ dfc \in Nat /\ rfc \in Tunable /\ air \in Tunable
  /\ heard \in Tunable \cup {NoFreq}
  /\ scan \in [mode : ScanModes, fc : Freqs, last : Freqs]
  /\ common_m \in {"none", "main"}
  /\ settled \in BOOLEAN
  /\ pc \in [{"main", "ws"} -> {"idle", "getDmode", "getJust", "getFreq",
               "getStep", "getSnr", "lock", "setMode", "setScan", "tuneRtl",
               "tuneDemod", "execute"}]
  /\ pc["main"] \in {"idle", "getDmode", "getJust", "getFreq", "getStep",
                     "getSnr", "lock", "tuneDemod", "tuneRtl"}
  /\ pc["ws"] \in {"idle", "setMode", "setScan", "tuneRtl", "tuneDemod",
                   "execute"}
  /\ loc \in [smode : ScanModes, due : BOOLEAN, dmode : Modes, just : BOOLEAN,
              fc : Freqs, step : Nat, strong : BOOLEAN, next : Freqs]
  /\ session \in Sessions
  /\ cmd \in session.commands \cup {NoCommand}
  /\ issued \in Nat
  /\ visited \subseteq Nat /\ apart \in BOOLEAN

(* What a session may be: one in which the mode stays, and one in which     *)
(* only the scanner tunes and the dongle accepts the whole band.           *)
KeepsBand   == \A c \in session.commands : c.mode \in {"NONE", "FM"}
ScannerTunes ==
  /\ KeepsBand
  /\ \A c \in session.commands : c.fc = 0
  /\ \A f \in Band("FM") : f + Offset["FM"] \in Tunable

\* As long as the mode stays, neither a command nor the scanner leaves the
\* band, whatever frequency the scan starts from and however commands and
\* steps of the scanner overlap.
InBand == KeepsBand => dfc \in Band(mode)

\* The dongle's frequency, which the header shows, and the demodulator's, from
\* which the scanner goes on and which it reports as a station, are set one
\* after the other by two threads, in opposite orders.  They come apart only
\* when both threads are at it at once, when the dongle refuses, or when the
\* mode alone is changed; and the next tuning that none of this happens to
\* brings them together again, however old what the scanner has read is.
RadioFollows ==
  ~apart /\ ~StepHalfway /\ ~CommandHalfway => rfc = dfc + Offset[mode]

\* "wait a tick for the SNR measurement to settle": as long as only the
\* scanner tunes, a frequency is reported as a station only if there is one,
\* never for the signal of another.
FoundIsStation ==
  ScannerTunes /\ scan.last # NoFreq =>
    scan.last + Offset[mode] \in session.stations

\* A scan ends by itself.
OnGrid(f) == (f - FreqMin[mode]) % FreqStep[mode] = 0
EndsScan ==
  /\ pc["main"] = "lock" /\ pc'["main"] = "tuneDemod"
  /\ loc.smode = "ON" /\ scan.mode # "OFF" /\ scan'.mode = "OFF"

\* Where a scan comes by: in steps from its start to the end of the band, and
\* then on the grid from the beginning of the band up to its start.
Course(s) ==
  {f \in Band(mode) :
     IF f < s THEN OnGrid(f) ELSE (f - s) % FreqStep[mode] = 0}

\* A scan that is left alone judges every frequency of its course before it
\* ends: it is not over when it wraps, and not before it has come to the last
\* frequency below its start.  If it starts on the grid that is the whole
\* grid; if not, the frequencies of the grid above its start are passed by.
ScanCoversAlone ==
  [][EndsScan /\ issued = 1 => Course(Start) \subseteq visited']_vars

\* scanner.c: "done scanning".  There were other commands, and the scan started
\* on the grid or has lost its start because it was started anew: the whole
\* grid has been judged.
JudgedAll  == {f \in Band(mode) : OnGrid(f)} \subseteq visited'
ScanCovers ==
  [][EndsScan /\ (Start = NoFreq \/ OnGrid(Start)) => JudgedAll]_vars

\* A scan ends, from whatever frequency it starts and wherever it is retuned
\* to within the band.
ScanEnds == KeepsBand /\ scan.mode = "ON" ~> scan.mode # "ON"

\* A seek that nobody retunes ends if there is a station to be found, on
\* another frequency of the grid than the one it starts from.
Elsewhere ==
  \E f \in Band(mode) :
    OnGrid(f) /\ f # dfc /\ f + Offset[mode] \in session.stations
SeekEnds ==
  /\ ScannerTunes /\ Elsewhere
  /\ scan.mode \in {"UP", "DOWN"} /\ pc["main"] = "idle" /\ scan.fc = NoFreq
  ~> scan.mode = "OFF"
=============================================================================
