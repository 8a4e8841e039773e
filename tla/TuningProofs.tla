---------------------------- MODULE TuningProofs ----------------------------
(***************************************************************************)
(* Theorems about module Tuning, for every band, step, offset and set of   *)
(* commands, stations and frequencies the dongle accepts.                  *)
(***************************************************************************)
EXTENDS Tuning, TLAPS

USE DEF Goto, Modes, NoFreq

-----------------------------------------------------------------------------
(* Type correctness.                                                       *)

\* The frequency the scanner has read, and the one it moves on to, are
\* frequencies: only the fields it has not set yet hold NoFreq.
LocalsSet ==
  /\ pc["main"] \in {"getStep", "getSnr", "lock"} => loc.fc \in Nat
  /\ pc["main"] \in {"tuneDemod", "tuneRtl"} => loc.next \in Nat

TypeInv == TypeOK /\ LocalsSet

\* What the scanner moves on to is in the band it looked up, if it starts
\* there, and a frequency in any case.
LEMMA FollowingFacts ==
  ASSUME TypeInv, pc["main"] = "lock"
  PROVE  /\ Following \in Nat
         /\ loc.fc \in Band(loc.dmode) => Following \in Band(loc.dmode)
<1>1. /\ FreqMin[loc.dmode] \in Nat \ {0} /\ FreqMax[loc.dmode] \in Nat
      /\ FreqMin[loc.dmode] <= FreqMax[loc.dmode]
      /\ loc.fc \in Nat /\ loc.step \in Nat
  BY ConstantsAssumption DEF TypeInv, TypeOK, LocalsSet
<1>. QED
  BY <1>1 DEF Following, Wraps, Up, Down, Band

\* The command the thread works on is one of the session's, or none.
LEMMA CommandFacts ==
  ASSUME TypeOK
  PROVE  cmd \in [mode : Modes \cup {"NONE"}, scan : ScanModes \cup {"NONE"},
                  fc : Nat]
  BY ConstantsAssumption DEF TypeOK, NoCommand

LEMMA InitType == Init => TypeInv
<1> SUFFICES ASSUME Init PROVE TypeInv
  OBVIOUS
<1> USE ConstantsAssumption DEF Init
<1>0. session \in Sessions /\ cmd \in session.commands \cup {NoCommand}
  OBVIOUS
<1>1. dfc \in Nat /\ rfc \in Tunable
  BY <1>0
<1>2. loc \in [smode : ScanModes, due : BOOLEAN, dmode : Modes, just : BOOLEAN,
               fc : Freqs, step : Nat, strong : BOOLEAN, next : Freqs]
  BY DEF NoLocals, ScanModes, Freqs
<1>3. scan \in [mode : ScanModes, fc : Freqs, last : Freqs]
  BY DEF ScanModes, Freqs
<1>. QED
  BY <1>0, <1>1, <1>2, <1>3 DEF TypeInv, TypeOK, LocalsSet

LEMMA NextType == TypeInv /\ [Next]_vars => TypeInv'
<1> SUFFICES ASSUME TypeInv, [Next]_vars PROVE TypeInv'
  OBVIOUS
<1>0. cmd \in [mode : Modes \cup {"NONE"}, scan : ScanModes \cup {"NONE"},
               fc : Nat]
  BY CommandFacts DEF TypeInv
<1> USE ConstantsAssumption
    DEF TypeInv, TypeOK, LocalsSet, ScanModes, Freqs
<1>1. CASE GetScanMode
  BY <1>1 DEF GetScanMode, Keep
<1>2. CASE GetDmode
  BY <1>2 DEF GetDmode, Keep
<1>3. CASE GetJustStarted
  <2> DEFINE b == (scan.fc < 0)
  <2>1. loc' = [loc EXCEPT !.just = b]
    BY <1>3 DEF GetJustStarted
  <2>2. b \in BOOLEAN
    OBVIOUS
  <2> HIDE DEF b
  <2>. QED
    BY <1>3, <2>1, <2>2 DEF GetJustStarted, Keep
<1>4. CASE GetFreq
  BY <1>4 DEF GetFreq, Keep
<1>5. CASE GetStep
  BY <1>5 DEF GetStep, Keep
<1>6. CASE GetSnr
  <2> DEFINE b == (heard \in session.stations)
  <2>1. loc' = [loc EXCEPT !.strong = b]
    BY <1>6 DEF GetSnr
  <2>2. b \in BOOLEAN
    OBVIOUS
  <2> HIDE DEF b
  <2>. QED
    BY <1>6, <2>1, <2>2 DEF GetSnr, Keep
<1>7. CASE NotDue
  BY <1>7 DEF NotDue, Start, NoLocals
<1>8. CASE StepScan
  BY <1>8, FollowingFacts DEF StepScan, Judge, MoveOn
<1>9. CASE SeekFound
  BY <1>9 DEF SeekFound, Judge, NoLocals
<1>10. CASE SeekOn
  BY <1>10, FollowingFacts DEF SeekOn, Judge, MoveOn
<1>11. CASE StepTuneDemod
  BY <1>11 DEF StepTuneDemod, CommandHalfway
<1>12. CASE StepTuneRtl
  BY <1>12 DEF StepTuneRtl, TuneDongle, NoLocals
<1>13. CASE Receive
  BY <1>13 DEF Receive
<1>14. CASE SetMode
  BY <1>0, <1>14 DEF SetMode
<1>15. CASE SetScan
  <2>1. scan' \in [mode : ScanModes, fc : Freqs, last : Freqs]
    <3>1. CASE cmd.scan = "NONE"
      BY <1>15, <3>1 DEF SetScan
    <3>2. CASE cmd.scan # "NONE"
      <4>1. cmd.scan \in ScanModes
        BY <1>0, <3>2
      <4>. QED
        BY <1>15, <3>2, <4>1 DEF SetScan
    <3>. QED
      BY <3>1, <3>2
  <2>2. visited' \subseteq Nat
    BY <1>15 DEF SetScan
  <2>. QED
    BY <1>15, <2>1, <2>2 DEF SetScan
<1>16. CASE TuneRtl
  <2>1. apart' \in BOOLEAN
    BY <1>16, Zenon DEF TuneRtl
  <2>2. rfc' \in Tunable
    BY <1>16 DEF TuneRtl, TuneDongle
  <2>. QED
    BY <1>16, <2>1, <2>2 DEF TuneRtl
<1>17. CASE TuneDemod
  BY <1>0, <1>17 DEF TuneDemod
<1>18. CASE Execute
  BY <1>18 DEF Execute
<1>19. CASE Sample
  BY <1>19 DEF Sample
<1>20. CASE MeasureSnr
  BY <1>20 DEF MeasureSnr
<1>21. CASE HalfSecond
  BY <1>21 DEF HalfSecond
<1>22. CASE UNCHANGED vars
  BY <1>22 DEF vars
<1>. QED
  BY <1>1, <1>2, <1>3, <1>4, <1>5, <1>6, <1>7, <1>8, <1>9, <1>10, <1>11,
     <1>12, <1>13, <1>14, <1>15, <1>16, <1>17, <1>18, <1>19, <1>20, <1>21,
     <1>22 DEF Next, Main, Command, Idle

\* Every variable keeps to its type, whatever the commands: the scanner
\* never moves on to a negative frequency, even off the grid and with the
\* step of one mode and the band of the other.
THEOREM TypeCorrect == Spec => []TypeOK
<1>1. TypeInv => TypeOK
  BY DEF TypeInv
<1>. QED
  BY <1>1, InitType, NextType, PTL DEF Spec

-----------------------------------------------------------------------------
(* The band.  In a session that keeps the band no command changes the      *)
(* mode, and the frequencies that are on their way to the demodulator are  *)
(* in the band of FM.                                                      *)

BandInv ==
  KeepsBand =>
    /\ mode = "FM"
    /\ dfc \in Band("FM")
    /\ pc["main"] \in {"getJust", "getFreq", "getStep", "getSnr", "lock",
                       "tuneDemod", "tuneRtl"} => loc.dmode = "FM"
    /\ pc["main"] \in {"getStep", "getSnr", "lock"} => loc.fc \in Band("FM")
    /\ pc["main"] \in {"tuneDemod", "tuneRtl"} => loc.next \in Band("FM")

\* Nothing changes the session, so what may be in it stays as it is.
LEMMA SessionStays ==
  ASSUME [Next]_vars
  PROVE  /\ session' = session
         /\ KeepsBand' <=> KeepsBand
         /\ ScannerTunes' <=> ScannerTunes
<1>1. session' = session
  BY DEF Next, Main, Receive, Command, Idle, vars, Keep, GetScanMode, GetDmode,
     GetJustStarted, GetFreq, GetStep, GetSnr, NotDue, StepScan, SeekFound,
     SeekOn, StepTuneDemod, StepTuneRtl, SetMode, SetScan, TuneRtl, TuneDemod,
     Execute, Sample, MeasureSnr, HalfSecond
<1>. QED
  BY <1>1 DEF KeepsBand, ScannerTunes, Band

\* In such a session the command under way does not change the mode.
LEMMA CommandKeepsBand ==
  ASSUME TypeOK, KeepsBand
  PROVE  cmd.mode \in {"NONE", "FM"}
  BY DEF TypeOK, KeepsBand, NoCommand

\* In one in which only the scanner tunes it does not tune, either.
LEMMA CommandKeepsFreq ==
  ASSUME TypeOK, ScannerTunes
  PROVE  cmd.fc \notin Band("FM")
<1>1. cmd.fc = 0
  BY DEF TypeOK, ScannerTunes, NoCommand
<1>. QED
  BY <1>1, ConstantsAssumption DEF Band

LEMMA InitBand == Init => BandInv
  BY ConstantsAssumption DEF Init, BandInv, Band, NoLocals

LEMMA NextBand ==
  ASSUME TypeInv, BandInv, [Next]_vars
  PROVE  BandInv'
<1> SUFFICES ASSUME KeepsBand PROVE BandInv'
  BY SessionStays DEF BandInv
<1>0. cmd.mode \in {"NONE", "FM"}
  BY CommandKeepsBand DEF TypeInv
<1> USE DEF BandInv, TypeInv, TypeOK
<1>1. CASE GetScanMode
  BY <1>1 DEF GetScanMode, Keep, Band
<1>2. CASE GetDmode
  BY <1>2 DEF GetDmode, Keep, Band
<1>3. CASE GetJustStarted
  BY <1>3 DEF GetJustStarted, Keep, Band
<1>4. CASE GetFreq
  BY <1>4 DEF GetFreq, Keep, Band
<1>5. CASE GetStep
  BY <1>5 DEF GetStep, Keep, Band
<1>6. CASE GetSnr
  BY <1>6 DEF GetSnr, Keep, Band
<1>7. CASE NotDue
  BY <1>7 DEF NotDue, Band
<1>8. CASE StepScan
  <2>1. Following \in Band("FM")
    BY <1>8, FollowingFacts DEF StepScan
  <2>. QED
    BY <1>8, <2>1 DEF StepScan, MoveOn, Band
<1>9. CASE SeekFound
  BY <1>9 DEF SeekFound, Band
<1>10. CASE SeekOn
  <2>1. Following \in Band("FM")
    BY <1>10, FollowingFacts DEF SeekOn
  <2>. QED
    BY <1>10, <2>1 DEF SeekOn, MoveOn, Band
<1>11. CASE StepTuneDemod
  BY <1>11 DEF StepTuneDemod, Band
<1>12. CASE StepTuneRtl
  BY <1>12 DEF StepTuneRtl, Band
<1>13. CASE Receive
  BY <1>13 DEF Receive, Band
<1>14. CASE SetMode
  BY <1>0, <1>14 DEF SetMode, Band
<1>15. CASE SetScan
  BY <1>15 DEF SetScan, Band
<1>16. CASE TuneRtl
  BY <1>16 DEF TuneRtl, Band
<1>17. CASE TuneDemod
  BY <1>17 DEF TuneDemod, Band
<1>18. CASE Execute
  BY <1>18 DEF Execute, Band
<1>19. CASE Sample
  BY <1>19 DEF Sample, Band
<1>20. CASE MeasureSnr
  BY <1>20 DEF MeasureSnr, Band
<1>21. CASE HalfSecond
  BY <1>21 DEF HalfSecond, Band
<1>22. CASE UNCHANGED vars
  BY <1>22 DEF vars, Band
<1>. QED
  BY <1>1, <1>2, <1>3, <1>4, <1>5, <1>6, <1>7, <1>8, <1>9, <1>10, <1>11,
     <1>12, <1>13, <1>14, <1>15, <1>16, <1>17, <1>18, <1>19, <1>20, <1>21,
     <1>22 DEF Next, Main, Command, Idle

\* As long as the mode stays, neither the scanner nor a command leaves the
\* band, for every band, step and start frequency and every interleaving of
\* the two: controller.c:171-189 checks the frequency before it sets it, and
\* scanner_execute wraps what it has read around the band.
THEOREM StaysInBand == Spec => []InBand
<1>1. TypeInv /\ BandInv /\ [Next]_vars => BandInv'
  BY NextBand
<1>2. BandInv => InBand
  BY DEF BandInv, InBand
<1>. QED
  BY <1>1, <1>2, InitType, NextType, InitBand, PTL DEF Spec

-----------------------------------------------------------------------------
(* The dongle and the demodulator.  While one thread tunes alone, what it  *)
(* has set first is what it sets next.                                     *)

RadioInv ==
  /\ RadioFollows
  /\ ~apart /\ StepHalfway    => dfc = loc.next /\ ~CommandHalfway
  /\ ~apart /\ CommandHalfway => rfc = cmd.fc + Offset[mode]

LEMMA InitRadio == Init => RadioInv
  BY DEF Init, RadioInv, RadioFollows, StepHalfway, CommandHalfway

LEMMA NextRadio ==
  ASSUME TypeInv, RadioInv, [Next]_vars
  PROVE  RadioInv'
<1> USE DEF RadioInv, RadioFollows, StepHalfway, CommandHalfway, TypeInv,
            TypeOK
<1>1. CASE StepTuneDemod
  BY <1>1 DEF StepTuneDemod
<1>2. CASE StepTuneRtl
  BY <1>2 DEF StepTuneRtl, TuneDongle
<1>3. CASE SetMode
  BY <1>3 DEF SetMode
<1>4. CASE TuneRtl
  BY <1>4 DEF TuneRtl, TuneDongle
<1>5. CASE TuneDemod
  BY <1>5 DEF TuneDemod
<1>6. CASE Receive \/ SetScan \/ Execute
  BY <1>6 DEF Receive, SetScan, Execute
<1>7. CASE \/ GetScanMode \/ GetDmode \/ GetJustStarted \/ GetFreq \/ GetStep
           \/ GetSnr \/ NotDue \/ StepScan \/ SeekFound \/ SeekOn
  BY <1>7 DEF GetScanMode, GetDmode, GetJustStarted, GetFreq, GetStep, GetSnr,
     NotDue, StepScan, SeekFound, SeekOn, Keep
<1>8. CASE Sample \/ MeasureSnr \/ HalfSecond \/ UNCHANGED vars
  BY <1>8 DEF Sample, MeasureSnr, HalfSecond, vars
<1>. QED
  BY <1>1, <1>2, <1>3, <1>4, <1>5, <1>6, <1>7, <1>8 DEF Next, Main, Command,
     Idle

\* Dongle and demodulator come apart only by two tunings at once, a refusal
\* or a change of the mode alone, and the next tuning that none of this
\* happens to brings them together: for every session, whatever the scanner
\* has read before a command changed it.
THEOREM DongleFollows == Spec => []RadioFollows
<1>1. TypeInv /\ RadioInv /\ [Next]_vars => RadioInv'
  BY NextRadio
<1>2. RadioInv => RadioFollows
  BY DEF RadioInv
<1>. QED
  BY <1>1, <1>2, InitType, NextType, InitRadio, PTL DEF Spec

(* In a session in which only the scanner tunes, nobody can tune between   *)
(* its two calls, and what it has read of the demodulator's frequency      *)
(* stays true until it acts upon it.                                       *)

FollowInv ==
  ScannerTunes =>
    /\ pc["main"] # "tuneRtl" => rfc = dfc + Offset[mode]
    /\ pc["main"] = "tuneRtl" => dfc = loc.next
    /\ pc["main"] \in {"getStep", "getSnr", "lock"} => loc.fc = dfc

LEMMA InitFollow == Init => FollowInv
  BY ConstantsAssumption DEF Init, FollowInv

LEMMA NextFollow ==
  ASSUME TypeInv, BandInv, FollowInv, [Next]_vars
  PROVE  FollowInv'
<1> SUFFICES ASSUME ScannerTunes PROVE FollowInv'
  BY SessionStays DEF FollowInv
<1>0. mode = "FM" /\ mode' = "FM"
  BY NextBand, SessionStays DEF BandInv, ScannerTunes
<1>1. cmd.fc \notin Band("FM")
  BY CommandKeepsFreq DEF TypeInv
<1> USE DEF FollowInv, TypeInv, TypeOK
<1>2. CASE StepTuneDemod
  BY <1>0, <1>2 DEF StepTuneDemod
<1>3. CASE StepTuneRtl
  <2>1. loc.next \in Band("FM") /\ loc.dmode = "FM"
    BY <1>3 DEF StepTuneRtl, BandInv, ScannerTunes
  <2>2. loc.next + Offset["FM"] \in Tunable
    BY <2>1 DEF ScannerTunes
  <2>. QED
    BY <1>0, <1>3, <2>1, <2>2 DEF StepTuneRtl, TuneDongle
<1>4. CASE Receive
  BY <1>0, <1>4 DEF Receive
<1>5. CASE TuneRtl
  BY <1>0, <1>1, <1>5 DEF TuneRtl
<1>6. CASE TuneDemod
  BY <1>0, <1>1, <1>6 DEF TuneDemod
<1>7. CASE \/ GetScanMode \/ GetDmode \/ GetJustStarted \/ GetFreq \/ GetStep
           \/ GetSnr \/ NotDue \/ StepScan \/ SeekFound \/ SeekOn
  BY <1>0, <1>7 DEF GetScanMode, GetDmode, GetJustStarted, GetFreq, GetStep,
     GetSnr, NotDue, StepScan, SeekFound, SeekOn, MoveOn, NoLocals, Keep
<1>8. CASE \/ SetMode \/ SetScan \/ Execute \/ Sample \/ MeasureSnr
           \/ HalfSecond \/ UNCHANGED vars
  BY <1>0, <1>8 DEF SetMode, SetScan, Execute, Sample, MeasureSnr, HalfSecond,
     vars
<1>. QED
  BY <1>2, <1>3, <1>4, <1>5, <1>6, <1>7, <1>8 DEF Next, Main, Command, Idle

-----------------------------------------------------------------------------
(* The stations.  Once the half second is over, what was measured last was *)
(* measured on the frequency of the dongle, and it stays that way until    *)
(* the scanner marks the time again: a step whose time had come when it    *)
(* looked at the clock compares the SNR of the frequency it has read.      *)

SettledInv ==
  PromptSnr /\ ScannerTunes =>
    /\ settled => air = rfc /\ heard \in {rfc, NoFreq}
    /\ settled => pc["main"] \notin {"tuneDemod", "tuneRtl"}
    /\ pc["main"] \in {"tuneDemod", "tuneRtl"} => common_m = "main"
    /\ pc["main"] \in {"getDmode", "getJust", "getFreq", "getStep", "getSnr",
                       "lock"} /\ loc.due => settled
    /\ pc["main"] = "lock" /\ loc.due /\ loc.strong
         => loc.fc + Offset["FM"] \in session.stations
    /\ scan.last # NoFreq => scan.last + Offset["FM"] \in session.stations

LEMMA InitSettled == Init => SettledInv
  BY ConstantsAssumption DEF Init, SettledInv

LEMMA NextSettled ==
  ASSUME TypeInv, BandInv, FollowInv, SettledInv, [Next]_vars
  PROVE  SettledInv'
<1> SUFFICES ASSUME PromptSnr, ScannerTunes PROVE SettledInv'
  BY SessionStays DEF SettledInv
<1>0. mode = "FM" /\ session' = session
  BY SessionStays DEF BandInv, ScannerTunes
<1>1. cmd.fc \notin Band("FM")
  BY CommandKeepsFreq DEF TypeInv
<1>2. NoFreq \notin session.stations
  BY ConstantsAssumption DEF TypeInv, TypeOK
<1> USE DEF SettledInv, TypeInv, TypeOK
<1>3. CASE GetScanMode
  BY <1>0, <1>3 DEF GetScanMode, Keep
<1>4. CASE GetDmode \/ GetJustStarted \/ GetFreq \/ GetStep
  BY <1>0, <1>4 DEF GetDmode, GetJustStarted, GetFreq, GetStep, Keep
<1>5. CASE GetSnr
  <2>1. loc' = [loc EXCEPT !.strong = (heard \in session.stations)]
    BY <1>5 DEF GetSnr
  <2>2. loc'.due = loc.due /\ loc'.fc = loc.fc
        /\ loc'.strong = (heard \in session.stations)
    BY <2>1
  <2>3. ASSUME loc.due, heard \in session.stations
        PROVE  loc.fc + Offset["FM"] \in session.stations
    <3>1. heard = rfc
      BY <1>2, <1>5, <2>3 DEF GetSnr, Goto
    <3>2. rfc = dfc + Offset["FM"] /\ loc.fc = dfc
      BY <1>0, <1>5 DEF GetSnr, Goto, FollowInv
    <3>. QED
      BY <2>3, <3>1, <3>2
  <2>. QED
    BY <1>0, <1>5, <2>2, <2>3 DEF GetSnr, Keep
<1>6. CASE NotDue
  BY <1>0, <1>6 DEF NotDue
<1>7. CASE StepScan
  BY <1>0, <1>7 DEF StepScan, Due, Judge, MoveOn
<1>8. CASE SeekFound
  BY <1>0, <1>8 DEF SeekFound, Found, Due, Judge
<1>9. CASE SeekOn
  BY <1>0, <1>9 DEF SeekOn, Judge, MoveOn
<1>10. CASE StepTuneDemod
  BY <1>0, <1>10 DEF StepTuneDemod
<1>11. CASE StepTuneRtl
  BY <1>0, <1>11 DEF StepTuneRtl, NoLocals
<1>12. CASE Receive \/ SetMode
  BY <1>0, <1>12 DEF Receive, SetMode
<1>13. CASE SetScan
  BY <1>0, <1>13 DEF SetScan
<1>14. CASE TuneRtl
  BY <1>0, <1>1, <1>14 DEF TuneRtl
<1>15. CASE TuneDemod
  BY <1>0, <1>1, <1>15 DEF TuneDemod
<1>16. CASE Execute
  BY <1>0, <1>16 DEF Execute
<1>17. CASE Sample \/ MeasureSnr
  BY <1>0, <1>17 DEF Sample, MeasureSnr
<1>18. CASE HalfSecond
  BY <1>0, <1>18 DEF HalfSecond
<1>19. CASE UNCHANGED vars
  BY <1>0, <1>19 DEF vars
<1>. QED
  BY <1>3, <1>4, <1>5, <1>6, <1>7, <1>8, <1>9, <1>10, <1>11, <1>12, <1>13,
     <1>14, <1>15, <1>16, <1>17, <1>18, <1>19 DEF Next, Main, Command, Idle

\* If a frequency is measured before the scanner's half second is over, the
\* scanner reports no station where there is none: for every band and every
\* set of stations, although it reads the clock, the frequency and the SNR
\* one after the other and without a mutex.
THEOREM FoundIsTrue == PromptSnr => (Spec => []FoundIsStation)
<1> SUFFICES ASSUME PromptSnr PROVE Spec => []FoundIsStation
  OBVIOUS
<1>1. TypeInv /\ BandInv /\ [Next]_vars => BandInv'
  BY NextBand
<1>2. TypeInv /\ BandInv /\ FollowInv /\ [Next]_vars => FollowInv'
  BY NextFollow
<1>3. TypeInv /\ BandInv /\ FollowInv /\ SettledInv /\ [Next]_vars
      => SettledInv'
  BY NextSettled
<1>4. BandInv /\ SettledInv => FoundIsStation
  BY DEF BandInv, SettledInv, FoundIsStation, ScannerTunes
<1>. QED
  BY <1>1, <1>2, <1>3, <1>4, InitType, NextType, InitBand, InitFollow,
     InitSettled, PTL DEF Spec

-----------------------------------------------------------------------------
(* The grid of a band.                                                     *)

LEMMA GridQuotient ==
  ASSUME NEW lo \in Int, NEW st \in Nat \ {0}, NEW f \in Int,
         (f - lo) % st = 0
  PROVE  \E k \in Int : f = lo + k * st
<1>. DEFINE k == (f - lo) \div st
<1>1. k \in Int
  BY SMT
<1>2. f - lo = k * st
  BY SMT
<1>. QED
  BY <1>1, <1>2, SMT

LEMMA GridMultiple ==
  ASSUME NEW st \in Nat \ {0}, NEW k \in Int
  PROVE  (k * st) % st = 0
BY Z3

\* Two of its frequencies are a step apart at least.
LEMMA GridGap ==
  ASSUME NEW lo \in Int, NEW st \in Nat \ {0}, NEW f \in Int, NEW g \in Int,
         (f - lo) % st = 0, (g - lo) % st = 0, f < g
  PROVE  f + st <= g
<1>1. PICK k \in Int : f = lo + k * st
  BY GridQuotient
<1>2. PICK l \in Int : g = lo + l * st
  BY GridQuotient
<1>3. k < l
  <2>1. SUFFICES ASSUME l <= k PROVE FALSE
    OBVIOUS
  <2>2. l * st <= k * st
    BY <2>1, Z3
  <2>. QED
    BY <1>1, <1>2, <2>2
<1>4. (k + 1) * st <= l * st
  BY <1>3, Z3
<1>5. (k + 1) * st = k * st + st
  BY Z3
<1>. QED
  BY <1>1, <1>2, <1>4, <1>5

LEMMA GridNext ==
  ASSUME NEW lo \in Int, NEW st \in Nat \ {0}, NEW f \in Int,
         (f - lo) % st = 0
  PROVE  ((f + st) - lo) % st = 0
<1>1. PICK k \in Int : f = lo + k * st
  BY GridQuotient
<1>2. (f + st) - lo = (k + 1) * st
  BY <1>1, Z3
<1>. QED
  BY <1>2, GridMultiple

OnFm(f) == (f - FreqMin["FM"]) % FreqStep["FM"] = 0

LEMMA GridFacts ==
  /\ OnFm(FreqMin["FM"])
  /\ \A f \in Int : OnFm(f) => OnFm(f + FreqStep["FM"])
  /\ \A f, g \in Int :
       OnFm(f) /\ OnFm(g) /\ f < g => f + FreqStep["FM"] <= g
<1>1. FreqMin["FM"] \in Int /\ FreqStep["FM"] \in Nat \ {0}
  BY ConstantsAssumption
<1>2. (FreqMin["FM"] - FreqMin["FM"]) % FreqStep["FM"] = 0
  <2>1. /\ (0 * FreqStep["FM"]) % FreqStep["FM"] = 0
        /\ 0 * FreqStep["FM"] = 0 /\ FreqMin["FM"] - FreqMin["FM"] = 0
    BY <1>1, GridMultiple
  <2>. QED
    BY <2>1
<1>3. \A f \in Int :
        (f - FreqMin["FM"]) % FreqStep["FM"] = 0
        => ((f + FreqStep["FM"]) - FreqMin["FM"]) % FreqStep["FM"] = 0
  BY <1>1, GridNext
<1>4. \A f, g \in Int :
        /\ (f - FreqMin["FM"]) % FreqStep["FM"] = 0
        /\ (g - FreqMin["FM"]) % FreqStep["FM"] = 0 /\ f < g
        => f + FreqStep["FM"] <= g
  BY <1>1, GridGap
<1>. QED
  BY <1>2, <1>3, <1>4, Zenon DEF OnFm

-----------------------------------------------------------------------------
(* A scan that is left alone.  It has judged its course from where it      *)
(* started up to where it is, or it has come round and has also judged the *)
(* grid below where it is.  The commands have one option, as those of      *)
(* client.jsx have: one that tunes as it scans moves the scan away from    *)
(* where it started.                                                       *)

SingleOptions ==
  \A s \in Sessions : \A c \in s.commands :
    c.scan # "NONE" => c.mode = "NONE" /\ c.fc = 0

\* A number of steps from s.
From(s, f) == (f - s) % FreqStep["FM"] = 0

LEMMA FromFacts ==
  ASSUME NEW s \in Int
  PROVE  /\ From(s, s)
         /\ \A f \in Int : From(s, f) => From(s, f + FreqStep["FM"])
         /\ \A f, g \in Int :
              From(s, f) /\ From(s, g) /\ f < g => f + FreqStep["FM"] <= g
<1>1. FreqStep["FM"] \in Nat \ {0}
  BY ConstantsAssumption
<1>2. (s - s) % FreqStep["FM"] = 0
  <2>1. /\ (0 * FreqStep["FM"]) % FreqStep["FM"] = 0
        /\ 0 * FreqStep["FM"] = 0 /\ s - s = 0
    BY <1>1, GridMultiple
  <2>. QED
    BY <2>1
<1>3. \A f \in Int : (f - s) % FreqStep["FM"] = 0
                    => ((f + FreqStep["FM"]) - s) % FreqStep["FM"] = 0
  BY <1>1, GridNext
<1>4. \A f, g \in Int : /\ (f - s) % FreqStep["FM"] = 0
                       /\ (g - s) % FreqStep["FM"] = 0 /\ f < g
                       => f + FreqStep["FM"] <= g
  BY <1>1, GridGap
<1>. QED
  BY <1>2, <1>3, <1>4, Zenon DEF From

\* The frequencies V hold the course from s up to before c, or all of it but
\* the part from c up to before s.
Ahead(V, s, c) ==
  /\ s <= c /\ From(s, c)
  /\ \A f \in Band("FM") : From(s, f) /\ s <= f /\ f < c => f \in V
Round(V, s, c) ==
  /\ c < s /\ OnFm(c)
  /\ \A f \in Band("FM") :
       \/ From(s, f) /\ s <= f
       \/ OnFm(f) /\ f < s /\ f < c
       => f \in V
All(V, s) ==
  \A f \in Band("FM") :
    (From(s, f) /\ s <= f) \/ (OnFm(f) /\ f < s) => f \in V

\* What a step of a scan from s that is at c does to that.
LEMMA ScanStep ==
  ASSUME NEW s \in Band("FM"), NEW c \in Band("FM"),
         NEW V, Ahead(V, s, c) \/ Round(V, s, c),
         NEW n,
         c + FreqStep["FM"] > FreqMax["FM"] => n = FreqMin["FM"],
         ~(c + FreqStep["FM"] > FreqMax["FM"]) => n = c + FreqStep["FM"]
  PROVE  /\ (c + FreqStep["FM"] > FreqMax["FM"] \/ c < s) /\ s <= n =>
              All(V \cup {c}, s)
         /\ ~((c + FreqStep["FM"] > FreqMax["FM"] \/ c < s) /\ s <= n) =>
              Ahead(V \cup {c}, s, n) \/ Round(V \cup {c}, s, n)
<1>. DEFINE lo == FreqMin["FM"]
            hi == FreqMax["FM"]
            st == FreqStep["FM"]
            w  == c + st > hi
<1>1. lo \in Nat /\ hi \in Nat /\ st \in Nat \ {0} /\ lo <= hi
  BY ConstantsAssumption
<1>2. Band("FM") = lo .. hi
  BY DEF Band
<1>3. /\ \A f \in Int : OnFm(f) => OnFm(f + st)
      /\ \A f, g \in Int : OnFm(f) /\ OnFm(g) /\ f < g => f + st <= g
      /\ OnFm(lo)
  BY GridFacts
<1>4. /\ \A f \in Int : From(s, f) => From(s, f + st)
      /\ \A f, g \in Int : From(s, f) /\ From(s, g) /\ f < g => f + st <= g
  <2>1. s \in Int
    BY <1>1, <1>2
  <2>. QED
    BY <2>1, FromFacts
<1>5. (w => n = lo) /\ (~w => n = c + st) /\ (w => c + st > hi)
  OBVIOUS
<1>. SUFFICES /\ (w \/ c < s) /\ s <= n => All(V \cup {c}, s)
              /\ ~((w \/ c < s) /\ s <= n) =>
                   Ahead(V \cup {c}, s, n) \/ Round(V \cup {c}, s, n)
  BY <1>2
<1>. HIDE DEF lo, hi, st, w
<1>6. /\ s \in Int /\ c \in Int /\ c + st \in Int
      /\ lo <= s /\ s <= hi /\ lo <= c /\ c <= hi
  BY <1>1, <1>2
<1>7. CASE w
  <2>1. n = lo /\ c + st > hi /\ n \in Int
    BY <1>1, <1>5, <1>7
  <2>2. \A f \in lo .. hi : From(s, f) /\ s <= f => f \in V \cup {c}
    <3>1. CASE Ahead(V, s, c)
      <4>1. \A f \in lo .. hi : From(s, f) => f <= c
        BY <1>1, <1>4, <1>6, <2>1, <3>1 DEF Ahead
      <4>. QED
        BY <1>1, <1>2, <1>6, <3>1, <4>1 DEF Ahead
    <3>2. CASE Round(V, s, c)
      BY <1>2, <3>2 DEF Round
    <3>. QED
      BY <3>1, <3>2
  <2>3. CASE s <= n
    <3>1. s = lo
      BY <1>1, <1>6, <2>1, <2>3
    <3>2. All(V \cup {c}, s)
      BY <1>1, <1>2, <2>2, <3>1 DEF All
    <3>. QED
      BY <1>7, <2>3, <3>2
  <2>4. CASE ~(s <= n)
    <3>1. n < s /\ \A f \in lo .. hi : ~(f < n)
      BY <1>1, <1>6, <2>1, <2>4
    <3>2. Round(V \cup {c}, s, n)
      BY <1>2, <1>3, <2>1, <2>2, <3>1 DEF Round
    <3>. QED
      BY <2>4, <3>2
  <2>. QED
    BY <2>3, <2>4
<1>8. CASE ~w
  <2>1. n = c + st /\ n \in Int /\ c < n
    BY <1>1, <1>5, <1>6, <1>8
  <2>2. CASE Ahead(V, s, c)
    <3>1. s <= n /\ ~(c < s) /\ From(s, n)
      BY <1>1, <1>4, <1>6, <2>1, <2>2 DEF Ahead
    <3>2. \A f \in lo .. hi : From(s, f) /\ f < n => f <= c
      <4>1. SUFFICES ASSUME NEW f \in lo .. hi, From(s, f), f < n, c < f
                     PROVE  FALSE
        BY <1>1, <1>6
      <4>2. c + st <= f
        BY <1>1, <1>4, <1>6, <2>2, <4>1 DEF Ahead
      <4>. QED
        BY <1>1, <1>6, <2>1, <4>1, <4>2
    <3>3. \A f \in lo .. hi :
            From(s, f) /\ s <= f /\ f < n => f \in V \cup {c}
      BY <1>1, <1>2, <1>6, <2>2, <3>2 DEF Ahead
    <3>. QED
      BY <1>2, <1>8, <3>1, <3>3 DEF Ahead
  <2>3. CASE Round(V, s, c)
    <3>1. OnFm(n) /\ c < s
      BY <1>3, <1>6, <2>1, <2>3 DEF Round
    <3>2. \A f \in lo .. hi : OnFm(f) /\ f < n => f <= c
      <4>1. SUFFICES ASSUME NEW f \in lo .. hi, OnFm(f), f < n, c < f
                     PROVE  FALSE
        BY <1>1, <1>6
      <4>2. c + st <= f
        BY <1>1, <1>3, <1>6, <2>3, <4>1 DEF Round
      <4>. QED
        BY <1>1, <1>6, <2>1, <4>1, <4>2
    <3>3. \A f \in lo .. hi :
            /\ From(s, f) /\ s <= f => f \in V \cup {c}
            /\ OnFm(f) /\ f < s /\ f < n => f \in V \cup {c}
      BY <1>1, <1>2, <1>6, <2>3, <3>2 DEF Round
    <3>4. CASE s <= n
      <4>1. \A f \in lo .. hi : f < s => f < n
        BY <1>1, <1>6, <2>1, <3>4
      <4>2. All(V \cup {c}, s)
        BY <1>2, <3>3, <4>1 DEF All
      <4>. QED
        BY <3>1, <3>4, <4>2
    <3>5. CASE ~(s <= n)
      <4>1. n < s
        BY <1>6, <2>1, <3>5
      <4>2. Round(V \cup {c}, s, n)
        BY <1>2, <3>1, <3>3, <4>1 DEF Round
      <4>. QED
        BY <3>5, <4>2
    <3>. QED
      BY <3>4, <3>5
  <2>. QED
    BY <2>2, <2>3
<1>. QED
  BY <1>7, <1>8

Waiting == issued = 0 \/ pc["ws"] \in {"setMode", "setScan"}
Scans   == pc["main"] # "idle" \/ scan.mode # "OFF"
Reading == pc["main"] \in {"getDmode", "getJust", "getFreq", "getStep",
                           "getSnr", "lock"}
Moving  == pc["main"] \in {"tuneDemod", "tuneRtl"}
Now     == IF Moving THEN loc.next ELSE dfc

\* Until the command has set the scanner nothing happens ...
WaitingInv ==
  Waiting =>
    /\ issued = 0 => pc["ws"] = "idle"
    /\ ~Scans /\ scan.fc = NoFreq /\ visited = {}
    /\ dfc \in Band("FM")
    /\ cmd.scan # "NONE" \/ issued = 0 => mode = "FM"

\* ... and from then on only the scanner tunes: what it reads stays true.
ScansInv ==
  Scans =>
    /\ mode = "FM" /\ cmd.fc = 0
    /\ dfc \in Band("FM") /\ scan.fc \in Band("FM") \cup {NoFreq}
    /\ Reading => scan.mode = loc.smode
    /\ Moving => loc.next \in Band("FM") /\ scan.fc # NoFreq
    /\ pc["main"] = "tuneRtl" => dfc = loc.next
    /\ pc["main"] \in {"getJust", "getFreq", "getStep", "getSnr", "lock"}
         => loc.dmode = "FM"
    /\ pc["main"] \in {"getFreq", "getStep", "getSnr", "lock"}
         => (loc.just <=> scan.fc = NoFreq)
    /\ pc["main"] \in {"getStep", "getSnr", "lock"} => loc.fc = dfc
    /\ pc["main"] \in {"getSnr", "lock"} => loc.step = FreqStep["FM"]

CoverInv ==
  scan.mode = "ON" /\ scan.fc # NoFreq =>
    Ahead(visited, scan.fc, Now) \/ Round(visited, scan.fc, Now)

AloneInv == issued <= 1 => WaitingInv /\ ScansInv /\ CoverInv

LEMMA InitAlone == Init => AloneInv
  BY ConstantsAssumption
     DEF Init, AloneInv, WaitingInv, ScansInv, CoverInv, Scans, Waiting, Band

\* What a scan's step moves on to.
LEMMA AloneFollowing ==
  ASSUME TypeInv, ScansInv, pc["main"] = "lock"
  PROVE  /\ Following \in Band("FM")
         /\ loc.smode = "ON" =>
              /\ Wraps <=> dfc + FreqStep["FM"] > FreqMax["FM"]
              /\ Following = IF Wraps THEN FreqMin["FM"]
                                      ELSE dfc + FreqStep["FM"]
<1>1. /\ loc.dmode = "FM" /\ loc.fc = dfc /\ loc.step = FreqStep["FM"]
      /\ dfc \in Band("FM")
  BY DEF ScansInv, Scans
<1>2. Following \in Band("FM")
  BY <1>1, FollowingFacts
<1>3. ASSUME loc.smode = "ON"
      PROVE  /\ Wraps <=> dfc + FreqStep["FM"] > FreqMax["FM"]
             /\ Following = IF Wraps THEN FreqMin["FM"]
                                     ELSE dfc + FreqStep["FM"]
  BY <1>1, <1>3 DEF Wraps, Following, Up
<1>. QED
  BY <1>2, <1>3

\* A step of the scan that is left alone.
LEMMA AloneStep ==
  ASSUME TypeInv, ScansInv, CoverInv, StepScan
  PROVE  /\ Done => All(visited', scan.fc)
         /\ ~Done => \/ Ahead(visited', scan.fc, Following)
                     \/ Round(visited', scan.fc, Following)
         /\ scan.fc \in Band("FM") /\ Start = scan.fc
<1>1. /\ pc["main"] = "lock" /\ loc.smode = "ON" /\ ~loc.just
      /\ visited' = visited \cup {loc.fc}
  BY DEF StepScan, Due, Judge, Goto
<1>2. /\ scan.mode = "ON" /\ loc.fc = dfc /\ dfc \in Band("FM")
      /\ scan.fc \in Band("FM")
  BY <1>1 DEF ScansInv, Scans, Reading
<1>3. scan.fc # NoFreq /\ Start = scan.fc /\ Now = dfc
  BY <1>1, <1>2, ConstantsAssumption DEF Start, Band, Now, Moving
<1>. DEFINE w == dfc + FreqStep["FM"] > FreqMax["FM"]
            n == IF w THEN FreqMin["FM"] ELSE dfc + FreqStep["FM"]
<1>4. Following = n /\ (Wraps <=> w)
  BY <1>1, AloneFollowing
<1>5. Done <=> (w \/ dfc < scan.fc) /\ scan.fc <= n
  BY <1>2, <1>3, <1>4 DEF Done
<1>6. Ahead(visited, scan.fc, dfc) \/ Round(visited, scan.fc, dfc)
  BY <1>2, <1>3 DEF CoverInv
<1>7. /\ dfc + FreqStep["FM"] > FreqMax["FM"] => n = FreqMin["FM"]
      /\ ~(dfc + FreqStep["FM"] > FreqMax["FM"])
           => n = dfc + FreqStep["FM"]
  OBVIOUS
<1>. HIDE DEF n
<1>8. /\ (dfc + FreqStep["FM"] > FreqMax["FM"] \/ dfc < scan.fc)
           /\ scan.fc <= n
           => All(visited \cup {dfc}, scan.fc)
      /\ ~((dfc + FreqStep["FM"] > FreqMax["FM"] \/ dfc < scan.fc)
             /\ scan.fc <= n)
           => \/ Ahead(visited \cup {dfc}, scan.fc, n)
              \/ Round(visited \cup {dfc}, scan.fc, n)
  BY <1>2, <1>6, <1>7, ScanStep
<1>. QED
  BY <1>1, <1>2, <1>3, <1>4, <1>5, <1>8

LEMMA NextAlone ==
  ASSUME SingleOptions, TypeInv, AloneInv, [Next]_vars
  PROVE  AloneInv'
<1> SUFFICES ASSUME issued' <= 1
             PROVE  WaitingInv' /\ ScansInv' /\ CoverInv'
  BY DEF AloneInv
<1>0. issued <= issued' /\ issued \in Nat /\ issued' \in Nat
  <2>1. issued \in Nat
    BY DEF TypeInv, TypeOK
  <2>2. issued' = issued \/ issued' = issued + 1
    BY DEF Next, Main, Receive, Command, Idle, vars, Keep, GetScanMode,
       GetDmode, GetJustStarted, GetFreq, GetStep, GetSnr, NotDue, StepScan,
       SeekFound, SeekOn, StepTuneDemod, StepTuneRtl, SetMode, SetScan,
       TuneRtl, TuneDemod, Execute, Sample, MeasureSnr, HalfSecond
  <2>. QED
    BY <2>1, <2>2
<1>1. WaitingInv /\ ScansInv /\ CoverInv
  BY <1>0 DEF AloneInv
<1>2. cmd.scan # "NONE" => cmd.mode = "NONE" /\ cmd.fc = 0
  BY DEF SingleOptions, TypeInv, TypeOK, NoCommand
<1>3. 0 \notin Band("FM") /\ Band("FM") \subseteq Nat
  BY ConstantsAssumption DEF Band
<1> USE DEF TypeInv, TypeOK
<1>4. ASSUME UNCHANGED <<mode, dfc, scan, pc, loc, cmd, issued, visited>>
      PROVE  WaitingInv' /\ ScansInv' /\ CoverInv'
  BY <1>1, <1>4 DEF WaitingInv, ScansInv, CoverInv, Waiting, Scans, Reading,
     Moving, Now, Ahead, Round
<1>5. ASSUME Main
      PROVE  Scans /\ ~Waiting /\ ~Waiting'
  <2>1. Scans
    BY <1>5 DEF Main, GetScanMode, GetDmode, GetJustStarted, GetFreq, GetStep,
       GetSnr, NotDue, StepScan, SeekFound, SeekOn, StepTuneDemod,
       StepTuneRtl, Scans
  <2>2. issued' = issued /\ pc'["ws"] = pc["ws"]
    BY <1>5 DEF Main, Keep, GetScanMode, GetDmode, GetJustStarted, GetFreq,
       GetStep, GetSnr, NotDue, StepScan, SeekFound, SeekOn, StepTuneDemod,
       StepTuneRtl
  <2>. QED
    BY <1>1, <2>1, <2>2 DEF WaitingInv, Waiting
<1>6. CASE GetScanMode
  <2>. WaitingInv'
    BY <1>5, <1>6 DEF Main, WaitingInv
  <2>. QED
    BY <1>1, <1>3, <1>5, <1>6
       DEF GetScanMode, Main, Keep, ScansInv, CoverInv, Scans,
       Reading, Moving, Now, Ahead, Round
<1>7. CASE GetDmode
  <2>. WaitingInv'
    BY <1>5, <1>7 DEF Main, WaitingInv
  <2>. QED
    BY <1>1, <1>3, <1>5, <1>7
       DEF GetDmode, Main, Keep, ScansInv, CoverInv, Scans,
       Reading, Moving, Now, Ahead, Round
<1>8. CASE GetJustStarted
  <2>. DEFINE b == scan.fc < 0
  <2>1. b \in BOOLEAN /\ (b <=> scan.fc = NoFreq)
    <3>1. scan.fc \in Nat \/ scan.fc = NoFreq
      BY <1>1, <1>3, <1>5, <1>8 DEF ScansInv, Main
    <3>. QED
      BY <3>1
  <2>2. loc' = [loc EXCEPT !.just = b]
    BY <1>8 DEF GetJustStarted
  <2>. HIDE DEF b
  <2>3. /\ loc'.just = b /\ loc'.smode = loc.smode
        /\ loc'.dmode = loc.dmode /\ loc'.next = loc.next
    BY <2>2
  <2>. WaitingInv'
    BY <1>5, <1>8 DEF Main, WaitingInv
  <2>. QED
    BY <1>1, <1>5, <1>8, <2>1, <2>3 DEF GetJustStarted, Keep, ScansInv,
       CoverInv, Scans, Reading, Moving, Now, Ahead, Round
<1>9. CASE GetFreq
  <2>. WaitingInv'
    BY <1>5, <1>9 DEF Main, WaitingInv
  <2>. QED
    BY <1>1, <1>3, <1>5, <1>9
       DEF GetFreq, Main, Keep, ScansInv, CoverInv, Scans,
       Reading, Moving, Now, Ahead, Round
<1>10. CASE GetStep
  <2>. WaitingInv'
    BY <1>5, <1>10 DEF Main, WaitingInv
  <2>. QED
    BY <1>1, <1>3, <1>5, <1>10
       DEF GetStep, Main, Keep, ScansInv, CoverInv, Scans,
       Reading, Moving, Now, Ahead, Round
<1>11. CASE GetSnr
  <2>. WaitingInv'
    BY <1>5, <1>11 DEF Main, WaitingInv
  <2>. QED
    BY <1>1, <1>3, <1>5, <1>11
       DEF GetSnr, Main, Keep, ScansInv, CoverInv, Scans,
       Reading, Moving, Now, Ahead, Round
<1>12. CASE StepTuneDemod
  <2>. WaitingInv'
    BY <1>5, <1>12 DEF Main, WaitingInv
  <2>. QED
    BY <1>1, <1>3, <1>5, <1>12
       DEF StepTuneDemod, Main, ScansInv, CoverInv, Scans,
       Reading, Moving, Now, Ahead, Round
<1>13. CASE StepTuneRtl
  <2>. WaitingInv'
    BY <1>5, <1>13 DEF Main, WaitingInv
  <2>. QED
    BY <1>1, <1>3, <1>5, <1>13
       DEF StepTuneRtl, Main, ScansInv, CoverInv, Scans,
       Reading, Moving, Now, Ahead, Round
<1>14. CASE NotDue
  <2>1. WaitingInv'
    BY <1>5, <1>14 DEF Main, WaitingInv
  <2>2. /\ scan' = [scan EXCEPT !.fc = Start] /\ pc["main"] = "lock"
        /\ pc'["main"] = "idle" /\ mode' = mode /\ cmd' = cmd /\ dfc' = dfc
        /\ visited' = visited /\ Scans
    BY <1>5, <1>14 DEF NotDue, Main
  <2>3. IF scan.fc = NoFreq THEN Start = dfc ELSE Start = scan.fc
    BY <1>1, <2>2 DEF ScansInv, Start
  <2>4. Start \in Band("FM") /\ dfc \in Nat /\ scan'.mode = scan.mode
        /\ scan'.fc = Start
    BY <1>1, <2>2, <2>3 DEF ScansInv
  <2>5. ScansInv'
    BY <1>1, <2>2, <2>4 DEF ScansInv, Reading, Moving, Scans
  <2>6. CoverInv'
    <3>1. CASE scan.fc = NoFreq
      <4>1. Now' = dfc /\ scan'.fc = dfc
        BY <2>2, <2>3, <2>4, <3>1 DEF Now, Moving
      <4>2. Ahead(visited', dfc, dfc)
        BY <1>3, <2>4, FromFacts DEF Ahead
      <4>. QED
        BY <4>1, <4>2 DEF CoverInv, Ahead
    <3>2. CASE scan.fc # NoFreq
      BY <1>1, <2>2, <2>3, <2>4, <3>2
         DEF CoverInv, Now, Moving, Ahead, Round
    <3>. QED
      BY <3>1, <3>2
  <2>. QED
    BY <2>1, <2>5, <2>6
<1>15. CASE StepScan
  <2>1. WaitingInv'
    BY <1>5, <1>15 DEF Main, WaitingInv
  <2>2. /\ scan'.mode = (IF Done THEN "OFF" ELSE scan.mode)
        /\ scan'.fc = scan.fc /\ pc["main"] = "lock"
        /\ pc'["main"] = "tuneDemod" /\ mode' = mode /\ cmd' = cmd
        /\ dfc' = dfc /\ loc'.next = Following /\ Scans
    BY <1>5, <1>15 DEF StepScan, Main, MoveOn
  <2>3. Following \in Band("FM")
    BY <1>1, <2>2, AloneFollowing
  <2>4. scan.fc \in Band("FM") /\ scan.fc # NoFreq
    BY <1>1, <1>3, <1>15, AloneStep
  <2>5. ScansInv'
    BY <1>1, <2>2, <2>3, <2>4 DEF ScansInv, Reading, Moving, Scans
  <2>6. CoverInv'
    <3>1. Now' = Following
      BY <2>2 DEF Now, Moving
    <3>2. CASE Done
      BY <2>2, <3>2 DEF CoverInv
    <3>3. CASE ~Done
      BY <1>1, <1>15, <2>2, <3>1, <3>3, AloneStep DEF CoverInv, Ahead, Round
    <3>. QED
      BY <3>2, <3>3
  <2>. QED
    BY <2>1, <2>5, <2>6
<1>16. CASE SeekFound \/ SeekOn
  <2>1. WaitingInv'
    BY <1>5, <1>16 DEF Main, WaitingInv
  <2>2. /\ pc["main"] = "lock" /\ Scans /\ mode' = mode /\ cmd' = cmd
        /\ dfc' = dfc /\ scan.mode \in {"UP", "DOWN"} /\ scan.fc # NoFreq
    BY <1>1, <1>5, <1>16
       DEF SeekFound, SeekOn, Main, ScansInv, Due, Reading
  <2>3. Following \in Band("FM")
    BY <1>1, <2>2, AloneFollowing
  <2>4. \/ /\ pc'["main"] = "idle" /\ scan'.mode = "OFF"
        \/ /\ pc'["main"] = "tuneDemod" /\ scan' = scan
           /\ loc'.next = Following
    BY <1>16 DEF SeekFound, SeekOn, MoveOn
  <2>. QED
    BY <1>1, <2>1, <2>2, <2>3, <2>4
       DEF ScansInv, CoverInv, Reading, Moving, Scans
<1>17. CASE Receive
  BY <1>0, <1>1, <1>17
     DEF Receive, WaitingInv, ScansInv, CoverInv, Waiting, Scans
<1>18. CASE SetMode
  BY <1>0, <1>1, <1>2, <1>18
     DEF SetMode, WaitingInv, ScansInv, CoverInv, Waiting, Scans
<1>19. CASE SetScan
  BY <1>0, <1>1, <1>2, <1>19
     DEF SetScan, WaitingInv, ScansInv, CoverInv, Waiting, Scans, Reading,
         Moving
<1>20. CASE TuneRtl
  <2>. /\ (~Waiting /\ ~Waiting') \/ issued = 0
      /\ issued' = issued /\ pc'["main"] = pc["main"] /\ scan' = scan
      /\ mode' = mode /\ loc' = loc /\ visited' = visited
    BY <1>1, <1>20 DEF TuneRtl, WaitingInv, Waiting
  <2>. issued # 0
    BY <1>1, <1>20 DEF TuneRtl, WaitingInv, Waiting
  <2>. Scans => dfc' = dfc /\ cmd'.fc = 0
    BY <1>1, <1>3, <1>20 DEF TuneRtl, ScansInv, NoCommand
  <2>. QED
    BY <1>1, <1>20
       DEF WaitingInv, ScansInv, CoverInv, Scans, Reading, Moving, Now, Ahead,
           Round
<1>21. CASE TuneDemod
  <2>. /\ (~Waiting /\ ~Waiting') \/ issued = 0
      /\ issued' = issued /\ pc'["main"] = pc["main"] /\ scan' = scan
      /\ mode' = mode /\ loc' = loc /\ visited' = visited
    BY <1>1, <1>21 DEF TuneDemod, WaitingInv, Waiting
  <2>. issued # 0
    BY <1>1, <1>21 DEF TuneDemod, WaitingInv, Waiting
  <2>. Scans => dfc' = dfc /\ cmd'.fc = 0
    BY <1>1, <1>3, <1>21 DEF TuneDemod, ScansInv, NoCommand
  <2>. QED
    BY <1>1, <1>21
       DEF WaitingInv, ScansInv, CoverInv, Scans, Reading, Moving, Now, Ahead,
           Round
<1>22. CASE Execute
  <2>. /\ (~Waiting /\ ~Waiting') \/ issued = 0
      /\ issued' = issued /\ pc'["main"] = pc["main"] /\ scan' = scan
      /\ mode' = mode /\ loc' = loc /\ visited' = visited
    BY <1>1, <1>22 DEF Execute, WaitingInv, Waiting
  <2>. issued # 0
    BY <1>1, <1>22 DEF Execute, WaitingInv, Waiting
  <2>. Scans => dfc' = dfc /\ cmd'.fc = 0
    BY <1>1, <1>3, <1>22 DEF Execute, ScansInv, NoCommand
  <2>. QED
    BY <1>1, <1>22
       DEF WaitingInv, ScansInv, CoverInv, Scans, Reading, Moving, Now, Ahead,
           Round
<1>23. CASE Sample \/ MeasureSnr \/ HalfSecond \/ UNCHANGED vars
  BY <1>4, <1>23 DEF Sample, MeasureSnr, HalfSecond, vars
<1>. QED
  BY <1>6, <1>7, <1>8, <1>9, <1>10, <1>11, <1>12, <1>13, <1>14, <1>15, <1>16,
     <1>17, <1>18, <1>19, <1>20, <1>21, <1>22, <1>23
     DEF Next, Main, Command, Idle

\* A scan that is left alone judges every frequency of its course before it
\* ends, the whole grid when it starts on the grid: whatever the band, the step
\* and the frequency it starts from, and whatever main does before and after,
\* scanner_execute in turns, with the client sending what client.jsx sends, a
\* command of one option.
THEOREM ScanCoversAloneHolds == SingleOptions => (Spec => ScanCoversAlone)
<1> SUFFICES ASSUME SingleOptions
             PROVE  Spec => ScanCoversAlone
  OBVIOUS
<1>1. TypeInv /\ AloneInv /\ [Next]_vars
        => [EndsScan /\ issued = 1 => Course(Start) \subseteq visited']_vars
  <2> SUFFICES ASSUME TypeInv, AloneInv, Next, EndsScan, issued = 1
               PROVE  Course(Start) \subseteq visited'
    BY DEF vars, EndsScan
  <2>1. ScansInv /\ CoverInv
    BY DEF AloneInv
  <2>2. StepScan
    BY DEF TypeInv, TypeOK, EndsScan, Next, Main, Command, Idle, vars, Keep,
       Receive, GetScanMode, GetDmode, GetJustStarted, GetFreq, GetStep,
       GetSnr, NotDue, StepScan, SeekFound, SeekOn, StepTuneDemod,
       StepTuneRtl, SetMode, SetScan, TuneRtl, TuneDemod, Execute, Sample,
       MeasureSnr, HalfSecond
  <2>3. mode = "FM" /\ scan'.mode = (IF Done THEN "OFF" ELSE scan.mode)
    BY <2>1, <2>2 DEF StepScan, ScansInv, Scans
  <2>4. Done
    BY <2>3 DEF EndsScan
  <2>5. scan.fc \in Band("FM") /\ Start = scan.fc /\ All(visited', scan.fc)
    BY <2>1, <2>2, <2>4, AloneStep
  <2>6. /\ \A f \in Band("FM") : f \in Int /\ (~(f < scan.fc) => scan.fc <= f)
        /\ scan.fc \in Int
    BY <2>5, ConstantsAssumption DEF Band
  <2>7. ASSUME NEW f \in Course(scan.fc) PROVE f \in visited'
    <3>1. f \in Band("FM")
      BY <2>3, <2>7 DEF Course
    <3>2. CASE f < scan.fc
      <4>1. OnFm(f)
        BY <2>3, <2>7, <3>2 DEF Course, OnGrid, OnFm
      <4>. QED
        BY <2>5, <3>1, <3>2, <4>1 DEF All
    <3>3. CASE ~(f < scan.fc)
      <4>1. From(scan.fc, f)
        BY <2>3, <2>7, <3>3 DEF Course, From
      <4>. QED
        BY <2>5, <2>6, <3>1, <3>3, <4>1 DEF All
    <3>. QED
      BY <3>2, <3>3
  <2>. QED
    BY <2>5, <2>7
<1>. QED
  BY <1>1, InitType, NextType, InitAlone, NextAlone, PTL
     DEF Spec, ScanCoversAlone

-----------------------------------------------------------------------------
(* Why such a scan comes to its end: it never judges a frequency twice, so *)
(* it ends after as many steps as there are frequencies at the most.  Here *)
(* the band has to end on its grid, as 87.9 .. 107.9 MHz does with 0.2: a  *)
(* scan that starts above the last of the grid would never come back to    *)
(* where it started.                                                       *)

\* V holds nothing but frequencies from s up to before c, or else, the scan
\* having come round, none of those from c up to before s.
Once(V, s, c) ==
  \/ s <= c /\ \A f \in V : s <= f /\ f < c
  \/ c < s /\ OnFm(c) /\ \A f \in V : s <= f \/ f < c

LEMMA OnceStep ==
  ASSUME OnFm(FreqMax["FM"]),
         NEW s \in Band("FM"), NEW c \in Band("FM"),
         NEW V \in SUBSET Nat, Once(V, s, c),
         NEW n,
         c + FreqStep["FM"] > FreqMax["FM"] => n = FreqMin["FM"],
         ~(c + FreqStep["FM"] > FreqMax["FM"]) => n = c + FreqStep["FM"],
         ~((c + FreqStep["FM"] > FreqMax["FM"] \/ c < s) /\ s <= n)
  PROVE  Once(V \cup {c}, s, n)
<1>. DEFINE lo == FreqMin["FM"]
            hi == FreqMax["FM"]
            st == FreqStep["FM"]
<1>1. lo \in Nat /\ hi \in Nat /\ st \in Nat \ {0} /\ lo <= hi
  BY ConstantsAssumption
<1>2. s \in lo .. hi /\ c \in lo .. hi
  BY DEF Band
<1>3. /\ OnFm(lo) /\ OnFm(hi) /\ (OnFm(c) => OnFm(c + st))
      /\ OnFm(c) /\ c < hi => c + st <= hi
  BY <1>1, <1>2, GridFacts
<1>4. /\ c + st > hi => n = lo /\ ~(s <= n)
      /\ ~(c + st > hi) => n = c + st /\ ~(c < s /\ s <= n)
  OBVIOUS
<1>. HIDE DEF lo, hi, st
<1>5. CASE c + st > hi
  <2>1. n = lo /\ n < s
    BY <1>1, <1>2, <1>4, <1>5
  <2>2. ~(c < s /\ OnFm(c))
    BY <1>1, <1>2, <1>3, <1>5
  <2>3. s <= c /\ \A f \in V : s <= f
    BY <2>2 DEF Once
  <2>. QED
    BY <1>3, <2>1, <2>3 DEF Once
<1>6. CASE ~(c + st > hi)
  <2>1. n = c + st /\ n \in Int /\ c < n
    BY <1>1, <1>2, <1>4, <1>6
  <2>2. CASE s <= c
    <3>1. s <= n /\ \A f \in V : s <= f /\ f < c
      BY <1>1, <1>2, <2>1, <2>2 DEF Once
    <3>2. \A f \in V \cup {c} : s <= f /\ f < n
      BY <1>1, <1>2, <2>1, <2>2, <3>1
    <3>. QED
      BY <3>1, <3>2 DEF Once
  <2>3. CASE c < s
    <3>1. n < s /\ OnFm(n)
      BY <1>1, <1>2, <1>3, <1>4, <1>6, <2>1, <2>3 DEF Once
    <3>2. \A f \in V \cup {c} : s <= f \/ f < n
      BY <1>1, <1>2, <2>1, <2>3 DEF Once
    <3>. QED
      BY <3>1, <3>2 DEF Once
  <2>. QED
    BY <1>1, <1>2, <2>2, <2>3
<1>. QED
  BY <1>5, <1>6

OnceInv ==
  issued <= 1 /\ scan.mode = "ON" =>
    IF scan.fc = NoFreq THEN visited = {} ELSE Once(visited, scan.fc, Now)

LEMMA InitOnce == Init => OnceInv
  BY DEF Init, OnceInv

LEMMA NextOnce ==
  ASSUME OnFm(FreqMax["FM"]), TypeInv, AloneInv, OnceInv, [Next]_vars
  PROVE  OnceInv'
<1> SUFFICES ASSUME issued' <= 1, scan'.mode = "ON"
             PROVE  IF scan'.fc = NoFreq THEN visited' = {}
                    ELSE Once(visited', scan'.fc, Now')
  BY DEF OnceInv
<1>1. issued <= 1 /\ issued \in Nat
  <2>1. issued \in Nat
    BY DEF TypeInv, TypeOK
  <2>2. issued' = issued \/ issued' = issued + 1
    BY DEF Next, Main, Receive, Command, Idle, vars, Keep, GetScanMode,
       GetDmode, GetJustStarted, GetFreq, GetStep, GetSnr, NotDue, StepScan,
       SeekFound, SeekOn, StepTuneDemod, StepTuneRtl, SetMode, SetScan,
       TuneRtl, TuneDemod, Execute, Sample, MeasureSnr, HalfSecond
  <2>. QED
    BY <2>1, <2>2
<1>2. WaitingInv /\ ScansInv /\ CoverInv
  BY <1>1 DEF AloneInv
<1>3. 0 \notin Band("FM") /\ Band("FM") \subseteq Nat /\ NoFreq \notin Nat
  BY ConstantsAssumption DEF Band, NoFreq
<1>4. ASSUME UNCHANGED <<scan, visited>>, scan.mode = "ON" => Now' = Now
      PROVE  IF scan'.fc = NoFreq THEN visited' = {}
             ELSE Once(visited', scan'.fc, Now')
  BY <1>1, <1>4 DEF OnceInv, Once
<1> USE DEF TypeInv, TypeOK
<1>5. CASE GetScanMode \/ GetDmode \/ GetFreq \/ GetStep \/ GetSnr
  <2>1. UNCHANGED <<scan, visited, dfc>> /\ ~Moving /\ ~Moving'
    BY <1>5 DEF GetScanMode, GetDmode, GetFreq, GetStep, GetSnr, Keep, Moving
  <2>. QED
    BY <1>4, <2>1 DEF Now
<1>6. CASE GetJustStarted
  <2>1. UNCHANGED <<scan, visited, dfc>> /\ ~Moving /\ ~Moving'
    BY <1>6 DEF GetJustStarted, Keep, Moving
  <2>. QED
    BY <1>4, <2>1 DEF Now
<1>7. CASE StepTuneDemod \/ StepTuneRtl
  <2>1. UNCHANGED <<scan, visited>> /\ Scans
    BY <1>7 DEF StepTuneDemod, StepTuneRtl, Scans
  <2>2. Now' = Now
    BY <1>2, <1>7, <2>1
       DEF StepTuneDemod, StepTuneRtl, ScansInv, Now, Moving
  <2>. QED
    BY <1>4, <2>1, <2>2
<1>8. CASE NotDue
  <2>1. /\ scan' = [scan EXCEPT !.fc = Start] /\ pc["main"] = "lock"
        /\ pc'["main"] = "idle" /\ dfc' = dfc /\ visited' = visited /\ Scans
    BY <1>8 DEF NotDue, Scans
  <2>2. scan'.mode = scan.mode /\ scan'.fc = Start /\ dfc \in Nat
        /\ Now = dfc /\ Now' = dfc
    BY <2>1 DEF Now, Moving
  <2>3. IF scan.fc = NoFreq THEN Start = dfc ELSE Start = scan.fc
    BY <1>2, <2>1 DEF ScansInv, Start
  <2>4. CASE scan.fc = NoFreq
    BY <1>1, <1>3, <2>1, <2>2, <2>3, <2>4 DEF OnceInv, Once
  <2>5. CASE scan.fc # NoFreq
    BY <1>1, <1>3, <2>1, <2>2, <2>3, <2>5 DEF OnceInv, Once
  <2>. QED
    BY <2>4, <2>5
<1>9. CASE StepScan
  <2>1. /\ scan'.mode = (IF Done THEN "OFF" ELSE scan.mode)
        /\ scan'.fc = scan.fc /\ pc["main"] = "lock" /\ loc.smode = "ON"
        /\ pc'["main"] = "tuneDemod" /\ loc'.next = Following /\ Scans
        /\ visited' = visited \cup {loc.fc}
    BY <1>9 DEF StepScan, MoveOn, Judge, Scans
  <2>2. ~Done /\ scan.mode = "ON"
    BY <2>1
  <2>3. scan.fc \in Band("FM") /\ scan.fc # NoFreq /\ Start = scan.fc
    BY <1>2, <1>3, <1>9, AloneStep
  <2>4. loc.fc = dfc /\ dfc \in Band("FM") /\ Now = dfc /\ Now' = Following
    BY <1>2, <2>1 DEF ScansInv, Now, Moving
  <2>5. Once(visited, scan.fc, dfc) /\ visited \in SUBSET Nat
    BY <1>1, <2>2, <2>3, <2>4 DEF OnceInv
  <2>6. /\ Wraps <=> dfc + FreqStep["FM"] > FreqMax["FM"]
        /\ Following = IF Wraps THEN FreqMin["FM"] ELSE dfc + FreqStep["FM"]
    BY <1>2, <2>1, AloneFollowing
  <2>7. ~((Wraps \/ dfc < scan.fc) /\ scan.fc <= Following)
    BY <2>2, <2>3, <2>4 DEF Done
  <2>8. Once(visited \cup {dfc}, scan.fc, Following)
    BY <2>3, <2>4, <2>5, <2>6, <2>7, OnceStep
  <2>. QED
    BY <2>1, <2>3, <2>4, <2>8
<1>10. CASE SeekFound \/ SeekOn
  <2>1. pc["main"] = "lock" /\ loc.smode # "ON" /\ Scans
    BY <1>10 DEF SeekFound, SeekOn, Scans
  <2>2. scan.mode # "ON"
    BY <1>2, <2>1 DEF ScansInv, Reading
  <2>. QED
    BY <1>10, <2>2 DEF SeekFound, SeekOn
<1>11. CASE SetScan
  <2>1. ~Scans
    BY <1>2, <1>11 DEF SetScan, WaitingInv, Waiting
  <2>2. scan'.fc = NoFreq /\ visited' = {}
    BY <1>11, <2>1 DEF SetScan, Scans
  <2>. QED
    BY <2>2
<1>12. CASE Receive \/ SetMode \/ TuneRtl \/ Execute \/ Sample \/ MeasureSnr
            \/ HalfSecond \/ UNCHANGED vars
  <2>1. UNCHANGED <<scan, visited, dfc, loc>> /\ (Moving' <=> Moving)
    BY <1>12 DEF Receive, SetMode, TuneRtl, Execute, Sample, MeasureSnr,
       HalfSecond, vars, Moving
  <2>. QED
    BY <1>4, <2>1 DEF Now
<1>13. CASE TuneDemod
  <2>1. UNCHANGED <<scan, visited, loc>> /\ (Moving' <=> Moving)
    BY <1>13 DEF TuneDemod, Moving
  <2>2. scan.mode = "ON" => dfc' = dfc
    BY <1>2, <1>3, <1>13 DEF TuneDemod, ScansInv, Scans
  <2>. QED
    BY <1>4, <2>1, <2>2 DEF Now
<1>. QED
  BY <1>5, <1>6, <1>7, <1>8, <1>9, <1>10, <1>11, <1>12, <1>13
     DEF Next, Main, Command, Idle

\* A scan that is left alone (of one command, as above) never judges a
\* frequency it has judged before, wherever in the band it starts, and so
\* scanner_execute cannot go round for ever.
THEOREM ScanJudgesOnce ==
  SingleOptions /\ OnFm(FreqMax["FM"]) =>
    (Spec => [][StepScan /\ issued <= 1 => loc.fc \notin visited]_vars)
<1> SUFFICES ASSUME SingleOptions, OnFm(FreqMax["FM"])
             PROVE  Spec =>
                    [][StepScan /\ issued <= 1 => loc.fc \notin visited]_vars
  OBVIOUS
<1>1. TypeInv /\ AloneInv /\ OnceInv /\ [Next]_vars
        => [StepScan /\ issued <= 1 => loc.fc \notin visited]_vars
  <2> SUFFICES ASSUME TypeInv, AloneInv, OnceInv, StepScan, issued <= 1
               PROVE  loc.fc \notin visited
    OBVIOUS
  <2>1. ScansInv /\ CoverInv
    BY DEF AloneInv
  <2>2. /\ pc["main"] = "lock" /\ loc.smode = "ON" /\ Scans
    BY DEF StepScan, Scans
  <2>3. scan.mode = "ON" /\ loc.fc = dfc /\ dfc \in Band("FM") /\ Now = dfc
    BY <2>1, <2>2 DEF ScansInv, Reading, Now, Moving
  <2>4. scan.fc \in Band("FM") /\ scan.fc # NoFreq
    BY <2>1, AloneStep, ConstantsAssumption DEF Band, NoFreq
  <2>5. Once(visited, scan.fc, dfc) /\ visited \subseteq Nat
    BY <2>3, <2>4 DEF OnceInv, TypeInv, TypeOK
  <2>6. dfc \in Nat /\ scan.fc \in Nat
    BY <2>3, <2>4, ConstantsAssumption DEF Band
  <2>. QED
    BY <2>3, <2>5, <2>6 DEF Once
<1>. QED
  BY <1>1, InitType, NextType, InitAlone, NextAlone, InitOnce, NextOnce, PTL
     DEF Spec
=============================================================================
