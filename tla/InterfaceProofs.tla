--------------------------- MODULE InterfaceProofs ---------------------------
(***************************************************************************)
(* Theorems about module Interface, for all bands, offsets, stations and   *)
(* users.                                                                  *)
(***************************************************************************)
EXTENDS Interface, NumbersProofs, SequenceTheorems, TLAPS

Servers == [mode : Modes, fc : Nat, rfc : Nat, from : Int, last : Int,
            smode : {"off", "on", "up", "down"}]
Turns == [at : {"out", "mode", "rest"}, due : BOOLEAN, mode : Modes,
          smode : {"off", "on", "up", "down"}, just : BOOLEAN,
          fc : Nat, step : Nat, strong : BOOLEAN]

-----------------------------------------------------------------------------
(* Numbers.                                                                *)

LEMMA HzFacts ==
  ASSUME NEW m \in Modes
  PROVE  /\ \A f \in Nat : Hz(m, f) \in Nat
         /\ \A f \in Int : Hz(m, f) \in Int
         /\ TickStep(m) \in Nat
         /\ \A f \in Nat : f \div PerHundredth(m) \in Int
  BY SMT DEF Hz, PerHundredth, TickStep, Modes

LEMMA FloatFacts == \A n \in Nat : ToFloat(n) \in Nat
  BY SMT DEF ToFloat

LEMMA BandFacts ==
  ASSUME NEW m \in Modes
  PROVE  /\ Band(m) \subseteq Nat /\ Default[m] \in Band(m)
         /\ Hz(m, BandMin[m]) \in Nat /\ Hz(m, BandMax[m]) \in Nat
         /\ Offset[m] \in Nat
<1>1. BandMin[m] \in Nat /\ BandMax[m] \in Nat /\ Offset[m] \in Nat
      /\ Default[m] \in Band(m)
  BY ConstantsAssumption
<1>2. \A i \in Nat : BandMin[m] + i * TickStep(m) \in Nat
  BY SMT, <1>1 DEF TickStep
<1>3. Band(m) \subseteq Nat
  BY SMT, <1>2 DEF Band
<1>. QED
  BY <1>1, <1>3, HzFacts

LEMMA TickAccepted ==
  ASSUME NEW m \in Modes, NEW t \in Band(m)
  PROVE  /\ t \in Nat /\ BandMin[m] <= t /\ t <= BandMax[m]
         /\ Hz(m, t) \in Nat /\ Hz(m, t) > 0 /\ InBand(m, Hz(m, t))
<1>1. BandMin[m] \in Nat \ {0} /\ BandMax[m] \in Nat
  BY ConstantsAssumption
<1>2. PICK i \in 0 .. (BandMax[m] - BandMin[m]) \div TickStep(m) :
        t = BandMin[m] + i * TickStep(m)
  BY DEF Band
<1>3. t \in Nat /\ BandMin[m] <= t /\ t <= BandMax[m]
  <2>1. CASE m = "fm"
    BY SMT, <1>1, <1>2, <2>1 DEF TickStep
  <2>2. CASE m = "am"
    BY SMT, <1>1, <1>2, <2>2 DEF TickStep
  <2>. QED
    BY <2>1, <2>2 DEF Modes
<1>. QED
  BY SMT, <1>1, <1>3 DEF InBand, Hz, PerHundredth

LEMMA BandEnds ==
  ASSUME NEW m \in Modes
  PROVE  BandMin[m] \in Band(m) /\ BandMax[m] \in Band(m)
<1>1. BandMin[m] \in Nat \ {0} /\ BandMax[m] \in Nat /\ BandMax[m] \in Band(m)
  BY ConstantsAssumption
<1>2. BandMin[m] <= BandMax[m]
  BY <1>1, TickAccepted
<1>3. 0 \in 0 .. (BandMax[m] - BandMin[m]) \div TickStep(m)
      /\ BandMin[m] = BandMin[m] + 0 * TickStep(m)
  <2>1. CASE m = "fm"
    BY SMT, <1>1, <1>2, <2>1 DEF TickStep
  <2>2. CASE m = "am"
    BY SMT, <1>1, <1>2, <2>2 DEF TickStep
  <2>. QED
    BY <2>1, <2>2 DEF Modes
<1>. QED
  BY <1>1, <1>3 DEF Band

LEMMA BandSteps ==
  ASSUME NEW m \in Modes, NEW t \in Band(m)
  PROVE  /\ t + TickStep(m) <= BandMax[m] => t + TickStep(m) \in Band(m)
         /\ t - TickStep(m) >= BandMin[m] => t - TickStep(m) \in Band(m)
<1>1. BandMin[m] \in Nat /\ BandMax[m] \in Nat
  BY ConstantsAssumption
<1>2. PICK i \in 0 .. (BandMax[m] - BandMin[m]) \div TickStep(m) :
        t = BandMin[m] + i * TickStep(m)
  BY DEF Band
<1>3. ASSUME t + TickStep(m) <= BandMax[m]
      PROVE  /\ i + 1 \in 0 .. (BandMax[m] - BandMin[m]) \div TickStep(m)
             /\ t + TickStep(m) = BandMin[m] + (i + 1) * TickStep(m)
  <2>1. CASE m = "fm"
    BY SMT, <1>1, <1>2, <1>3, <2>1 DEF TickStep
  <2>2. CASE m = "am"
    BY SMT, <1>1, <1>2, <1>3, <2>2 DEF TickStep
  <2>. QED
    BY <2>1, <2>2 DEF Modes
<1>4. ASSUME t - TickStep(m) >= BandMin[m]
      PROVE  /\ i - 1 \in 0 .. (BandMax[m] - BandMin[m]) \div TickStep(m)
             /\ t - TickStep(m) = BandMin[m] + (i - 1) * TickStep(m)
  <2>1. CASE m = "fm"
    BY SMT, <1>1, <1>2, <1>4, <2>1 DEF TickStep
  <2>2. CASE m = "am"
    BY SMT, <1>1, <1>2, <1>4, <2>2 DEF TickStep
  <2>. QED
    BY <2>1, <2>2 DEF Modes
<1>. QED
  BY <1>3, <1>4 DEF Band

-----------------------------------------------------------------------------
(* The server stays one.                                                   *)

LEMMA StartIsServer ==
  ASSUME NEW m \in Modes
  PROVE  Start(m) \in Servers
<1>. DEFINE h == Hz(m, Default[m])
<1>1. h \in Nat
  BY BandFacts, HzFacts
<1>2. h + Offset[m] \in Nat
  BY <1>1, BandFacts
<1>. HIDE DEF h
<1>3. [mode |-> m, fc |-> h, rfc |-> h + Offset[m], smode |-> "off",
       from |-> NoFreq, last |-> NoFreq] \in Servers
  BY <1>1, <1>2 DEF Servers, NoFreq
<1>. QED
  BY <1>3 DEF Start, h

LEMMA SetIsServer ==
  ASSUME NEW s \in Servers, NEW m \in Modes, NEW f \in Int, NEW l \in Int,
         NEW o \in {"off", "on", "up", "down"}
  PROVE  [s EXCEPT !.mode = m, !.smode = o, !.from = f, !.last = l]
           \in Servers
  BY Zenon DEF Servers

LEMMA AfterIsServer ==
  ASSUME NEW c \in Commands, NEW s \in Servers
  PROVE  After(c, s) \in Servers
<1>. DEFINE m == IF c.mode # "none" THEN c.mode ELSE s.mode
            scan == IF c.scan # "none"
                    THEN [s EXCEPT !.mode = m, !.smode = c.scan,
                                   !.from = NoFreq, !.last = NoFreq]
                    ELSE [s EXCEPT !.mode = m]
            f == ToFloat(c.fc)
<1>1. m \in Modes
  BY DEF Commands, Servers
<1>2. scan \in Servers
  <2>. HIDE DEF m
  <2>1. [s EXCEPT !.mode = m] \in Servers
    BY <1>1 DEF Servers
  <2>2. c.scan # "none" => c.scan \in {"off", "on", "up", "down"}
    BY DEF Commands
  <2>3. NoFreq \in Int
    BY DEF NoFreq
  <2>4. c.scan # "none" =>
          [s EXCEPT !.mode = m, !.smode = c.scan, !.from = NoFreq,
                    !.last = NoFreq] \in Servers
    BY Zenon, <1>1, <2>2, <2>3, SetIsServer
  <2>. QED
    BY Zenon, <2>1, <2>4
<1>3. c.fc > 0 => f \in Nat /\ f + Offset[m] \in Nat
  <2>1. Offset[m] \in Nat
    BY <1>1, BandFacts
  <2>2. c.fc \in Int
    BY DEF Commands
  <2>3. c.fc > 0 => f \in Nat
    BY <2>2, FloatFacts
  <2>. QED
    BY <2>1, <2>3
<1>4. After(c, s) =
        IF c.fc > 0 /\ InBand(m, f)
        THEN [scan EXCEPT !.fc = f, !.rfc = f + Offset[m]] ELSE scan
  BY DEF After
<1>. HIDE DEF m, scan, f
<1>. QED
  BY <1>2, <1>3, <1>4 DEF Servers

LEMMA AfterFacts ==
  ASSUME NEW c \in Commands, NEW s \in Servers, NEW m,
         m = IF c.mode # "none" THEN c.mode ELSE s.mode
  PROVE  /\ m \in Modes /\ After(c, s).mode = m
         /\ c.fc > 0 /\ InBand(m, ToFloat(c.fc)) =>
              /\ After(c, s).fc = ToFloat(c.fc)
              /\ After(c, s).rfc = ToFloat(c.fc) + Offset[m]
         /\ ~(c.fc > 0 /\ InBand(m, ToFloat(c.fc))) =>
              After(c, s).fc = s.fc /\ After(c, s).rfc = s.rfc
         /\ c.scan = "none" =>
              /\ After(c, s).smode = s.smode /\ After(c, s).from = s.from
              /\ After(c, s).last = s.last
         /\ c.scan # "none" =>
              /\ After(c, s).smode = c.scan /\ After(c, s).from = NoFreq
              /\ After(c, s).last = NoFreq
<1>0. DOMAIN s = {"mode", "fc", "rfc", "from", "last", "smode"}
  BY DEF Servers
<1>. DEFINE scan == IF c.scan # "none"
                    THEN [s EXCEPT !.mode = m, !.smode = c.scan,
                                   !.from = NoFreq, !.last = NoFreq]
                    ELSE [s EXCEPT !.mode = m]
            f == ToFloat(c.fc)
<1>1. m \in Modes
  BY DEF Commands, Servers
<1>2. /\ scan.mode = m /\ scan.fc = s.fc /\ scan.rfc = s.rfc
      /\ DOMAIN scan = {"mode", "fc", "rfc", "from", "last", "smode"}
      /\ c.scan = "none" => /\ scan.smode = s.smode /\ scan.from = s.from
                            /\ scan.last = s.last
      /\ c.scan # "none" => /\ scan.smode = c.scan /\ scan.from = NoFreq
                            /\ scan.last = NoFreq
  BY <1>0
<1>3. After(c, s) =
        IF c.fc > 0 /\ InBand(m, f)
        THEN [scan EXCEPT !.fc = f, !.rfc = f + Offset[m]] ELSE scan
  BY DEF After
<1>. HIDE DEF scan, f
<1>4. CASE c.fc > 0 /\ InBand(m, f)
  <2>1. After(c, s) = [scan EXCEPT !.fc = f, !.rfc = f + Offset[m]]
    BY <1>3, <1>4
  <2>2. /\ After(c, s).fc = f /\ After(c, s).rfc = f + Offset[m]
        /\ After(c, s).mode = scan.mode /\ After(c, s).smode = scan.smode
        /\ After(c, s).from = scan.from /\ After(c, s).last = scan.last
    BY <1>2, <2>1
  <2>. QED
    BY <1>1, <1>2, <1>4, <2>2 DEF f
<1>5. CASE ~(c.fc > 0 /\ InBand(m, f))
  BY <1>1, <1>2, <1>3, <1>5 DEF f
<1>. QED
  BY <1>4, <1>5

-----------------------------------------------------------------------------
(* What a step of the scanner may do, whatever it has read.                *)

\* Where a scan or a seek goes next.
IsNext(t, f) ==
  \/ f = Top(t) \/ f = Bottom(t)
  \/ f = Up(t) /\ f <= Top(t)
  \/ f = Down(t) /\ f >= Bottom(t)

UpNext(t)   == IF Up(t) > Top(t) THEN Bottom(t) ELSE Up(t)
DownNext(t) == IF Down(t) < Bottom(t) THEN Top(t) ELSE Down(t)

LEMMA NextFacts ==
  ASSUME NEW t \in Turns
  PROVE  /\ IsNext(t, UpNext(t)) /\ IsNext(t, DownNext(t))
         /\ \A f : IsNext(t, f) => f \in Nat /\ f + Offset[t.mode] \in Nat
<1>1. t.fc \in Nat /\ t.mode \in Modes /\ t.step \in Nat
  BY DEF Turns
<1>2. Top(t) \in Nat /\ Bottom(t) \in Nat /\ Offset[t.mode] \in Nat
  BY <1>1, BandFacts DEF Top, Bottom
<1>3. Up(t) \in Nat /\ Down(t) \in Int
  BY <1>1 DEF Up, Down
<1>4. IsNext(t, UpNext(t))
  BY <1>2, <1>3 DEF IsNext, UpNext
<1>5. IsNext(t, DownNext(t))
  BY <1>2, <1>3 DEF IsNext, DownNext
<1>6. ASSUME NEW f, IsNext(t, f)
      PROVE  f \in Nat /\ f + Offset[t.mode] \in Nat
  <2>1. f \in Nat
    BY <1>2, <1>3, <1>6 DEF IsNext
  <2>. QED
    BY <1>2, <2>1
<1>. QED
  BY <1>4, <1>5, <1>6

\* Server z comes of s by a step that has read t.
Stepped(t, s, z) ==
  /\ z.mode = s.mode /\ z.smode \in {s.smode, "off"}
  /\ z.from = s.from \/ z.from = t.fc
  /\ z.last = s.last \/ (Judges(t) /\ t.strong /\ z.last = t.fc)
  /\ \/ z.fc = s.fc /\ z.rfc = s.rfc
     \/ \E f : IsNext(t, f) /\ z.fc = f /\ z.rfc = f + Offset[t.mode]

LEMMA ServerIs ==
  ASSUME NEW s \in Servers
  PROVE  DOMAIN s = {"mode", "fc", "rfc", "from", "last", "smode"}
  BY DEF Servers

LEMMA TunedIs ==
  ASSUME NEW t, NEW s \in Servers, NEW f
  PROVE  /\ Tuned(t, s, f).fc = f /\ Tuned(t, s, f).rfc = f + Offset[t.mode]
         /\ Tuned(t, s, f).mode = s.mode /\ Tuned(t, s, f).smode = s.smode
         /\ Tuned(t, s, f).from = s.from /\ Tuned(t, s, f).last = s.last
         /\ DOMAIN Tuned(t, s, f) = DOMAIN s
  BY ServerIs DEF Tuned

LEMMA TunedIsServer ==
  ASSUME NEW t \in Turns, NEW s \in Servers, NEW f, IsNext(t, f)
  PROVE  Tuned(t, s, f) \in Servers
<1>1. f \in Nat /\ f + Offset[t.mode] \in Nat
  BY NextFacts
<1>. QED
  BY <1>1 DEF Tuned, Servers

LEMMA FoundIsServer ==
  ASSUME NEW s \in Servers, NEW f \in Int,
         NEW o \in {"off", "on", "up", "down"}
  PROVE  [s EXCEPT !.last = f, !.smode = o] \in Servers
  BY Zenon DEF Servers

\* One step of a scan, and one of a seek.
LEMMA ScanSteps ==
  ASSUME NEW t \in Turns, NEW s \in Servers
  PROVE  /\ ScanOn(t, s) \in Servers
         /\ ScanOn(t, s).fc = UpNext(t)
         /\ ScanOn(t, s).rfc = UpNext(t) + Offset[t.mode]
         /\ ScanOn(t, s).mode = s.mode /\ ScanOn(t, s).from = s.from
         /\ ScanOn(t, s).last = IF t.strong THEN t.fc ELSE s.last
         /\ ScanOn(t, s).smode =
              IF (Up(t) > Top(t) \/ t.fc < s.from) /\ s.from <= UpNext(t)
              THEN "off" ELSE s.smode
<1>. DEFINE z == Tuned(t, s, UpNext(t))
            done == (Up(t) > Top(t) \/ t.fc < s.from)
                      /\ s.from <= UpNext(t)
            l == IF t.strong THEN t.fc ELSE s.last
            o == IF done THEN "off" ELSE s.smode
<1>1. /\ z \in Servers /\ z.fc = UpNext(t)
      /\ z.rfc = UpNext(t) + Offset[t.mode] /\ z.mode = s.mode
      /\ z.from = s.from /\ z.last = s.last /\ z.smode = s.smode
  BY NextFacts, TunedIs, TunedIsServer
<1>2. ScanOn(t, s) = [z EXCEPT !.last  = IF t.strong THEN t.fc ELSE @,
                               !.smode = IF done THEN "off" ELSE @]
  BY DEF ScanOn, UpNext
<1>. HIDE DEF z, done
<1>3. ScanOn(t, s) = [z EXCEPT !.last = l, !.smode = o]
  BY <1>1, <1>2
<1>4. l \in Int /\ o \in {"off", "on", "up", "down"}
  BY DEF Turns, Servers
<1>. HIDE DEF l, o
<1>5. ScanOn(t, s) \in Servers
  <2>1. z \in Servers
    BY <1>1
  <2>2. [z EXCEPT !.last = l, !.smode = o] \in Servers
    BY Zenon, <2>1, <1>4, FoundIsServer
  <2>. QED
    BY <2>2, <1>3
<1>6. DOMAIN z = {"mode", "fc", "rfc", "from", "last", "smode"}
  BY <1>1, ServerIs
<1>7. /\ ScanOn(t, s).fc = z.fc /\ ScanOn(t, s).rfc = z.rfc
      /\ ScanOn(t, s).mode = z.mode /\ ScanOn(t, s).from = z.from
      /\ ScanOn(t, s).last = l /\ ScanOn(t, s).smode = o
  BY <1>3, <1>6
<1>. QED
  BY Zenon, <1>1, <1>5, <1>7 DEF done, l, o

LEMMA SeekSteps ==
  ASSUME NEW t \in Turns, NEW s \in Servers, NEW wrapped, NEW f,
         IsNext(t, f)
  PROVE  /\ Seek(t, s, wrapped, f) \in Servers
         /\ Seek(t, s, wrapped, f).mode = s.mode
         /\ Seek(t, s, wrapped, f).from = s.from
         /\ \/ /\ Seek(t, s, wrapped, f).fc = s.fc
               /\ Seek(t, s, wrapped, f).rfc = s.rfc
               /\ Seek(t, s, wrapped, f).smode = "off"
               /\ t.strong /\ Seek(t, s, wrapped, f).last = t.fc
            \/ /\ Seek(t, s, wrapped, f).fc = f
               /\ Seek(t, s, wrapped, f).rfc = f + Offset[t.mode]
               /\ Seek(t, s, wrapped, f).smode = s.smode
               /\ Seek(t, s, wrapped, f).last = s.last
<1>1. t.fc \in Int
  BY DEF Turns
<1>2. [s EXCEPT !.last = t.fc, !.smode = "off"] \in Servers
  BY Zenon, <1>1, FoundIsServer
<1>3. Tuned(t, s, f) \in Servers
  BY TunedIsServer
<1>. QED
  BY <1>2, <1>3, ServerIs, TunedIs DEF Seek

LEMMA StepIs ==
  ASSUME NEW t \in Turns, NEW s \in Servers
  PROVE  \/ t.just /\ Step(t, s) = [s EXCEPT !.from = t.fc]
         \/ Judges(t) /\ t.smode = "on" /\ Step(t, s) = ScanOn(t, s)
         \/ /\ Judges(t) /\ t.smode = "up"
            /\ Step(t, s) = Seek(t, s, Up(t) > Top(t), UpNext(t))
         \/ /\ Judges(t) /\ t.smode = "down"
            /\ Step(t, s) = Seek(t, s, Down(t) < Bottom(t), DownNext(t))
         \/ ~t.just /\ (t.due => t.smode = "off") /\ Step(t, s) = s
<1>1. t.smode \in {"off", "on", "up", "down"}
  BY DEF Turns
<1>2. Judges(t) <=> t.due /\ ~t.just
  BY DEF Judges
<1>3. CASE t.just
  BY Zenon, <1>2, <1>3 DEF Step
<1>4. CASE Judges(t) /\ t.smode = "on"
  BY Zenon, <1>2, <1>4 DEF Step
<1>5. CASE Judges(t) /\ t.smode = "up"
  BY Zenon, <1>2, <1>5 DEF Step, UpNext
<1>6. CASE Judges(t) /\ t.smode = "down"
  BY Zenon, <1>2, <1>6 DEF Step, DownNext
<1>7. CASE ~t.just /\ ~(Judges(t) /\ t.smode \in {"on", "up", "down"})
  BY Zenon, <1>1, <1>2, <1>7 DEF Step
<1>. QED
  BY <1>3, <1>4, <1>5, <1>6, <1>7

LEMMA StepFacts ==
  ASSUME NEW t \in Turns, NEW s \in Servers
  PROVE  Step(t, s) \in Servers /\ Stepped(t, s, Step(t, s))
<1>0. t.fc \in Nat /\ s.smode = s.smode
  BY DEF Turns
<1>1. CASE t.just /\ Step(t, s) = [s EXCEPT !.from = t.fc]
  <2>1. [s EXCEPT !.from = t.fc] \in Servers
    BY <1>0 DEF Servers
  <2>. QED
    BY <1>1, <2>1, ServerIs DEF Stepped
<1>2. CASE Judges(t) /\ Step(t, s) = ScanOn(t, s)
  BY <1>2, ScanSteps, NextFacts DEF Stepped
<1>3. ASSUME NEW w, NEW f, IsNext(t, f), Judges(t),
             Step(t, s) = Seek(t, s, w, f)
      PROVE  Step(t, s) \in Servers /\ Stepped(t, s, Step(t, s))
  BY <1>3, SeekSteps DEF Stepped
<1>4. CASE Step(t, s) = s
  BY <1>4 DEF Stepped
<1>. QED
  BY <1>1, <1>2, <1>3, <1>4, StepIs, NextFacts

-----------------------------------------------------------------------------
(* Commands and heartbeats.                                                *)

\* The header describes the server it is made from.
LEMMA HeaderIsHeartbeat ==
  ASSUME server \in Servers
  PROVE  Header \in Heartbeats /\ (Recording(Header) => server.smode # "off")
<1>. DEFINE on == server.smode = "on"
            sk == server.smode \in {"up", "down"}
<1>1. server.rfc \in Nat /\ server.last \in Int
  BY DEF Servers
<1>2. Header = [fc |-> server.rfc, scanning |-> on, seeking |-> sk,
                last |-> server.last]
  BY DEF Header, HeaderOf
<1>3. on \in BOOLEAN /\ sk \in BOOLEAN
  OBVIOUS
<1>4. on \/ sk => server.smode # "off"
  OBVIOUS
<1>. HIDE DEF on, sk
<1>5. Header \in Heartbeats
  BY Zenon, <1>1, <1>2, <1>3 DEF Heartbeats
<1>6. Header.scanning = on /\ Header.seeking = sk
  BY <1>2
<1>. QED
  BY Zenon, <1>4, <1>5, <1>6 DEF Recording

\* What the interface sends are commands; only the scan and seek buttons
\* send one that sets the scanner.
NoScan(s) == \A i \in DOMAIN s : s[i].scan = "none"

LEMMA SentFacts ==
  ASSUME NEW f \in Int, NEW m \in Modes, NEW s \in {"on", "up", "down"}
  PROVE  /\ SetCenterFreq(f) \in Seq(Commands) /\ NoScan(SetCenterFreq(f))
         /\ SetMode(m) \in Seq(Commands) /\ NoScan(SetMode(m))
         /\ SetScan(s) \in Seq(Commands)
<1>1. /\ Command("none", "none", f) \in Commands
      /\ Command(m, "none", NoFreq) \in Commands
      /\ Command("none", s, NoFreq) \in Commands
  BY DEF Command, Commands, NoFreq
<1>2. ASSUME NEW c \in Commands
      PROVE  /\ <<c>> \in Seq(Commands)
             /\ c.scan = "none" => NoScan(<<c>>)
  BY DEF NoScan
<1>3. << >> \in Seq(Commands) /\ NoScan(<< >>)
  BY DEF NoScan
<1>4. /\ Command("none", "none", f).scan = "none"
      /\ Command(m, "none", NoFreq).scan = "none"
  BY DEF Command
<1>. QED
  BY <1>1, <1>2, <1>3, <1>4 DEF SetCenterFreq, SetMode, SetScan

LEMMA ConcatFacts ==
  ASSUME NEW a \in Seq(Commands), NEW b \in Seq(Commands)
  PROVE  /\ a \o b \in Seq(Commands)
         /\ NoScan(a) /\ NoScan(b) => NoScan(a \o b)
<1>1. a \o b \in Seq(Commands)
  BY ConcatProperties
<1>2. ASSUME NoScan(a), NoScan(b), NEW i \in DOMAIN (a \o b)
      PROVE  (a \o b)[i].scan = "none"
  BY <1>2, ConcatProperties DEF NoScan
<1>. QED
  BY <1>1, <1>2 DEF NoScan

LEMMA SendFacts ==
  ASSUME up \in Seq(Commands), NEW c \in Seq(Commands), Send(c)
  PROVE  up' \in Seq(Commands) /\ (NoScan(up) /\ NoScan(c) => NoScan(up'))
  BY ConcatFacts DEF Send

\* The frequency a new tab tunes to.
LEMMA MountFacts ==
  ASSUME NEW t \in Tabs
  PROVE  Mounts(t) \in Seq(Commands) /\ NoScan(Mounts(t))
<1>1. t \in Modes => Hz(t, Default[t]) \in Int
  BY BandFacts, HzFacts
<1>2. << >> \in Seq(Commands) /\ NoScan(<< >>)
  BY DEF NoScan
<1>. QED
  BY <1>1, <1>2, SentFacts DEF Mounts, Modes

-----------------------------------------------------------------------------
(* The page.  What is rendered lags behind the tab only while the settings *)
(* cannot be rendered, which is while a heartbeat with a station is shown: *)
(* there is no cursor then that could be dragged on the wrong tab.         *)

ViewInv ==
  /\ tab \in Modes => view = tab /\ seen = hb
  /\ view # tab => Recording(seen)
  /\ dragging # "no" => tab \in Modes

Inv == TypeOK /\ ViewInv

\* The part of the page that Render sets.
RenderedOK ==
  /\ tab \in Tabs /\ view \in Tabs
  /\ hb \in Heartbeats /\ seen \in Heartbeats
  /\ DOMAIN stations = Modes /\ \A m \in Modes : stations[m] \subseteq Nat
  /\ shown \in Int /\ retune \in Int
  /\ tab \in Modes => view = tab /\ seen = hb
  /\ view # tab => Recording(seen)

LEMMA InvRendered == Inv => RenderedOK
  BY DEF Inv, TypeOK, PageOK, ViewInv, RenderedOK

\* The rest of it.
RestOK ==
  /\ targetFreq \in Nat
  /\ dragging \in {"no", "drag", "press", "moved"}
  /\ dragging # "no" => tab \in Modes
  /\ connected \in BOOLEAN /\ lost \in BOOLEAN

ReceiverOK == ServerOK /\ TurnOK

LEMMA InvIsParts ==
  ASSUME Inv
  PROVE  RenderedOK /\ RestOK /\ WireOK /\ ReceiverOK /\ UserOK
  BY DEF Inv, TypeOK, PageOK, ViewInv, RenderedOK, RestOK, ReceiverOK

LEMMA PartsAreInv ==
  ASSUME RenderedOK', RestOK', WireOK', ReceiverOK', UserOK'
  PROVE  Inv'
  BY DEF Inv, TypeOK, PageOK, ViewInv, RenderedOK, RestOK, Tabs, ReceiverOK

LEMMA RecordedFacts ==
  ASSUME NEW t \in Tabs, NEW h \in Heartbeats, Renders(t, h), RenderedOK
  PROVE  /\ DOMAIN Recorded(t, h) = Modes
         /\ \A m \in Modes : Recorded(t, h)[m] \subseteq Nat
<1>1. CASE ~Recording(h)
  BY <1>1 DEF Recorded, RenderedOK
<1>2. CASE Recording(h)
  <2>1. t \in Modes
    BY <1>2 DEF Renders, Tabs
  <2>2. h.last \in Nat
    BY <1>2 DEF Recording, Heartbeats
  <2>3. Recorded(t, h) = [stations EXCEPT ![t] = @ \cup {h.last}]
    BY <1>2 DEF Recorded
  <2>. QED
    BY <2>1, <2>2, <2>3 DEF RenderedOK
<1>. QED
  BY <1>1, <1>2

LEMMA ShownFacts ==
  ASSUME NEW t \in Tabs, NEW f \in Int, RenderedOK
  PROVE  ShownAfter(t, f) \in Int
<1>1. t \in Modes => Default[t] \in Int
  BY BandFacts
<1>2. seen.fc \div PerHundredth("fm") \in Int
  BY HzFacts DEF RenderedOK, Heartbeats, Modes
<1>3. CASE t # view /\ t \in Modes
  <2>1. ShownAfter(t, f) = Default[t]
    BY Zenon, <1>3 DEF ShownAfter
  <2>. QED
    BY <1>1, <1>3, <2>1
<1>4. CASE t = view /\ t = "fm" /\ seen.seeking
  <2>1. ShownAfter(t, f) = seen.fc \div PerHundredth("fm")
    BY Zenon, <1>4 DEF ShownAfter
  <2>. QED
    BY <1>2, <2>1
<1>5. CASE /\ ~(t # view /\ t \in Modes)
           /\ ~(t = view /\ t = "fm" /\ seen.seeking)
  <2>1. ShownAfter(t, f) = f
    BY Zenon, <1>5 DEF ShownAfter
  <2>. QED
    BY <2>1
<1>. QED
  BY <1>3, <1>4, <1>5

\* A tab can be chosen while hb is what the page was rendered with.
LEMMA RenderFacts ==
  ASSUME NEW t \in Tabs, NEW h \in Heartbeats, NEW f \in Int,
         RenderedOK, Render(t, h, f), t = tab \/ h = hb
  PROVE  RenderedOK'
<1>1. CASE Renders(t, h)
  <2>1. /\ tab' = t /\ hb' = h /\ view' = t /\ seen' = h
        /\ stations' = Recorded(t, h)
        /\ shown' = ShownAfter(t, f)
        /\ retune' = seen.fc \/ retune' = retune
    BY <1>1 DEF Render
  <2>2. seen.fc \in Int
    BY DEF RenderedOK, Heartbeats
  <2>3. shown' \in Int /\ retune' \in Int
    BY <2>1, <2>2, ShownFacts DEF RenderedOK
  <2>4. DOMAIN stations' = Modes /\ \A m \in Modes : stations'[m] \subseteq Nat
    BY <1>1, <2>1, RecordedFacts
  <2>. QED
    BY <2>1, <2>3, <2>4 DEF RenderedOK
<1>2. CASE ~Renders(t, h)
  <2>1. /\ tab' = t /\ hb' = h /\ t = "settings" /\ Recording(h)
        /\ UNCHANGED <<view, seen, stations, shown, retune>>
    BY <1>2 DEF Render, Renders
  <2>2. tab' \notin Modes
    BY <2>1 DEF Modes
  <2>3. tab # t => Recording(seen)
    <3>1. SUFFICES ASSUME tab # t PROVE Recording(seen)
      OBVIOUS
    <3>2. h = hb /\ tab \in Modes
      BY <2>1, <3>1 DEF RenderedOK, Tabs
    <3>. QED
      BY <2>1, <3>2 DEF RenderedOK
  <2>4. view # t => Recording(seen)
    BY <2>3 DEF RenderedOK
  <2>5. view' # tab' => Recording(seen')
    BY <2>1, <2>4
  <2>. QED
    BY <2>1, <2>2, <2>5 DEF RenderedOK
<1>. QED
  BY <1>1, <1>2

\* What does not touch page, wire, server or user: the scanner looks, time
\* goes by, the demodulator measures.
LEMMA AsideKeeps ==
  \/ ScannerReadsMode \/ ScannerReadsRest \/ HalfSecond \/ Measure
  \/ UNCHANGED vars
  => UNCHANGED <<page, up, down, server, user>>
<1>1. ScannerReadsMode => UNCHANGED <<page, up, down, server, user>>
  BY DEF ScannerReadsMode
<1>2. ScannerReadsRest => UNCHANGED <<page, up, down, server, user>>
  BY DEF ScannerReadsRest
<1>3. HalfSecond => UNCHANGED <<page, up, down, server, user>>
  BY DEF HalfSecond
<1>4. Measure => UNCHANGED <<page, up, down, server, user>>
  BY DEF Measure
<1>5. UNCHANGED vars => UNCHANGED <<page, up, down, server, user>>
  BY DEF vars, receiver
<1>. QED
  BY <1>1, <1>2, <1>3, <1>4, <1>5

\* What scanner_execute has read is of the types it reads.
LEMMA ReadsTurn ==
  ASSUME ServerOK, TurnOK, ScannerReadsMode \/ ScannerReadsRest
  PROVE  TurnOK'
<1>1. /\ turn.smode \in {"off", "on", "up", "down"} /\ turn.due \in BOOLEAN
      /\ turn.mode \in Modes /\ turn.fc \in Nat /\ turn.step \in Nat
      /\ turn.just \in BOOLEAN /\ turn.strong \in BOOLEAN
      /\ due \in BOOLEAN
      /\ server.mode \in Modes /\ server.fc \in Nat
      /\ server.smode \in {"off", "on", "up", "down"}
  BY DEF TurnOK, ServerOK
<1>2. Hz(server.mode, TickStep(server.mode)) \in Nat
  BY <1>1, HzFacts
<1>3. (server.from < 0) \in BOOLEAN /\ Strong \in BOOLEAN
  <2>1. server.from \in Int
    BY DEF ServerOK
  <2>2. (server.from < 0) \in BOOLEAN
    BY <2>1
  <2>3. Strong \in BOOLEAN
    BY DEF Strong
  <2>. QED
    BY Zenon, <2>2, <2>3
<1>4. CASE ScannerReadsMode
  <2>1. turn' = [at |-> "mode", smode |-> server.smode, due |-> due,
                 mode |-> server.mode, just |-> FALSE, fc |-> 0, step |-> 0,
                 strong |-> FALSE]
    BY <1>4 DEF ScannerReadsMode, NoTurn
  <2>2. turn' \in Turns
    BY <1>1, <2>1 DEF Turns
  <2>. QED
    BY <1>4, <2>2 DEF ScannerReadsMode, TurnOK, Turns
<1>5. CASE ScannerReadsRest
  <2>. DEFINE j == server.from < 0
              h == Hz(server.mode, TickStep(server.mode))
              g == Strong
  <2>1. turn' = [turn EXCEPT !.at = "rest", !.just = j, !.fc = server.fc,
                             !.strong = g, !.step = h]
    BY <1>5 DEF ScannerReadsRest
  <2>2. j \in BOOLEAN /\ g \in BOOLEAN /\ h \in Nat
    BY <1>2, <1>3
  <2>3. turn \in Turns
    BY DEF TurnOK, Turns
  <2>. HIDE DEF j, h, g
  <2>4. turn' \in Turns
    BY Zenon, <1>1, <2>1, <2>2, <2>3 DEF Turns
  <2>. QED
    BY <1>5, <2>4 DEF ScannerReadsRest, TurnOK, Turns
<1>. QED
  BY <1>4, <1>5

\* One step for each action, one part below it for each part it disturbs.
LEMMA InvNext == Inv /\ [Next]_vars => Inv'
<1>. SUFFICES ASSUME Inv, [Next]_vars
              PROVE  /\ RenderedOK' /\ RestOK' /\ WireOK'
                     /\ ReceiverOK' /\ UserOK'
  BY PartsAreInv
<1>. USE DEF vars, page, user, receiver, Elsewhere
<1>1. RenderedOK /\ RestOK /\ WireOK /\ ReceiverOK /\ UserOK
  BY InvIsParts
<1>2. tab \in Tabs /\ hb \in Heartbeats /\ shown \in Int /\ seen.fc \in Int
  BY <1>1 DEF RenderedOK, Heartbeats
<1>3. up \in Seq(Commands) /\ down \in Seq(Heartbeats) /\ Len(down) <= 1
  BY <1>1 DEF WireOK
<1>4. /\ server \in Servers /\ turn \in Turns
      /\ UNCHANGED receiver => ReceiverOK'
      /\ server' \in Servers /\ TurnOK' => ReceiverOK'
  BY <1>1 DEF ReceiverOK, ServerOK, TurnOK, Servers, Turns
<1>5. \A f \in Int : SetCenterFreq(f) \in Seq(Commands)
  BY SentFacts DEF Modes
<1>6. ASSUME NEW g, Gesture(g), opened' \in BOOLEAN PROVE UserOK'
  <2>1. world \in Worlds /\ world.max \in Nat /\ gestures \in Nat
    BY <1>1, ConstantsAssumption DEF UserOK
  <2>2. gestures' \in 0 .. world.max /\ world' = world
    BY <1>6, <2>1 DEF Gesture
  <2>. QED
    BY <1>6, <2>1, <2>2 DEF UserOK
<1>23. ASSUME NEW g, Elsewhere(g) PROVE UserOK'
  BY <1>1, <1>6, <1>23 DEF UserOK
<1>7. CASE Connect
  <2>1. RenderedOK'
    BY <1>1, <1>2, <1>7, RenderFacts DEF Connect
  <2>2. RestOK'
    BY <1>1, <1>7 DEF Connect, RestOK
  <2>3. Hz("fm", Default["fm"]) \in Int
    BY BandFacts, HzFacts DEF Modes
  <2>4. WireOK'
    BY <1>3, <1>5, <1>7, <2>3, ConcatFacts DEF Connect, WireOK
  <2>. QED
    BY <1>1, <1>4, <1>7, <2>1, <2>2, <2>4 DEF Connect, UserOK
<1>8. CASE Disconnect
  <2>1. RenderedOK'
    BY <1>1, <1>2, <1>8, RenderFacts DEF Disconnect
  <2>2. RestOK'
    BY <1>1, <1>8 DEF Disconnect, RestOK, Gesture
  <2>3. WireOK'
    BY <1>3, <1>8 DEF Disconnect, WireOK
  <2>. QED
    BY <1>4, <1>8, <1>23, <2>1, <2>2, <2>3 DEF Disconnect
<1>9. ASSUME NEW t \in Tabs, OnClick(t)
      PROVE  RenderedOK' /\ RestOK' /\ WireOK' /\ ReceiverOK' /\ UserOK'
  <2>1. RenderedOK'
    BY <1>1, <1>2, <1>9, RenderFacts DEF OnClick
  <2>2. RestOK'
    BY <1>1, <1>9 DEF OnClick, RestOK, Gesture
  <2>3. (IF t \in Modes THEN SetMode(t) \o Mounts(t) ELSE << >>)
          \in Seq(Commands)
    BY SentFacts, MountFacts, ConcatFacts
  <2>4. WireOK'
    BY <1>3, <1>9, <2>3, SendFacts DEF OnClick, WireOK
  <2>5. opened' \in BOOLEAN
    BY Zenon, <1>9 DEF OnClick
  <2>. QED
    BY <1>4, <1>6, <1>9, <2>1, <2>2, <2>4, <2>5 DEF OnClick
<1>10. ASSUME NEW g \in Gestures, OnMouseDown(g)
       PROVE  RenderedOK' /\ RestOK' /\ WireOK' /\ ReceiverOK' /\ UserOK'
  <2>1. tab \in Modes
    BY <1>1, <1>10 DEF OnMouseDown, RenderedOK, Recording
  <2>2. RestOK'
    BY <1>1, <1>10, <2>1 DEF OnMouseDown, RestOK
  <2>. QED
    BY <1>1, <1>4, <1>10, <1>23, <2>2 DEF OnMouseDown, RenderedOK, WireOK
<1>11. ASSUME NEW m \in Modes, NEW t \in Band(m), OnMouseMove(t)
       PROVE  RenderedOK' /\ RestOK' /\ WireOK' /\ ReceiverOK' /\ UserOK'
  <2>1. t \in Nat /\ t \in Int
    BY BandFacts
  <2>2. RestOK' /\ shown' \in Int
    BY <1>1, <1>2, <1>11, <2>1 DEF OnMouseMove, RestOK
  <2>. QED
    BY <1>1, <1>4, <1>11, <2>2 DEF OnMouseMove, RenderedOK, WireOK, UserOK
<1>12. CASE OnMouseUp
  <2>1. targetFreq \in Nat /\ view \in Modes
    BY <1>1, <1>12 DEF OnMouseUp, RestOK, RenderedOK
  <2>2. RestOK'
    BY <1>1, <1>12 DEF OnMouseUp, RestOK
  <2>3. shown' \in Int
    BY <1>2, <1>12, <2>1 DEF OnMouseUp, NoFreq
  <2>4. WireOK'
    <3>1. Hz(view, targetFreq) \in Int
      BY <2>1, HzFacts
    <3>. QED
      BY <1>3, <1>5, <1>12, <3>1, SendFacts DEF OnMouseUp, WireOK
  <2>. QED
    BY <1>1, <1>4, <1>12, <2>2, <2>3, <2>4
       DEF OnMouseUp, RenderedOK, UserOK
<1>13. ASSUME NEW m \in Modes, NEW t \in Band(m), OnStation(t)
       PROVE  RenderedOK' /\ RestOK' /\ WireOK' /\ ReceiverOK' /\ UserOK'
  <2>1. t \in Int /\ Hz(view, t) \in Int
    BY <1>13, BandFacts, HzFacts DEF OnStation
  <2>2. WireOK'
    BY <1>3, <1>5, <1>13, <2>1, SendFacts DEF OnStation, WireOK
  <2>. QED
    BY <1>1, <1>4, <1>13, <1>23, <2>1, <2>2
       DEF OnStation, RenderedOK, RestOK
<1>14. ASSUME NEW s \in {"on", "up", "down"}, OnScan(s)
       PROVE  RenderedOK' /\ RestOK' /\ WireOK' /\ ReceiverOK' /\ UserOK'
  <2>1. SetScan(s) \in Seq(Commands)
    BY SentFacts DEF Modes
  <2>2. WireOK'
    BY <1>3, <1>14, <2>1, SendFacts DEF OnScan, WireOK
  <2>. QED
    BY <1>1, <1>4, <1>14, <1>23, <2>2 DEF OnScan, RenderedOK, RestOK
<1>15. CASE OnChangeSampleRate
  BY <1>1, <1>4, <1>15, <1>23
     DEF OnChangeSampleRate, RenderedOK, RestOK, WireOK, Live
<1>16. CASE Retune
  <2>1. (IF retune = Live THEN seen.fc ELSE retune) \in Int
    BY <1>1, <1>2 DEF RenderedOK
  <2>2. WireOK'
    BY <1>3, <1>5, <1>16, <2>1, SendFacts DEF Retune, WireOK
  <2>. QED
    BY <1>1, <1>4, <1>16, <2>2
       DEF Retune, RenderedOK, RestOK, UserOK, NoTimer
<1>17. CASE Receive
  <2>1. Head(down) \in Heartbeats /\ Tail(down) \in Seq(Heartbeats)
        /\ Len(Tail(down)) <= 1
    BY <1>3, <1>17, HeadTailProperties DEF Receive
  <2>2. RenderedOK'
    BY <1>1, <1>2, <1>17, <2>1, RenderFacts DEF Receive
  <2>3. tab' = tab
    BY <1>17 DEF Receive, Render
  <2>4. RestOK'
    BY <1>1, <1>17, <2>3 DEF Receive, RestOK
  <2>5. WireOK'
    BY <1>3, <1>17, <2>1 DEF Receive, WireOK
  <2>. QED
    BY <1>1, <1>4, <1>17, <2>2, <2>4, <2>5 DEF Receive, UserOK
<1>18. CASE Heartbeat
  <2>1. Header \in Heartbeats
    BY <1>4, HeaderIsHeartbeat
  <2>2. WireOK'
    BY <1>3, <1>18, <2>1 DEF Heartbeat, WireOK
  <2>. QED
    BY <1>1, <1>4, <1>18, <2>2 DEF Heartbeat, RenderedOK, RestOK, UserOK
<1>19. CASE Overwritten
  <2>1. WireOK'
    BY <1>3, <1>19, HeadTailProperties DEF Overwritten, WireOK
  <2>. QED
    BY <1>1, <1>4, <1>19, <2>1 DEF Overwritten, RenderedOK, RestOK, UserOK
<1>20. CASE ControllerCommand
  <2>1. Head(up) \in Commands /\ Tail(up) \in Seq(Commands)
    BY <1>3, <1>20, HeadTailProperties DEF ControllerCommand
  <2>2. ReceiverOK'
    <3>1. server' \in Servers
      BY <1>4, <1>20, <2>1, AfterIsServer DEF ControllerCommand
    <3>2. TurnOK'
      BY <1>1, <1>20 DEF ControllerCommand, ReceiverOK, TurnOK
    <3>. QED
      BY <1>4, <3>1, <3>2
  <2>3. WireOK'
    BY <1>3, <1>20, <2>1 DEF ControllerCommand, WireOK
  <2>. QED
    BY <1>1, <1>20, <2>2, <2>3
       DEF ControllerCommand, RenderedOK, RestOK, UserOK
<1>21. CASE ScannerWrites
  <2>1. server' \in Servers
    BY <1>4, <1>21, StepFacts DEF ScannerWrites
  <2>2. due' \in BOOLEAN
    BY Zenon, <1>21 DEF ScannerWrites
  <2>3. TurnOK'
    <3>1. NoTurn \in Turns
      BY DEF NoTurn, Turns, Modes
    <3>. QED
      BY <1>1, <1>21, <2>2, <3>1
         DEF ScannerWrites, ReceiverOK, TurnOK, Turns
  <2>. QED
    BY <1>1, <1>4, <1>21, <2>1, <2>3
       DEF ScannerWrites, RenderedOK, RestOK, WireOK, UserOK
<1>22. CASE UNCHANGED <<page, up, down, server, user>> /\ TurnOK'
  BY <1>1, <1>4, <1>22 DEF RenderedOK, RestOK, WireOK, UserOK
<1>24. CASE ScannerReadsMode \/ ScannerReadsRest
  <2>1. TurnOK'
    BY <1>1, <1>24, ReadsTurn DEF ReceiverOK
  <2>. QED
    BY <1>22, <1>24, <2>1, AsideKeeps
<1>25. CASE HalfSecond \/ Measure \/ UNCHANGED vars
  <2>1. TurnOK'
    <3>1. TurnOK /\ server.rfc \in Nat
      BY <1>1 DEF ReceiverOK, ServerOK
    <3>. QED
      BY <1>25, <3>1 DEF HalfSecond, Measure, TurnOK
  <2>. QED
    BY <1>22, <1>25, <2>1, AsideKeeps
<1>. QED
  BY <1>7, <1>8, <1>9, <1>10, <1>11, <1>12, <1>13, <1>14, <1>15, <1>16,
     <1>17, <1>18, <1>19, <1>20, <1>21, <1>24, <1>25 DEF Next

LEMMA InvInit == Init => Inv
<1>. SUFFICES ASSUME Init PROVE Inv
  OBVIOUS
<1>1. hb \in Heartbeats /\ ~Recording(hb)
  BY DEF Init, Heartbeats, Recording
<1>2. /\ server = Start(world.left) /\ server \in Servers
      /\ turn = NoTurn /\ NoTurn \in Turns
  <2>1. world.left \in Modes
    BY ConstantsAssumption DEF Init
  <2>2. NoTurn \in Turns
    BY DEF NoTurn, Turns, Modes
  <2>. QED
    BY <2>1, <2>2, StartIsServer DEF Init
<1>3. Default["fm"] \in Int
  BY BandFacts DEF Modes
<1>4. world \in Worlds /\ world.max \in Nat
  BY ConstantsAssumption DEF Init
<1>5. stations = [m \in Modes |-> {}]
  BY DEF Init
<1>6. PageOK
  <2>1. DOMAIN stations = Modes /\ \A m \in Modes : stations[m] \subseteq Nat
    BY <1>5
  <2>2. tab \in Modes /\ tab \in Tabs /\ view = tab /\ seen = hb
    BY DEF Init, Tabs, Modes
  <2>3. shown \in Int /\ targetFreq \in Nat /\ retune \in Int
    BY SMT, <1>3 DEF Init, NoTimer
  <2>4. connected \in BOOLEAN /\ lost \in BOOLEAN /\ dragging = "no"
    BY DEF Init
  <2>. QED
    BY <1>1, <2>1, <2>2, <2>3, <2>4 DEF PageOK
<1>7. WireOK /\ ServerOK /\ TurnOK
  <2>1. server.rfc \in Nat
    BY <1>2 DEF Servers
  <2>2. TurnOK
    BY <1>2, <2>1 DEF Init, TurnOK, Turns
  <2>. QED
    BY <1>2, <2>2 DEF Init, WireOK, ServerOK, Servers
<1>8. UserOK
  <2>1. gestures \in 0 .. world.max
    BY <1>4 DEF Init
  <2>2. opened \in BOOLEAN
    BY Zenon DEF Init
  <2>. QED
    BY <1>4, <2>1, <2>2 DEF UserOK
<1>9. ViewInv
  BY DEF Init, ViewInv
<1>. QED
  BY <1>6, <1>7, <1>8, <1>9 DEF Inv, TypeOK

LEMMA InvHolds == Spec => []Inv
  BY InvInit, InvNext, PTL DEF Spec

\* Types of page, wire and server; a tab that was chosen is rendered, and the
\* page is behind only where render throws (modulations.jsx:44).
THEOREM TypeCorrect == Spec => []TypeOK
<1>1. Inv => TypeOK
  BY DEF Inv
<1>. QED
  BY <1>1, InvHolds, PTL

\* What the user sets arrives as it is shown, and so do the samples
\* (client.jsx:24, controller.c:116, rtl.c:103).
THEOREM ConversionsAreExact == Spec => []ConversionsExact
<1>1. ConversionsExact
  BY TicksAreExact, SamplesAreExact DEF ConversionsExact
<1>. QED
  BY <1>1, PTL

-----------------------------------------------------------------------------
(* The settings tab has no list of stations.  A user who waits opens it    *)
(* when the scanner is off and everyone knows it, and there is no button   *)
(* on it that starts the scanner.                                          *)

NoneRecording(s) == \A i \in DOMAIN s : ~Recording(s[i])

SettingsQuiet ==
  /\ view = "settings" /\ server.smode = "off"
  /\ NoScan(up) /\ ~Recording(hb) /\ NoneRecording(down)

SettingsInv ==
  world.patient => ~lost /\ (tab = "settings" => SettingsQuiet)

LEMMA WorldStays == [Next]_vars => world' = world
<1>. SUFFICES ASSUME [Next]_vars PROVE world' = world
  OBVIOUS
<1>. USE DEF user, vars, Elsewhere
<1>1. CASE UNCHANGED <<page, up, down, server, user>>
  BY <1>1
<1>. QED
  BY <1>1, AsideKeeps
     DEF Next, Connect, Disconnect, OnClick, OnMouseDown, OnMouseMove,
         OnMouseUp, OnStation, OnScan, OnChangeSampleRate, Retune, Receive,
         Heartbeat, Overwritten, ControllerCommand, ScannerWrites, Gesture

LEMMA TailOfUp ==
  ASSUME up \in Seq(Commands), up # << >>, NoScan(up)
  PROVE  Head(up).scan = "none" /\ NoScan(Tail(up))
BY DEF NoScan

LEMMA TailOfDown ==
  ASSUME down \in Seq(Heartbeats), down # << >>, NoneRecording(down)
  PROVE  ~Recording(Head(down)) /\ NoneRecording(Tail(down))
BY DEF NoneRecording

LEMMA AfterKeepsOff ==
  ASSUME NEW c \in Commands, NEW s \in Servers, c.scan = "none"
  PROVE  After(c, s).smode = s.smode
<1>1. DOMAIN s = {"mode", "fc", "rfc", "from", "last", "smode"}
  BY DEF Servers
<1>. QED
  BY <1>1 DEF After

LEMMA SettingsNext == Inv /\ SettingsInv /\ [Next]_vars => SettingsInv'
<1>. SUFFICES ASSUME Inv, SettingsInv, [Next]_vars, world'.patient
              PROVE  ~lost' /\ (tab' = "settings" => SettingsQuiet')
  BY DEF SettingsInv
<1>. USE DEF vars, page, user, receiver, Elsewhere
<1>0. up \in Seq(Commands) /\ down \in Seq(Heartbeats) /\ server \in Servers
      /\ tab \in Tabs /\ (tab \in Modes => view = tab) /\ turn \in Turns
  BY DEF Inv, TypeOK, WireOK, ServerOK, PageOK, Servers, TurnOK, Turns
<1>1. world' = world
  BY WorldStays
<1>2. world.patient /\ ~lost /\ (tab = "settings" => SettingsQuiet)
  BY <1>1 DEF SettingsInv
<1>3. ASSUME NEW c \in Seq(Commands), NoScan(c), Send(c),
             UNCHANGED <<tab, view, hb, down, server, lost>>
      PROVE  ~lost' /\ (tab' = "settings" => SettingsQuiet')
  BY <1>0, <1>2, <1>3, SendFacts DEF SettingsQuiet, NoneRecording, Recording
<1>4. ASSUME UNCHANGED <<tab, view, hb, up, down, server, lost>>
      PROVE  ~lost' /\ (tab' = "settings" => SettingsQuiet')
  BY <1>2, <1>4 DEF SettingsQuiet, NoneRecording, NoScan, Recording
<1>5. \A f \in Int : SetCenterFreq(f) \in Seq(Commands)
                       /\ NoScan(SetCenterFreq(f))
  BY SentFacts DEF Modes
<1>6. \A t \in Nat : \A m \in Modes : Hz(m, t) \in Int
  BY HzFacts
<1>7. CASE Connect
  <2>1. /\ tab' = tab /\ view' = tab /\ hb' = hb
        /\ UNCHANGED <<down, server, lost>>
    BY <1>7 DEF Connect, Render
  <2>2. Hz("fm", Default["fm"]) \in Int
    BY BandFacts, HzFacts DEF Modes
  <2>3. NoScan(up) => NoScan(up')
    BY <1>0, <1>5, <1>7, <2>2, ConcatFacts DEF Connect
  <2>. QED
    BY <1>2, <2>1, <2>3 DEF SettingsQuiet, NoneRecording, Recording
<1>8. CASE Disconnect
  <2>1. /\ tab' = tab /\ view' = tab /\ hb' = hb /\ down' = << >>
        /\ UNCHANGED <<up, server, lost>>
    BY <1>8 DEF Disconnect, Render
  <2>. QED
    BY <1>2, <2>1 DEF SettingsQuiet, NoneRecording, NoScan, Recording
<1>9. ASSUME NEW t \in Tabs, OnClick(t)
      PROVE  ~lost' /\ (tab' = "settings" => SettingsQuiet')
  <2>1. tab' = t /\ hb' = hb /\ UNCHANGED <<down, server, lost>>
    BY <1>9 DEF OnClick, Render
  <2>2. SUFFICES ASSUME t = "settings" PROVE SettingsQuiet'
    BY <1>2, <2>1
  <2>3. Settled
    BY <1>2, <1>9 DEF OnClick, Gesture
  <2>4. ~Recording(hb) /\ server.smode = "off"
    BY <1>0, <2>3, HeaderIsHeartbeat DEF Settled
  <2>5. view' = "settings"
    BY <1>9, <2>2, <2>4 DEF OnClick, Render, Renders
  <2>6. up' = << >>
    <3>1. Send(<< >>)
      BY <1>9, <2>2 DEF OnClick, Modes
    <3>. QED
      BY <2>3, <3>1 DEF Send, Settled
  <2>. QED
    BY <2>1, <2>3, <2>4, <2>5, <2>6
       DEF SettingsQuiet, NoneRecording, NoScan, Recording, Settled
<1>10. ASSUME NEW g \in Gestures, OnMouseDown(g)
       PROVE  ~lost' /\ (tab' = "settings" => SettingsQuiet')
  BY <1>4, <1>10 DEF OnMouseDown
<1>11. ASSUME NEW t, OnMouseMove(t)
       PROVE  ~lost' /\ (tab' = "settings" => SettingsQuiet')
  BY <1>4, <1>11 DEF OnMouseMove
<1>12. CASE OnMouseUp
  <2>1. targetFreq \in Nat /\ view \in Modes
    BY <1>12 DEF OnMouseUp, Inv, TypeOK, PageOK
  <2>. QED
    BY <1>3, <1>5, <1>6, <1>12, <2>1 DEF OnMouseUp
<1>13. ASSUME NEW m \in Modes, NEW t \in Band(m), OnStation(t)
       PROVE  ~lost' /\ (tab' = "settings" => SettingsQuiet')
  <2>1. t \in Nat /\ view \in Modes
    BY <1>13, BandFacts DEF OnStation
  <2>. QED
    BY <1>3, <1>5, <1>6, <1>13, <2>1 DEF OnStation
<1>14. ASSUME NEW s, OnScan(s)
       PROVE  ~lost' /\ (tab' = "settings" => SettingsQuiet')
  BY <1>2, <1>14 DEF OnScan, SettingsQuiet, Modes
<1>15. CASE OnChangeSampleRate
  BY <1>4, <1>15 DEF OnChangeSampleRate
<1>16. CASE Retune
  <2>1. (IF retune = Live THEN seen.fc ELSE retune) \in Int
    BY DEF Inv, TypeOK, PageOK, Heartbeats
  <2>. QED
    BY <1>3, <1>5, <1>16, <2>1 DEF Retune
<1>17. CASE Receive
  <2>1. tab' = tab /\ hb' = Head(down) /\ down' = Tail(down)
        /\ UNCHANGED <<up, server>>
    BY <1>17 DEF Receive, Render
  <2>2. CASE tab \in Modes
    <3>1. Renders(tab, Head(down)) /\ tab # "settings"
      BY <2>2 DEF Renders, Modes
    <3>. QED
      BY <1>2, <1>17, <2>1, <3>1 DEF Receive
  <2>3. CASE tab = "settings"
    <3>1. SettingsQuiet
      BY <1>2, <2>3
    <3>2. ~Recording(Head(down)) /\ NoneRecording(Tail(down))
      BY <1>0, <1>17, <3>1, TailOfUp, TailOfDown DEF Receive, SettingsQuiet
    <3>3. Renders(tab, Head(down))
      BY <3>2 DEF Renders
    <3>4. view' = tab /\ ~lost'
      BY <1>2, <1>17, <3>3 DEF Receive, Render
    <3>. QED
      BY <2>1, <2>3, <3>1, <3>2, <3>4
         DEF SettingsQuiet, NoneRecording, NoScan, Recording
  <2>. QED
    BY <1>0, <2>2, <2>3 DEF Tabs
<1>18. CASE Heartbeat
  <2>1. server.smode = "off" => NoneRecording(<<Header>>)
    BY <1>0, HeaderIsHeartbeat DEF NoneRecording
  <2>. QED
    BY <1>2, <1>18, <2>1
       DEF Heartbeat, SettingsQuiet, NoneRecording, NoScan, Recording
<1>19. CASE Overwritten
  BY <1>0, <1>2, <1>19, TailOfUp, TailOfDown
     DEF Overwritten, SettingsQuiet, NoneRecording, NoScan, Recording
<1>20. CASE ControllerCommand
  <2>1. NoScan(up) => Head(up).scan = "none" /\ NoScan(up')
    BY <1>0, <1>20, TailOfUp, TailOfDown DEF ControllerCommand
  <2>2. Head(up) \in Commands
    BY <1>0, <1>20, HeadTailProperties DEF ControllerCommand
  <2>3. NoScan(up) => server'.smode = server.smode
    BY <1>0, <1>20, <2>1, <2>2, AfterKeepsOff DEF ControllerCommand
  <2>. QED
    BY <1>2, <1>20, <2>1, <2>3
       DEF ControllerCommand, SettingsQuiet, NoneRecording, Recording
<1>21. CASE ScannerWrites
  <2>1. Stepped(turn, server, server')
    BY <1>0, <1>21, StepFacts DEF ScannerWrites
  <2>2. server'.smode \in {server.smode, "off"}
    BY <2>1 DEF Stepped
  <2>. QED
    BY <1>2, <1>21, <2>2
       DEF ScannerWrites, SettingsQuiet, NoneRecording, NoScan, Recording
<1>22. CASE UNCHANGED <<page, up, down, server, user>>
  BY <1>4, <1>22
<1>. QED
  BY <1>7, <1>8, <1>9, <1>10, <1>11, <1>12, <1>13, <1>14, <1>15, <1>16,
     <1>17, <1>18, <1>19, <1>20, <1>21, <1>22, AsideKeeps DEF Next

\* With a user who waits no heartbeat makes render throw (modulations.jsx:44).
THEOREM NothingIsLost == Spec => []NothingLost
<1>1. Init => SettingsInv
  BY DEF Init, SettingsInv
<1>2. Inv /\ SettingsInv /\ [Next]_vars => SettingsInv'
  BY SettingsNext
<1>3. SettingsInv => NothingLost
  BY DEF SettingsInv, NothingLost
<1>. QED
  BY <1>1, <1>2, <1>3, InvHolds, PTL DEF Spec

-----------------------------------------------------------------------------
(* While a scan runs, or is on its way, a user who waits has nothing else  *)
(* on its way; and with users who never scan or seek none runs.            *)

Busy == server.smode # "off" \/ ~NoScan(up)

BusyInv ==
  world.patient =>
    /\ server.smode # "off" => up = << >>
    /\ ~NoScan(up) => Len(up) = 1 /\ up[1].mode = "none" /\ up[1].fc = NoFreq
    /\ Busy => connected /\ tab \in Modes /\ dragging = "no"
                 /\ retune = NoTimer

IdleInv ==
  world.gestures \cap {"scan", "seek"} = {} => ~Busy /\ turn.at = "out"

LEMMA BusyNext ==
  Inv /\ SettingsInv /\ BusyInv /\ [Next]_vars => BusyInv'
<1>. SUFFICES ASSUME Inv, SettingsInv, BusyInv, [Next]_vars, world'.patient
              PROVE  BusyInv'
  BY DEF BusyInv
<1>. USE DEF vars, page, user, receiver, Elsewhere
<1>0. /\ up \in Seq(Commands) /\ server \in Servers
      /\ tab \in Tabs /\ view \in Tabs /\ (tab \in Modes => view = tab)
      /\ turn \in Turns
  BY DEF Inv, TypeOK, WireOK, ServerOK, PageOK, Servers, TurnOK, Turns
<1>1. world' = world /\ world.patient
  BY WorldStays DEF BusyInv
<1>2. /\ server.smode # "off" => up = << >>
      /\ ~NoScan(up) =>
           Len(up) = 1 /\ up[1].mode = "none" /\ up[1].fc = NoFreq
      /\ Busy => connected /\ tab \in Modes /\ dragging = "no"
                   /\ retune = NoTimer
  BY <1>1 DEF BusyInv
<1>3. NoScan(<< >>)
  BY DEF NoScan
<1>4. ASSUME ~Busy' PROVE BusyInv'
  BY <1>4 DEF BusyInv, Busy
<1>5. ASSUME ~Busy, NEW c \in Seq(Commands), NoScan(c), Send(c),
             server' = server
      PROVE  BusyInv'
  <2>1. NoScan(up) /\ server.smode = "off"
    BY <1>5 DEF Busy
  <2>2. NoScan(up')
    BY <1>0, <1>5, <2>1, SendFacts
  <2>3. ~Busy'
    BY <1>5, <2>1, <2>2 DEF Busy, NoScan
  <2>. QED
    BY <1>4, <2>3
<1>6. ASSUME ~Busy, UNCHANGED <<up, server>> PROVE BusyInv'
  BY <1>4, <1>6 DEF Busy, NoScan
<1>7. ASSUME UNCHANGED <<up, server, connected, tab, dragging, retune>>
      PROVE  BusyInv'
  BY <1>2, <1>7 DEF BusyInv, Busy, NoScan
<1>8. Settled \/ ~connected => ~Busy
  BY <1>2, <1>3 DEF Settled, Busy
<1>9. ASSUME NEW g, Gesture(g)
      PROVE  ~Busy /\ dragging = "no" /\ (connected => Settled)
  BY <1>1, <1>8, <1>9 DEF Gesture
<1>10. \A f \in Int : SetCenterFreq(f) \in Seq(Commands)
                        /\ NoScan(SetCenterFreq(f))
  BY SentFacts DEF Modes
<1>11. \A t \in Nat : \A m \in Modes : Hz(m, t) \in Int
  BY HzFacts
<1>12. CASE Connect
  <2>1. ~Busy /\ server' = server
    BY <1>8, <1>12 DEF Connect
  <2>2. Hz("fm", Default["fm"]) \in Int
    BY BandFacts, HzFacts DEF Modes
  <2>3. NoScan(up')
    BY <1>0, <1>10, <1>12, <2>1, <2>2, ConcatFacts DEF Connect, Busy
  <2>. QED
    BY <1>4, <2>1, <2>3 DEF Busy, NoScan
<1>13. CASE Disconnect
  BY <1>6, <1>9, <1>13 DEF Disconnect
<1>14. ASSUME NEW t \in Tabs, OnClick(t) PROVE BusyInv'
  <2>1. ~Busy /\ server' = server
    BY <1>9, <1>14 DEF OnClick
  <2>2. CASE t \in Modes
    <3>1. Mounts(t) \in Seq(Commands) /\ NoScan(Mounts(t))
      BY MountFacts
    <3>2. SetMode(t) \in Seq(Commands) /\ NoScan(SetMode(t))
      BY <2>2, SentFacts
    <3>3. Send(SetMode(t) \o Mounts(t))
      BY <1>14, <2>2 DEF OnClick
    <3>. QED
      BY <1>5, <2>1, <3>1, <3>2, <3>3, ConcatFacts
  <2>3. CASE t \notin Modes
    <3>1. Send(<< >>) /\ << >> \in Seq(Commands)
      BY <1>14, <2>3 DEF OnClick
    <3>. QED
      BY <1>3, <1>5, <2>1, <3>1
  <2>. QED
    BY <2>2, <2>3
<1>15. ASSUME NEW g, OnMouseDown(g) PROVE BusyInv'
  BY <1>6, <1>9, <1>15 DEF OnMouseDown
<1>16. ASSUME NEW t, OnMouseMove(t) PROVE BusyInv'
  BY <1>2, <1>6, <1>16 DEF OnMouseMove
<1>17. CASE OnMouseUp
  <2>1. targetFreq \in Nat /\ view \in Modes /\ ~Busy
    BY <1>2, <1>17 DEF OnMouseUp, Inv, TypeOK, PageOK
  <2>. QED
    BY <1>5, <1>10, <1>11, <1>17, <2>1 DEF OnMouseUp
<1>18. ASSUME NEW m \in Modes, NEW t \in Band(m), OnStation(t) PROVE BusyInv'
  <2>1. t \in Nat /\ view \in Modes /\ ~Busy
    BY <1>9, <1>18, BandFacts DEF OnStation
  <2>. QED
    BY <1>5, <1>10, <1>11, <1>18, <2>1 DEF OnStation
<1>19. ASSUME NEW s \in {"on", "up", "down"}, OnScan(s) PROVE BusyInv'
  <2>1. /\ Settled /\ connected /\ view \in Modes /\ dragging = "no"
        /\ Send(SetScan(s)) /\ UNCHANGED <<page, server>>
    BY <1>9, <1>19 DEF OnScan
  <2>2. up = << >> /\ server.smode = "off" /\ retune = NoTimer
    BY <2>1 DEF Settled
  <2>3. up' = <<Command("none", s, NoFreq)>>
    BY <2>1, <2>2 DEF Send, SetScan
  <2>4. tab \in Modes
    BY <1>0, <1>1, <2>1 DEF SettingsInv, SettingsQuiet, Tabs, Modes
  <2>. QED
    BY <2>1, <2>2, <2>3, <2>4 DEF BusyInv, Busy, Command
<1>20. CASE OnChangeSampleRate
  BY <1>6, <1>9, <1>20 DEF OnChangeSampleRate
<1>21. CASE Retune
  <2>1. (IF retune = Live THEN seen.fc ELSE retune) \in Int /\ ~Busy
    BY <1>2, <1>21 DEF Retune, Inv, TypeOK, PageOK, Heartbeats
  <2>. QED
    BY <1>5, <1>10, <1>21, <2>1 DEF Retune
<1>22. CASE Receive
  <2>1. /\ Render(tab, Head(down), shown)
        /\ UNCHANGED <<up, server, connected, dragging>>
    BY <1>22 DEF Receive
  <2>2. tab' = tab /\ (tab \in Modes => retune' = retune)
    BY <1>0, <2>1 DEF Render
  <2>. QED
    BY <1>6, <1>7, <1>2, <2>1, <2>2
<1>23. CASE Heartbeat
  BY <1>7, <1>23 DEF Heartbeat
<1>24. CASE Overwritten
  BY <1>7, <1>24 DEF Overwritten
<1>25. CASE ControllerCommand
  <2>1. /\ up # << >> /\ server' = After(Head(up), server) /\ up' = Tail(up)
        /\ UNCHANGED <<connected, tab, dragging, retune>>
        /\ server.smode = "off" /\ Head(up) \in Commands
    BY <1>0, <1>2, <1>25, HeadTailProperties DEF ControllerCommand
  <2>2. CASE NoScan(up)
    <3>1. Head(up).scan = "none" /\ NoScan(up')
      BY <1>0, <2>1, <2>2, TailOfUp
    <3>2. server'.smode = "off"
      BY <1>0, <2>1, <3>1, AfterKeepsOff
    <3>. QED
      BY <1>4, <3>1, <3>2 DEF Busy, NoScan
  <2>3. CASE ~NoScan(up)
    <3>1. up' = << >>
      <4>1. Len(up) = 1 /\ Tail(up) \in Seq(Commands)
            /\ Len(Tail(up)) = Len(up) - 1
        BY <1>0, <1>2, <2>1, <2>3
      <4>2. Len(Tail(up)) = 0
        BY <4>1
      <4>. QED
        BY <2>1, <4>1, <4>2, EmptySeq
    <3>. QED
      BY <1>2, <1>3, <2>1, <2>3, <3>1 DEF BusyInv, Busy, NoScan
  <2>. QED
    BY <2>2, <2>3
<1>26. CASE ScannerWrites
  <2>1. UNCHANGED <<up, connected, tab, dragging, retune>>
    BY <1>26 DEF ScannerWrites
  <2>2. Stepped(turn, server, server')
    BY <1>0, <1>26, StepFacts DEF ScannerWrites
  <2>3. server'.smode # "off" => server.smode # "off"
    BY <2>2 DEF Stepped
  <2>. QED
    BY <1>2, <1>3, <2>1, <2>3 DEF BusyInv, Busy, NoScan
<1>27. CASE UNCHANGED <<page, up, down, server, user>>
  BY <1>7, <1>27
<1>. QED
  BY <1>12, <1>13, <1>14, <1>15, <1>16, <1>17, <1>18, <1>19, <1>20, <1>21,
     <1>22, <1>23, <1>24, <1>25, <1>26, <1>27, AsideKeeps DEF Next

LEMMA BusyInit == Init => BusyInv
  BY DEF Init, BusyInv, Busy, NoScan, Start

LEMMA IdleInit == Init => IdleInv
  BY DEF Init, IdleInv, Busy, NoScan, Start, NoTurn

\* What is sent by itself, or for anything but the scan and seek buttons,
\* does not set the scanner going.
LEMMA BusyStarts ==
  ASSUME Inv, [Next]_vars, ~Busy, Busy'
  PROVE  \E s \in {"on", "up", "down"} : OnScan(s)
<1>. SUFFICES ASSUME \A s \in {"on", "up", "down"} : ~OnScan(s)
              PROVE  ~Busy'
  OBVIOUS
<1>. USE DEF page, receiver, user, vars
<1>0. /\ up \in Seq(Commands) /\ server \in Servers
      /\ NoScan(up) /\ server.smode = "off"
      /\ turn \in Turns
  BY DEF Inv, TypeOK, WireOK, ServerOK, Servers, TurnOK, Turns, Busy
<1>1. ASSUME NEW c \in Seq(Commands), NoScan(c), Send(c), UNCHANGED receiver
      PROVE  ~Busy'
  BY <1>0, <1>1, SendFacts DEF Busy
<1>2. ASSUME UNCHANGED <<up, receiver>> PROVE ~Busy'
  BY <1>0, <1>2 DEF Busy, NoScan
<1>3. \A f \in Int : SetCenterFreq(f) \in Seq(Commands)
                       /\ NoScan(SetCenterFreq(f))
  BY SentFacts DEF Modes
<1>4. \A t \in Nat : \A m \in Modes : Hz(m, t) \in Int
  BY HzFacts
<1>5. CASE Connect
  <2>1. Hz("fm", Default["fm"]) \in Int
    BY BandFacts, HzFacts DEF Modes
  <2>2. NoScan(up')
    BY <1>0, <1>3, <1>5, <2>1, ConcatFacts DEF Connect
  <2>. QED
    BY <1>0, <1>5, <2>2 DEF Connect, Busy
<1>6. ASSUME NEW t \in Tabs, OnClick(t) PROVE ~Busy'
  <2>1. CASE t \in Modes
    <3>1. /\ Mounts(t) \in Seq(Commands) /\ NoScan(Mounts(t))
          /\ SetMode(t) \in Seq(Commands) /\ NoScan(SetMode(t))
      BY <2>1, MountFacts, SentFacts
    <3>2. Send(SetMode(t) \o Mounts(t)) /\ UNCHANGED receiver
      BY <1>6, <2>1 DEF OnClick
    <3>. QED
      BY <1>1, <3>1, <3>2, ConcatFacts
  <2>2. CASE t \notin Modes
    <3>1. Send(<< >>) /\ << >> \in Seq(Commands) /\ NoScan(<< >>)
      BY <1>6, <2>2 DEF OnClick, NoScan
    <3>. QED
      BY <1>1, <1>6, <3>1 DEF OnClick
  <2>. QED
    BY <2>1, <2>2
<1>7. CASE OnMouseUp
  <2>1. targetFreq \in Nat /\ view \in Modes
    BY <1>7 DEF OnMouseUp, Inv, TypeOK, PageOK
  <2>. QED
    BY <1>1, <1>3, <1>4, <1>7, <2>1 DEF OnMouseUp
<1>8. ASSUME NEW m \in Modes, NEW t \in Band(m), OnStation(t)
      PROVE  ~Busy'
  <2>1. t \in Nat /\ view \in Modes
    BY <1>8, BandFacts DEF OnStation
  <2>. QED
    BY <1>1, <1>3, <1>4, <1>8, <2>1 DEF OnStation
<1>10. CASE Retune
  <2>1. (IF retune = Live THEN seen.fc ELSE retune) \in Int
    BY DEF Inv, TypeOK, PageOK, Heartbeats
  <2>. QED
    BY <1>1, <1>3, <1>10, <2>1 DEF Retune
<1>11. CASE ControllerCommand
  <2>1. Head(up).scan = "none" /\ NoScan(up') /\ Head(up) \in Commands
    BY <1>0, <1>11, TailOfUp, HeadTailProperties DEF ControllerCommand
  <2>2. server'.smode = "off"
    BY <1>0, <1>11, <2>1, AfterKeepsOff DEF ControllerCommand
  <2>. QED
    BY <1>0, <1>11, <2>1, <2>2 DEF ControllerCommand, Busy
<1>12. CASE ScannerWrites
  <2>1. Stepped(turn, server, server')
    BY <1>0, <1>12, StepFacts DEF ScannerWrites
  <2>2. server'.smode = "off"
    BY <1>0, <2>1 DEF Stepped
  <2>. QED
    BY <1>0, <1>12, <2>2 DEF ScannerWrites, Busy, NoScan
<1>13. CASE \/ Disconnect \/ \E g \in Gestures : OnMouseDown(g)
            \/ \E t : OnMouseMove(t)
            \/ OnChangeSampleRate \/ Receive \/ Heartbeat \/ Overwritten
  BY <1>2, <1>13 DEF Disconnect, OnMouseDown, OnMouseMove,
     OnChangeSampleRate, Receive, Heartbeat, Overwritten
<1>14. CASE UNCHANGED <<page, up, down, server, user>>
  BY <1>0, <1>14 DEF Busy, NoScan
<1>. QED
  BY <1>5, <1>6, <1>7, <1>8, <1>10, <1>11, <1>12, <1>13, <1>14,
     AsideKeeps DEF Next

LEMMA IdleNext == Inv /\ IdleInv /\ [Next]_vars => IdleInv'
<1>. SUFFICES ASSUME Inv, IdleInv, [Next]_vars,
                     world'.gestures \cap {"scan", "seek"} = {}
              PROVE  ~Busy' /\ turn'.at = "out"
  BY DEF IdleInv
<1>1. /\ "scan" \notin world.gestures /\ "seek" \notin world.gestures
      /\ ~Busy /\ server.smode = "off" /\ turn.at = "out"
  BY WorldStays DEF IdleInv, Busy
<1>2. \A s : ~OnScan(s)
  BY <1>1 DEF OnScan, Elsewhere, Gesture
<1>3. ~Busy'
  BY <1>1, <1>2, BusyStarts
<1>4. ~ScannerReadsMode /\ ~ScannerReadsRest /\ ~ScannerWrites
  BY <1>1 DEF ScannerReadsMode, ScannerReadsRest, ScannerWrites
<1>5. turn' = turn
  BY <1>4 DEF Next, Connect, Disconnect, OnClick, OnMouseDown, OnMouseMove,
     OnMouseUp, OnStation, OnScan, OnChangeSampleRate, Retune, Receive,
     Heartbeat, Overwritten, ControllerCommand, HalfSecond, Measure,
     receiver, vars
<1>. QED
  BY <1>1, <1>3, <1>5

\* What the scanner has read of the server is what the server still is.
Copies(t, s) ==
  /\ t.mode = s.mode /\ t.smode = s.smode
  /\ t.at = "rest" =>
       /\ t.fc = s.fc /\ t.step = Hz(s.mode, TickStep(s.mode))
       /\ t.just <=> s.from < 0

TurnInv ==
  turn.at # "out" =>
    /\ turn.due => due
    /\ world.patient => /\ server.smode # "off" /\ OnTick(server.fc)
                       /\ Copies(turn, server)

LEMMA TurnInit == Init => TurnInv
  BY DEF Init, NoTurn, TurnInv

LEMMA TurnNext == Inv /\ BusyInv /\ TurnInv /\ [Next]_vars => TurnInv'
<1>. SUFFICES ASSUME Inv, BusyInv, TurnInv, [Next]_vars, turn'.at # "out"
              PROVE  TurnInv'
  BY DEF TurnInv
<1>. USE DEF page, receiver, user, vars
<1>0. world' = world /\ turn \in Turns /\ server \in Servers
  BY WorldStays DEF Inv, TypeOK, ServerOK, TurnOK, Servers, Turns
<1>1. ASSUME UNCHANGED <<server, turn>>, due => due' PROVE TurnInv'
  BY <1>0, <1>1 DEF TurnInv, Copies, OnTick
<1>2. CASE ControllerCommand
  BY <1>0, <1>2 DEF ControllerCommand, TurnInv, BusyInv
<1>3. CASE ScannerReadsMode
  <2>1. /\ turn'.at = "mode" /\ turn'.smode = server.smode
        /\ turn'.mode = server.mode /\ turn'.due = due
        /\ server' = server /\ due' = due
        /\ server.smode # "off" /\ OnTick(server.fc)
    BY <1>3 DEF ScannerReadsMode, NoTurn
  <2>. QED
    BY <2>1 DEF TurnInv, Copies, OnTick
<1>4. CASE ScannerReadsRest
  <2>1. /\ turn.due => due
        /\ world.patient =>
             /\ server.smode # "off" /\ OnTick(server.fc)
             /\ turn.mode = server.mode /\ turn.smode = server.smode
    BY <1>0, <1>4 DEF ScannerReadsRest, TurnInv, Copies
  <2>2. /\ turn'.mode = turn.mode /\ turn'.smode = turn.smode
        /\ turn'.due = turn.due /\ turn'.fc = server.fc
        /\ turn'.step = Hz(server.mode, TickStep(server.mode))
        /\ server' = server /\ due' = due
    BY <1>0, <1>4 DEF ScannerReadsRest, Turns
  <2>3. turn'.just <=> server.from < 0
    <3>. DEFINE j == server.from < 0
                h == Hz(server.mode, TickStep(server.mode))
                g == Strong
    <3>1. turn' = [turn EXCEPT !.at = "rest", !.just = j, !.fc = server.fc,
                               !.strong = g, !.step = h]
      BY <1>4 DEF ScannerReadsRest
    <3>2. "just" \in DOMAIN turn
      BY <1>0 DEF Turns
    <3>. HIDE DEF j, g, h
    <3>3. turn'.just = j
      BY Zenon, <3>1, <3>2
    <3>. QED
      BY <3>3 DEF j
  <2>4. turn'.due => due'
    BY Zenon, <2>1, <2>2
  <2>5. world.patient => Copies(turn', server')
    BY Zenon, <2>1, <2>2, <2>3 DEF Copies
  <2>6. OnTick(server.fc) => OnTick(server'.fc)
    BY Zenon, <2>2
  <2>. QED
    BY Zenon, <1>0, <2>1, <2>2, <2>4, <2>5, <2>6 DEF TurnInv, Copies, OnTick
<1>5. CASE ScannerWrites
  BY <1>5 DEF ScannerWrites, NoTurn
<1>6. CASE HalfSecond
  BY <1>1, <1>6 DEF HalfSecond
<1>7. CASE Measure
  BY <1>1, <1>7 DEF Measure
<1>. QED
  BY <1>1, <1>2, <1>3, <1>4, <1>5, <1>6, <1>7 DEF Next, Connect, Disconnect,
     OnClick, OnMouseDown, OnMouseMove, OnMouseUp, OnStation, OnScan,
     OnChangeSampleRate, Retune, Receive, Heartbeat, Overwritten

-----------------------------------------------------------------------------
(* The frequency of the dongle, and what is measured.                      *)

\* No further up than the bands go.
Bounded(f) == \E m \in Modes : f <= Hz(m, BandMax[m])

TunedInv ==
  /\ \E m \in Modes : server.rfc = server.fc + Offset[m]
  /\ Bounded(server.fc) /\ Bounded(turn.fc)

LEMMA ZeroBounded == Bounded(0)
<1>1. "fm" \in Modes /\ Hz("fm", BandMax["fm"]) \in Nat
  BY BandFacts DEF Modes
<1>. QED
  BY <1>1 DEF Bounded

LEMMA NextBounded ==
  ASSUME NEW t \in Turns, Bounded(t.fc), NEW f, IsNext(t, f)
  PROVE  Bounded(f)
<1>1. t.fc \in Nat /\ t.mode \in Modes /\ t.step \in Nat
  BY DEF Turns
<1>2. Top(t) \in Nat /\ Bottom(t) \in Nat /\ Bottom(t) <= Top(t)
  <2>1. Top(t) \in Nat /\ Bottom(t) \in Nat
    BY <1>1, BandFacts DEF Top, Bottom
  <2>2. /\ BandMin[t.mode] \in Nat /\ BandMax[t.mode] \in Nat
        /\ BandMin[t.mode] <= BandMax[t.mode]
    BY <1>1, BandEnds, TickAccepted
  <2>3. Hz(t.mode, BandMin[t.mode]) <= Hz(t.mode, BandMax[t.mode])
    BY SMT, <2>2 DEF Hz, PerHundredth
  <2>. QED
    BY <2>1, <2>3 DEF Top, Bottom
<1>3. f <= Top(t) => Bounded(f)
  BY <1>1 DEF Bounded, Top
<1>4. CASE f = Down(t)
  <2>1. PICK m \in Modes : t.fc <= Hz(m, BandMax[m])
    BY DEF Bounded
  <2>2. Hz(m, BandMax[m]) \in Nat
    BY BandFacts
  <2>3. f <= Hz(m, BandMax[m])
    BY <1>1, <1>4, <2>1, <2>2 DEF Down
  <2>. QED
    BY <2>3 DEF Bounded
<1>. QED
  BY <1>2, <1>3, <1>4 DEF IsNext

LEMMA TunedInit == Init => TunedInv
<1>. SUFFICES ASSUME Init PROVE TunedInv
  OBVIOUS
<1>1. /\ world.left \in Modes /\ server = Start(world.left)
      /\ turn = NoTurn
  BY ConstantsAssumption DEF Init
<1>. DEFINE m == world.left
<1>2. /\ Default[m] \in Nat /\ BandMax[m] \in Nat /\ Default[m] <= BandMax[m]
  BY <1>1, BandFacts, TickAccepted, ConstantsAssumption
<1>3. Hz(m, Default[m]) <= Hz(m, BandMax[m])
  BY SMT, <1>2 DEF Hz, PerHundredth
<1>4. server.fc = Hz(m, Default[m]) /\ server.rfc = server.fc + Offset[m]
  BY <1>1 DEF Start
<1>5. turn.fc = 0
  BY <1>1 DEF NoTurn
<1>. QED
  BY <1>1, <1>3, <1>4, <1>5, ZeroBounded DEF TunedInv, Bounded

LEMMA TunedNext == Inv /\ TunedInv /\ [Next]_vars => TunedInv'
<1>. SUFFICES ASSUME Inv, TunedInv, [Next]_vars PROVE TunedInv'
  OBVIOUS
<1>. USE DEF page, receiver, user, vars
<1>0. up \in Seq(Commands) /\ server \in Servers /\ turn \in Turns
  BY DEF Inv, TypeOK, WireOK, ServerOK, Servers, TurnOK, Turns
<1>1. ASSUME server' = server, turn'.fc \in {turn.fc, server.fc, 0}
      PROVE  TunedInv'
  BY <1>1, ZeroBounded DEF TunedInv, Bounded
<1>2. CASE ControllerCommand
  <2>. DEFINE c == Head(up)
              m == IF c.mode # "none" THEN c.mode ELSE server.mode
  <2>1. c \in Commands /\ server' = After(c, server) /\ turn' = turn
    BY <1>0, <1>2, HeadTailProperties DEF ControllerCommand
  <2>2. m \in Modes
    BY <1>0, <2>1 DEF Commands, Servers
  <2>. HIDE DEF c
  <2>3. CASE c.fc > 0 /\ InBand(m, ToFloat(c.fc))
    <3>1. /\ server'.fc = ToFloat(c.fc)
          /\ server'.rfc = ToFloat(c.fc) + Offset[m]
      BY <1>0, <2>1, <2>3, AfterFacts
    <3>2. Bounded(server'.fc)
      BY <2>2, <2>3, <3>1 DEF InBand, Bounded
    <3>. QED
      BY <2>1, <2>2, <3>1, <3>2 DEF TunedInv, Bounded
  <2>4. CASE ~(c.fc > 0 /\ InBand(m, ToFloat(c.fc)))
    <3>1. server'.fc = server.fc /\ server'.rfc = server.rfc
      BY <1>0, <2>1, <2>4, AfterFacts
    <3>. QED
      BY <2>1, <3>1 DEF TunedInv, Bounded
  <2>. QED
    BY <2>3, <2>4
<1>3. CASE ScannerWrites
  <2>1. turn' = NoTurn /\ NoTurn.fc = 0
    BY <1>3 DEF ScannerWrites, NoTurn
  <2>2. Stepped(turn, server, server')
    BY <1>0, <1>3, StepFacts DEF ScannerWrites
  <2>3. Bounded(turn'.fc)
    BY <2>1, ZeroBounded
  <2>4. CASE server'.fc = server.fc /\ server'.rfc = server.rfc
    BY <2>3, <2>4 DEF TunedInv, Bounded
  <2>5. ASSUME NEW f, IsNext(turn, f), server'.fc = f,
               server'.rfc = f + Offset[turn.mode]
        PROVE  TunedInv'
    <3>1. Bounded(f) /\ turn.mode \in Modes
      BY <1>0, <2>5, NextBounded DEF TunedInv, Turns
    <3>. QED
      BY <2>3, <2>5, <3>1 DEF TunedInv, Bounded
  <2>. QED
    BY <2>2, <2>4, <2>5 DEF Stepped
<1>4. CASE ScannerReadsMode
  BY <1>1, <1>4 DEF ScannerReadsMode, NoTurn
<1>5. CASE ScannerReadsRest
  <2>1. turn'.fc = server.fc /\ server' = server
    BY <1>0, <1>5 DEF ScannerReadsRest, Turns
  <2>. QED
    BY <1>1, <2>1
<1>6. CASE HalfSecond \/ Measure
  BY <1>1, <1>6 DEF HalfSecond, Measure
<1>. QED
  BY <1>1, <1>2, <1>3, <1>4, <1>5, <1>6 DEF Next, Connect, Disconnect,
     OnClick, OnMouseDown, OnMouseMove, OnMouseUp, OnStation, OnScan,
     OnChangeSampleRate, Retune, Receive, Heartbeat, Overwritten

\* Where a page finds the server, and leaves it until the first scan.
Fresh ==
  /\ server.smode = "off" /\ turn.at = "out"
  /\ server.fc = Start(world.left).fc /\ server.rfc = Start(world.left).rfc

\* A user who only scans, seeks and opens the settings sends no frequency
\* but the one of connector.jsx, before anything else.
OnlyScans == world.gestures \subseteq {"scan", "seek", "settings"}
Greeting == Hz("fm", Default["fm"])

OnlyScansInv ==
  OnlyScans =>
    /\ dragging = "no" /\ retune = NoTimer /\ server.mode = world.left
    /\ \A i \in DOMAIN up :
         up[i].mode = "none" /\ (i # 1 => up[i].fc = NoFreq)
    /\ up # << >> => up[1].fc \in {NoFreq, Greeting}
    /\ up # << >> /\ up[1].fc # NoFreq => Fresh
    /\ ~connected => up = << >> /\ Fresh

LEMMA OnlyScansInit == Init => OnlyScansInv
  BY DEF Init, OnlyScansInv, Fresh, Start, NoTurn

LEMMA OnlyScansNext == Inv /\ OnlyScansInv /\ [Next]_vars => OnlyScansInv'
<1>. SUFFICES ASSUME Inv, OnlyScansInv, [Next]_vars, OnlyScans'
              PROVE  OnlyScansInv'
  BY DEF OnlyScansInv
<1>. USE DEF page, receiver, user, vars
<1>0. /\ up \in Seq(Commands) /\ server \in Servers /\ turn \in Turns
      /\ Greeting \in Int /\ world' = world /\ OnlyScans
  <2>1. Greeting \in Int
    BY BandFacts, HzFacts DEF Modes, Greeting
  <2>. QED
    BY <2>1, WorldStays
       DEF Inv, TypeOK, WireOK, ServerOK, Servers, TurnOK, Turns, OnlyScans
<1>1. /\ dragging = "no" /\ retune = NoTimer /\ server.mode = world.left
      /\ \A i \in DOMAIN up :
           up[i].mode = "none" /\ (i # 1 => up[i].fc = NoFreq)
      /\ up # << >> => up[1].fc \in {NoFreq, Greeting}
      /\ up # << >> /\ up[1].fc # NoFreq => Fresh
      /\ ~connected => up = << >> /\ Fresh
  BY <1>0 DEF OnlyScansInv
<1>2. ASSUME NEW g, Gesture(g) PROVE g \in {"scan", "seek", "settings"}
  BY <1>0, <1>2 DEF Gesture, OnlyScans
<1>3. ASSUME NEW t, NEW h, NEW f, Render(t, h, f) PROVE retune' = NoTimer
  BY <1>1, <1>3 DEF Render, Live, NoTimer
<1>4. ASSUME UNCHANGED <<dragging, up, receiver, connected>>,
             retune' = NoTimer
      PROVE  OnlyScansInv'
  BY <1>0, <1>1, <1>4 DEF OnlyScansInv, Fresh
<1>5. CASE Connect
  <2>1. up' = SetCenterFreq(Greeting) /\ connected' = TRUE
    <3>1. SetCenterFreq(Greeting) \in Seq(Commands)
      BY <1>0, SentFacts DEF Modes
    <3>2. up = << >> /\ up' = up \o SetCenterFreq(Greeting)
      BY <1>1, <1>5 DEF Connect, Greeting
    <3>. QED
      BY <1>5, <3>1, <3>2 DEF Connect
  <2>2. Fresh' /\ UNCHANGED <<dragging, receiver>> /\ retune' = NoTimer
    BY <1>0, <1>1, <1>3, <1>5 DEF Connect, Fresh
  <2>3. up' # << >> => up' = <<Command("none", "none", Greeting)>>
    BY <2>1 DEF SetCenterFreq
  <2>. QED
    BY <1>1, <1>0, <2>1, <2>2, <2>3 DEF OnlyScansInv, Command
<1>6. ASSUME NEW t \in Tabs, OnClick(t) PROVE OnlyScansInv'
  <2>1. t \notin Modes
    BY <1>2, <1>6 DEF OnClick
  <2>2. Send(<< >>) /\ UNCHANGED <<dragging, receiver, connected>>
        /\ retune' = NoTimer
    BY <1>3, <1>6, <2>1 DEF OnClick
  <2>3. up' = up
    BY <1>0, <2>2 DEF Send
  <2>. QED
    BY <1>4, <2>2, <2>3
<1>7. ASSUME NEW s \in {"on", "up", "down"}, OnScan(s) PROVE OnlyScansInv'
  <2>1. /\ up' = up \o <<Command("none", s, NoFreq)>> /\ connected
        /\ UNCHANGED <<page, receiver>>
    BY <1>7 DEF OnScan, Send, SetScan
  <2>. DEFINE c == Command("none", s, NoFreq)
  <2>2. c \in Commands /\ c.mode = "none" /\ c.fc = NoFreq
    BY DEF Command, Commands, NoFreq
  <2>. HIDE DEF c
  <2>3. /\ Len(up') = Len(up) + 1 /\ DOMAIN up' = 1 .. Len(up) + 1
        /\ \A i \in DOMAIN up : up'[i] = up[i]
        /\ up'[Len(up) + 1] = c /\ DOMAIN up = 1 .. Len(up)
        /\ Len(up) \in Nat
    BY <1>0, <2>1, <2>2 DEF c
  <2>4. /\ \A i \in DOMAIN up' :
             up'[i].mode = "none" /\ (i # 1 => up'[i].fc = NoFreq)
        /\ up'[1].fc \in {NoFreq, Greeting}
        /\ up'[1].fc # NoFreq => Fresh
    <3>1. CASE up = << >>
      BY <1>0, <2>2, <2>3, <3>1
    <3>2. CASE up # << >>
      <4>1. 1 \in DOMAIN up
        BY <1>0, <3>2
      <4>. QED
        BY <1>1, <2>2, <2>3, <3>2, <4>1
    <3>. QED
      BY <3>1, <3>2
  <2>. QED
    BY <1>0, <1>1, <2>1, <2>4 DEF OnlyScansInv, Fresh
<1>8. CASE ControllerCommand
  <2>. DEFINE c == Head(up)
  <2>1. /\ up # << >> /\ up' = Tail(up) /\ c \in Commands /\ c = up[1]
        /\ server' = After(c, server)
        /\ UNCHANGED <<dragging, retune, connected, turn>>
    BY <1>0, <1>8, HeadTailProperties DEF ControllerCommand
  <2>2. c.mode = "none"
    BY <1>0, <1>1, <2>1
  <2>3. server'.mode = server.mode
    BY <1>0, <2>1, <2>2, AfterFacts DEF Servers
  <2>4. \A i \in DOMAIN up' :
           up'[i].mode = "none" /\ up'[i].fc = NoFreq
    BY <1>0, <1>1, <2>1
  <2>5. up' # << >> => 1 \in DOMAIN up'
    BY <1>0, <2>1, HeadTailProperties
  <2>6. connected
    BY <1>1, <2>1
  <2>. QED
    BY <1>0, <1>1, <2>1, <2>3, <2>4, <2>5, <2>6 DEF OnlyScansInv
<1>9. CASE ScannerWrites
  <2>1. Stepped(turn, server, server') /\ UNCHANGED <<page, up>> /\ ~Fresh
    BY <1>0, <1>9, StepFacts DEF ScannerWrites, Fresh
  <2>2. server'.mode = server.mode
    BY <2>1 DEF Stepped
  <2>. QED
    BY <1>0, <1>1, <2>1, <2>2 DEF OnlyScansInv
<1>10. CASE ScannerReadsMode \/ ScannerReadsRest
  <2>1. UNCHANGED <<page, up, server>> /\ ~Fresh
    BY <1>10 DEF ScannerReadsMode, ScannerReadsRest, Fresh
  <2>. QED
    BY <1>0, <1>1, <2>1 DEF OnlyScansInv
<1>11. CASE HalfSecond \/ Measure
  <2>1. UNCHANGED <<page, up, server, turn>>
    BY <1>11 DEF HalfSecond, Measure
  <2>. QED
    BY <1>0, <1>1, <2>1 DEF OnlyScansInv, Fresh
<1>12. CASE Receive
  BY <1>3, <1>4, <1>12 DEF Receive
<1>13. CASE Retune \/ OnMouseUp \/ \E t : OnMouseMove(t)
  BY <1>1, <1>13 DEF Retune, OnMouseUp, OnMouseMove
<1>14. CASE \/ Disconnect \/ OnChangeSampleRate
            \/ \E g : OnMouseDown(g) \/ \E t : OnStation(t)
  BY <1>2, <1>14
     DEF Disconnect, OnChangeSampleRate, OnMouseDown, OnStation, Elsewhere
<1>15. CASE Heartbeat \/ Overwritten \/ UNCHANGED vars
  BY <1>1, <1>4, <1>15 DEF Heartbeat, Overwritten
<1>. QED
  BY <1>5, <1>6, <1>7, <1>8, <1>9, <1>10, <1>11, <1>12, <1>13, <1>14,
     <1>15 DEF Next

-----------------------------------------------------------------------------
(* What is listed is a station.  When the scanner judges a frequency that  *)
(* is the one that was measured: the user who waits has let the receiver   *)
(* settle, and one who only scans does not tune.  Whatever is on its way   *)
(* from there to the lists was strong when the scanner passed it, and if   *)
(* it arrives under the other tab it is shown at none of its ticks.        *)

IsStation(x) == \E m \in Modes : \E t \in world.stations[m] : x = Hz(m, t)

Real(x) == x > 0 => IsStation(x)

\* What is at no tick of a mode is not shown at one of its ticks, nor is the
\* dongle where it would be for one; and AM refuses the frequency every page
\* starts with.
TicksApart ==
  \A m, n \in Modes : \A t \in Band(n) :
    Shown(m, Hz(n, t)) \in Band(m) => m = n /\ Shown(m, Hz(n, t)) = t
DonglesApart ==
  \A m, n \in Modes : \A t \in Band(n) : \A f \in Nat :
    Bounded(f) /\ f + Offset[m] = Hz(n, t) + Offset[n] => f = Hz(n, t)
GreetingFits ==
  ToFloat(Greeting) = Greeting /\ ~InBand("am", Greeting)
BandsApart == TicksApart /\ DonglesApart /\ GreetingFits

Listening == IF world.patient THEN Busy ELSE OnlyScans

MeasuredInv ==
  world.prompt /\ Listening /\ due
    => air = server.rfc /\ snr \in {NoFreq, server.rfc}

\* A command that is under way does not tune.
LEMMA CommandStays ==
  ASSUME GreetingFits, Inv, BusyInv, OnlyScansInv, Listening,
         ControllerCommand
  PROVE  server'.rfc = server.rfc
<1>. DEFINE c == Head(up)
<1>1. /\ up \in Seq(Commands) /\ up # << >> /\ server \in Servers
      /\ world.patient \in BOOLEAN /\ world.left \in Modes
  BY ConstantsAssumption
     DEF Inv, TypeOK, WireOK, ServerOK, Servers, UserOK, ControllerCommand
<1>2. c \in Commands /\ c = up[1] /\ server' = After(c, server)
  BY <1>1, HeadTailProperties DEF ControllerCommand
<1>. HIDE DEF c
<1>3. c.fc = NoFreq => server'.rfc = server.rfc
  BY <1>1, <1>2, AfterFacts DEF NoFreq
<1>4. CASE world.patient
  <2>1. server.smode = "off" /\ ~NoScan(up)
    BY <1>1, <1>4 DEF BusyInv, Listening, Busy
  <2>. QED
    BY <1>2, <1>3, <1>4, <2>1 DEF BusyInv
<1>5. CASE OnlyScans /\ c.fc = Greeting /\ c.fc # NoFreq
  <2>1. /\ Fresh /\ c.mode = "none" /\ server.mode = world.left
        /\ 1 \in DOMAIN up
    BY <1>1, <1>2, <1>5 DEF OnlyScansInv
  <2>2. CASE world.left = "am"
    <3>1. server.mode = "am"
      BY <2>1, <2>2
    <3>2. ~(c.fc > 0 /\ InBand("am", ToFloat(c.fc)))
      BY <1>5 DEF GreetingFits
    <3>. QED
      BY <1>1, <1>2, <2>1, <3>1, <3>2, AfterFacts
  <2>3. CASE world.left = "fm"
    <3>1. /\ server.mode = "fm" /\ "fm" \in Modes
          /\ server.rfc = Greeting + Offset["fm"]
      BY <2>1, <2>3 DEF Fresh, Start, Greeting, Modes
    <3>2. \/ server'.rfc = ToFloat(c.fc) + Offset["fm"]
          \/ server'.rfc = server.rfc
      BY <1>1, <1>2, <2>1, <3>1, AfterFacts
    <3>. QED
      BY <1>5, <3>1, <3>2 DEF GreetingFits
  <2>. QED
    BY <1>1, <2>2, <2>3 DEF Modes
<1>6. ~world.patient => OnlyScans /\ c.fc \in {NoFreq, Greeting}
  BY <1>1, <1>2 DEF Listening, OnlyScansInv
<1>. QED
  BY <1>1, <1>3, <1>4, <1>5, <1>6

LEMMA MeasuredInit == Init => MeasuredInv
  BY DEF Init, MeasuredInv

LEMMA MeasuredNext ==
  ASSUME GreetingFits, Inv, BusyInv, OnlyScansInv, MeasuredInv, [Next]_vars
  PROVE  MeasuredInv'
<1>. SUFFICES ASSUME world'.prompt, Listening', due'
              PROVE  air' = server'.rfc /\ snr' \in {NoFreq, server'.rfc}
  BY DEF MeasuredInv
<1>. USE DEF page, receiver, user, vars
<1>0. /\ world' = world /\ server \in Servers /\ turn \in Turns
      /\ world.patient \in BOOLEAN /\ due \in BOOLEAN
  BY WorldStays, ConstantsAssumption
     DEF Inv, TypeOK, ServerOK, Servers, TurnOK, Turns, UserOK
<1>1. CASE ~Listening
  <2>1. world.patient /\ ~Busy /\ Busy'
    BY <1>0, <1>1 DEF Listening, OnlyScans
  <2>2. PICK s \in {"on", "up", "down"} : OnScan(s)
    BY <2>1, BusyStarts
  <2>3. Settled /\ UNCHANGED receiver
    BY <2>1, <2>2 DEF OnScan, Elsewhere, Gesture
  <2>. QED
    BY <2>3 DEF Settled
<1>2. CASE Listening
  <2>0. due => air = server.rfc /\ snr \in {NoFreq, server.rfc}
    BY <1>0, <1>2 DEF MeasuredInv
  <2>1. ASSUME UNCHANGED <<server, due, air, snr>>
        PROVE  air' = server'.rfc /\ snr' \in {NoFreq, server'.rfc}
    BY <2>0, <2>1
  <2>2. CASE ControllerCommand
    <3>1. server'.rfc = server.rfc
      BY <1>2, <2>2, CommandStays
    <3>. QED
      BY <2>0, <2>2, <3>1 DEF ControllerCommand
  <2>3. CASE ScannerWrites
    <3>1. due /\ ~Judges(turn) /\ server' = Step(turn, server)
          /\ UNCHANGED <<air, snr>>
      BY <2>3 DEF ScannerWrites
    <3>2. server'.rfc = server.rfc
      BY <1>0, <3>1, StepIs, ServerIs
    <3>. QED
      BY <2>0, <3>1, <3>2
  <2>4. CASE HalfSecond
    BY <1>0, <2>4 DEF HalfSecond
  <2>5. CASE Measure
    BY <2>0, <2>5 DEF Measure
  <2>6. CASE ScannerReadsMode \/ ScannerReadsRest
    BY <2>1, <2>6 DEF ScannerReadsMode, ScannerReadsRest
  <2>. QED
    BY <2>1, <2>2, <2>3, <2>4, <2>5, <2>6 DEF Next, Connect, Disconnect,
       OnClick, OnMouseDown, OnMouseMove, OnMouseUp, OnStation, OnScan,
       OnChangeSampleRate, Retune, Receive, Heartbeat, Overwritten
<1>. QED
  BY <1>1, <1>2

\* What the scanner is about to put down as found is a station.
HeardInv ==
  /\ world.prompt /\ Heeds
  /\ turn.at = "rest" /\ Judges(turn) /\ turn.strong
  => IsStation(turn.fc)

LEMMA HeardNext ==
  ASSUME DonglesApart, Inv, TurnInv, TunedInv, MeasuredInv, HeardInv,
         [Next]_vars
  PROVE  HeardInv'
<1>. USE DEF page, receiver, user, vars
<1>0. world' = world /\ server \in Servers /\ turn \in Turns
      /\ world \in Worlds
  BY WorldStays DEF Inv, TypeOK, ServerOK, Servers, TurnOK, Turns, UserOK
<1>1. ASSUME turn' = turn PROVE HeardInv'
  BY <1>0, <1>1 DEF HeardInv, Heeds, Judges, IsStation
<1>2. CASE ScannerReadsRest
  <2>1. turn'.fc = server.fc /\ turn'.due = turn.due /\ turn.at = "mode"
        /\ turn'.strong = Strong
    BY <1>0, <1>2 DEF ScannerReadsRest, Turns
  <2>. SUFFICES ASSUME world.prompt, Heeds, Strong, turn.due
                PROVE  IsStation(server.fc)
    BY <1>0, <2>1 DEF HeardInv, Heeds, Judges, IsStation
  <2>2. due /\ (world.patient => server.smode # "off")
    BY <2>1 DEF TurnInv
  <2>3. Listening
    BY <2>2 DEF Listening, Heeds, Busy, OnlyScans
  <2>4. snr \in {NoFreq, server.rfc}
    BY <2>2, <2>3 DEF MeasuredInv
  <2>5. PICK n \in Modes : \E t \in world.stations[n] :
               snr = Hz(n, t) + Offset[n]
    BY DEF Strong
  <2>6. PICK t \in world.stations[n] : snr = Hz(n, t) + Offset[n]
    BY <2>5
  <2>7. t \in Band(n)
    BY <1>0, ConstantsAssumption
  <2>8. Hz(n, t) \in Nat /\ Offset[n] \in Nat
    BY <2>7, TickAccepted, BandFacts
  <2>9. server.rfc = Hz(n, t) + Offset[n]
    BY <2>4, <2>6, <2>8 DEF NoFreq
  <2>10. PICK m \in Modes : server.rfc = server.fc + Offset[m]
    BY DEF TunedInv
  <2>11. server.fc \in Nat /\ Bounded(server.fc)
    BY <1>0 DEF TunedInv, Servers
  <2>12. server.fc = Hz(n, t)
    BY <2>7, <2>9, <2>10, <2>11 DEF DonglesApart
  <2>. QED
    BY <2>12 DEF IsStation
<1>3. CASE ScannerReadsMode
  BY <1>3 DEF ScannerReadsMode, NoTurn, HeardInv
<1>4. CASE ScannerWrites
  BY <1>4 DEF ScannerWrites, NoTurn, HeardInv
<1>. QED
  BY <1>1, <1>2, <1>3, <1>4 DEF Next, Connect, Disconnect,
     OnClick, OnMouseDown, OnMouseMove, OnMouseUp, OnStation, OnScan,
     OnChangeSampleRate, Retune, Receive, Heartbeat, Overwritten,
     ControllerCommand, HalfSecond, Measure

ListsReal == \A m \in Modes : \A s \in stations[m] : IsStation(s)

AllReal ==
  /\ Real(server.last) /\ Real(hb.last)
  /\ \A i \in DOMAIN down : Real(down[i].last)
  /\ ListsReal

FoundInv == world.prompt /\ Heeds => AllReal

LEMMA RenderLists ==
  ASSUME NEW t \in Tabs, NEW h \in Heartbeats, NEW f, RenderedOK,
         Render(t, h, f), Real(h.last), ListsReal, world' = world
  PROVE  hb' = h /\ ListsReal'
<1>1. hb' = h
  BY DEF Render
<1>2. CASE stations' = stations
  BY <1>1, <1>2 DEF ListsReal, IsStation
<1>3. CASE Recording(h) /\ Renders(t, h)
  <2>1. t \in Modes /\ h.last > 0
    BY <1>3 DEF Recording, Renders, Tabs
  <2>2. stations' = [stations EXCEPT ![t] = @ \cup {h.last}]
    BY <1>3 DEF Render, Recorded
  <2>3. IsStation(h.last)
    BY <2>1 DEF Real
  <2>4. \A m \in Modes : stations'[m] \subseteq stations[m] \cup {h.last}
    BY <2>1, <2>2 DEF RenderedOK
  <2>5. \A m \in Modes : \A s \in stations'[m] : IsStation(s)
    BY <2>3, <2>4 DEF ListsReal
  <2>. QED
    BY <1>1, <2>5 DEF ListsReal, IsStation
<1>. QED
  BY <1>1, <1>2, <1>3 DEF Render, Recorded

LEMMA FoundNext ==
  ASSUME Inv, HeardInv, FoundInv, [Next]_vars
  PROVE  FoundInv'
<1>. SUFFICES ASSUME AllReal, world.prompt, Heeds PROVE AllReal'
  BY WorldStays DEF FoundInv, Heeds
<1>. USE DEF vars, page, user, receiver, Elsewhere
<1>0. /\ up \in Seq(Commands) /\ down \in Seq(Heartbeats)
      /\ hb \in Heartbeats /\ server \in Servers /\ tab \in Tabs
      /\ RenderedOK /\ turn \in Turns
  BY InvRendered
     DEF Inv, TypeOK, WireOK, ServerOK, PageOK, Servers, TurnOK, Turns
<1>1. world' = world
  BY WorldStays
<1>2. ASSUME UNCHANGED <<hb, down, server, stations>>
      PROVE  AllReal'
  BY <1>1, <1>2 DEF AllReal, Real, ListsReal, IsStation
<1>3. ASSUME NEW t \in Tabs, Render(t, hb, shown), server' = server,
             down' = down \/ down' = << >>
      PROVE  AllReal'
  <2>1. hb' = hb /\ ListsReal'
    BY <1>0, <1>1, <1>3, RenderLists DEF AllReal
  <2>2. /\ Real(server.last) /\ Real(hb.last)
        /\ \A i \in DOMAIN down' : Real(down'[i].last)
    BY <1>3 DEF AllReal
  <2>. QED
    BY <1>1, <1>3, <2>1, <2>2 DEF AllReal, Real, IsStation
<1>4. ASSUME NEW last, server'.last = last, Real(last),
             UNCHANGED <<hb, down, stations>>
      PROVE  AllReal'
  BY <1>1, <1>4 DEF AllReal, Real, ListsReal, IsStation
<1>5. CASE Connect
  BY <1>0, <1>3, <1>5 DEF Connect
<1>6. CASE Disconnect
  BY <1>0, <1>3, <1>6 DEF Disconnect
<1>7. ASSUME NEW t \in Tabs, OnClick(t) PROVE AllReal'
  BY <1>3, <1>7 DEF OnClick
<1>8. ASSUME NEW g \in Gestures, OnMouseDown(g) PROVE AllReal'
  BY <1>2, <1>8 DEF OnMouseDown
<1>9. ASSUME NEW t, OnMouseMove(t) PROVE AllReal'
  BY <1>2, <1>9 DEF OnMouseMove
<1>10. CASE OnMouseUp
  BY <1>2, <1>10 DEF OnMouseUp
<1>11. ASSUME NEW t, OnStation(t) PROVE AllReal'
  BY <1>2, <1>11 DEF OnStation
<1>12. ASSUME NEW s, OnScan(s) PROVE AllReal'
  BY <1>2, <1>12 DEF OnScan
<1>13. CASE OnChangeSampleRate
  BY <1>2, <1>13 DEF OnChangeSampleRate
<1>14. CASE Retune
  BY <1>2, <1>14 DEF Retune
<1>15. CASE Receive
  <2>1. /\ down # << >> /\ Render(tab, Head(down), shown)
        /\ down' = Tail(down) /\ server' = server
    BY <1>15 DEF Receive
  <2>2. /\ Head(down) \in Heartbeats /\ Real(Head(down).last)
        /\ \A i \in DOMAIN down' : Real(down'[i].last)
    BY <1>0, <2>1 DEF AllReal
  <2>3. hb' = Head(down) /\ ListsReal'
    BY <1>0, <1>1, <2>1, <2>2, RenderLists DEF AllReal
  <2>. QED
    BY <1>1, <2>1, <2>2, <2>3 DEF AllReal, Real, IsStation
<1>16. CASE Heartbeat
  <2>1. down' = <<Header>> /\ UNCHANGED <<hb, stations, server>>
    BY <1>16 DEF Heartbeat
  <2>2. Header.last = server.last
    BY DEF Header, HeaderOf
  <2>. QED
    BY <1>1, <2>1, <2>2 DEF AllReal, Real, ListsReal, IsStation
<1>17. CASE Overwritten
  <2>1. /\ \A i \in DOMAIN down' : Real(down'[i].last)
        /\ UNCHANGED <<hb, stations, server>>
    BY <1>0, <1>17 DEF Overwritten, AllReal
  <2>. QED
    BY <1>1, <2>1 DEF AllReal, Real, ListsReal, IsStation
<1>18. CASE ControllerCommand
  <2>1. Head(up) \in Commands
    BY <1>0, <1>18, HeadTailProperties DEF ControllerCommand
  <2>2. server'.last \in {server.last, NoFreq}
    BY <1>0, <1>18, <2>1, AfterFacts DEF ControllerCommand
  <2>3. Real(server.last) /\ Real(NoFreq)
    BY DEF AllReal, Real, NoFreq
  <2>. QED
    BY <1>4, <1>18, <2>2, <2>3 DEF ControllerCommand
<1>19. CASE ScannerWrites
  <2>1. \/ server'.last = server.last
        \/ Judges(turn) /\ turn.strong /\ server'.last = turn.fc
    BY <1>0, <1>19, StepFacts DEF ScannerWrites, Stepped
  <2>2. Judges(turn) /\ turn.strong => Real(turn.fc)
    BY <1>19 DEF ScannerWrites, HeardInv, Real
  <2>3. Real(server.last)
    BY DEF AllReal
  <2>. QED
    BY <1>4, <1>19, <2>1, <2>2, <2>3 DEF ScannerWrites
<1>20. CASE UNCHANGED <<page, up, down, server, user>>
  BY <1>2, <1>20
<1>. QED
  BY <1>5, <1>6, <1>7, <1>8, <1>9, <1>10, <1>11, <1>12, <1>13, <1>14, <1>15,
     <1>16, <1>17, <1>18, <1>19, <1>20, AsideKeeps DEF Next

\* A station on a list is one of the band it is listed for, however late it
\* is recorded and whatever tab is open then (modulations.jsx:44,
\* frequency-tuner.jsx:72), although the scanner judges by what was measured
\* last (scanner.c:80): for a user who waits, or who does not tune.
THEOREM StationsAreReal == BandsApart => (Spec => []ListedIsStation)
<1>. SUFFICES ASSUME BandsApart PROVE Spec => []ListedIsStation
  OBVIOUS
<1>1. Init => FoundInv /\ HeardInv
  BY DEF Init, Start, NoFreq, FoundInv, AllReal, Real, ListsReal, HeardInv,
         NoTurn
<1>2. Inv /\ FoundInv => ListedIsStation
  <2>. SUFFICES ASSUME Inv, AllReal, NEW m \in Modes, NEW s \in stations[m],
                       Shown(m, s) \in Band(m)
                PROVE  Shown(m, s) \in world.stations[m]
    BY DEF ListedIsStation, Listed, FoundInv
  <2>1. PICK n \in Modes : \E t \in world.stations[n] : s = Hz(n, t)
    BY DEF AllReal, ListsReal, IsStation
  <2>2. PICK t \in world.stations[n] : s = Hz(n, t)
    BY <2>1
  <2>3. t \in Band(n)
    BY ConstantsAssumption DEF Inv, TypeOK, UserOK
  <2>. QED
    BY <2>2, <2>3 DEF BandsApart, TicksApart
<1>3. Inv /\ HeardInv /\ FoundInv /\ [Next]_vars => FoundInv'
  BY FoundNext
<1>4. /\ Inv /\ TurnInv /\ TunedInv /\ MeasuredInv /\ HeardInv
      /\ [Next]_vars
      => HeardInv'
  BY HeardNext DEF BandsApart
<1>5. /\ Inv /\ BusyInv /\ OnlyScansInv /\ MeasuredInv /\ [Next]_vars
      => MeasuredInv'
  BY MeasuredNext DEF BandsApart
<1>6. Init => /\ BusyInv /\ TurnInv /\ TunedInv /\ OnlyScansInv
              /\ MeasuredInv /\ SettingsInv
  BY BusyInit, TurnInit, TunedInit, OnlyScansInit, MeasuredInit
     DEF Init, SettingsInv
<1>. QED
  BY <1>1, <1>2, <1>3, <1>4, <1>5, <1>6, BusyNext, TurnNext, TunedNext,
     OnlyScansNext, SettingsNext, InvHolds, PTL DEF Spec

-----------------------------------------------------------------------------
(* The mode follows the tab, whoever uses it: the last command on its way  *)
(* that sets a mode sets that of the tab, or the server is in it already.  *)

LastMode(q, s, m) ==
  \E p \in 0 .. Len(q) :
    /\ p = 0 => s.mode = m
    /\ p # 0 => q[p].mode = m
    /\ \A j \in 1 .. Len(q) : j > p => q[j].mode \in {"none", m}

ModeInv == Ours /\ view \in Modes => LastMode(up, server, view)

LEMMA LastModeAfter ==
  ASSUME NEW q \in Seq(Commands), q # << >>, NEW s \in Servers,
         NEW m \in Modes, LastMode(q, s, m)
  PROVE  LastMode(Tail(q), After(Head(q), s), m)
<1>. DEFINE c == q[1]
            r == Tail(q)
            z == After(c, s)
<1>1. /\ Head(q) = c /\ c \in Commands /\ r \in Seq(Commands)
      /\ Len(q) \in Nat \ {0} /\ Len(r) = Len(q) - 1
      /\ \A i \in 1 .. Len(r) : r[i] = q[i + 1]
  BY HeadTailProperties, EmptySeq, LenProperties
<1>2. z.mode = IF c.mode # "none" THEN c.mode ELSE s.mode
  BY <1>1, AfterFacts
<1>3. PICK p \in 0 .. Len(q) :
        /\ p = 0 => s.mode = m
        /\ p # 0 => q[p].mode = m
        /\ \A j \in 1 .. Len(q) : j > p => q[j].mode \in {"none", m}
  BY DEF LastMode
<1>4. p <= 1 => z.mode = m
  <2>1. CASE p = 0
    BY <1>1, <1>2, <1>3, <2>1
  <2>2. CASE p = 1
    BY <1>1, <1>2, <1>3, <2>2 DEF Modes
  <2>. QED
    BY <1>3, <2>1, <2>2
<1>. HIDE DEF c, r, z
<1>. DEFINE o == IF p <= 1 THEN 0 ELSE p - 1
<1>5. o \in 0 .. Len(r) /\ (o = 0 => z.mode = m)
  BY <1>1, <1>3, <1>4
<1>6. o # 0 => r[o].mode = m
  BY <1>1, <1>3
<1>7. \A j \in 1 .. Len(r) : j > o => r[j].mode \in {"none", m}
  BY <1>1, <1>3
<1>. HIDE DEF o
<1>8. LastMode(r, z, m)
  BY <1>5, <1>6, <1>7 DEF LastMode
<1>. QED
  BY <1>1, <1>8 DEF r, z

LEMMA ConcatIs ==
  ASSUME NEW a \in Seq(Commands), NEW b \in Seq(Commands)
  PROVE  /\ a \o b \in Seq(Commands) /\ Len(a \o b) = Len(a) + Len(b)
         /\ Len(a) \in Nat /\ Len(b) \in Nat
         /\ \A i \in 1 .. Len(a) : (a \o b)[i] = a[i]
         /\ \A i \in 1 .. Len(a \o b) :
              i > Len(a) => (a \o b)[i] = b[i - Len(a)]
BY ConcatProperties, LenProperties

\* Commands that set no mode, or this one, are added.
Stay(b, m) ==
  b \in Seq(Commands) /\ \A i \in 1 .. Len(b) : b[i].mode \in {"none", m}

LEMMA StayAdded ==
  ASSUME NEW q \in Seq(Commands), NEW s, NEW m, LastMode(q, s, m),
         NEW b, Stay(b, m)
  PROVE  LastMode(q \o b, s, m)
<1>. DEFINE r == q \o b
<1>1. /\ Len(r) = Len(q) + Len(b) /\ Len(q) \in Nat /\ Len(b) \in Nat
      /\ \A i \in 1 .. Len(q) : r[i] = q[i]
      /\ \A i \in 1 .. Len(r) : i > Len(q) => r[i] = b[i - Len(q)]
  BY ConcatIs DEF Stay
<1>. HIDE DEF r
<1>2. PICK p \in 0 .. Len(q) :
        /\ p = 0 => s.mode = m
        /\ p # 0 => q[p].mode = m
        /\ \A j \in 1 .. Len(q) : j > p => q[j].mode \in {"none", m}
  BY DEF LastMode
<1>3. p \in 0 .. Len(r) /\ (p # 0 => r[p].mode = m)
  BY <1>1, <1>2
<1>4. ASSUME NEW j \in 1 .. Len(r), j > p PROVE r[j].mode \in {"none", m}
  <2>1. CASE j > Len(q)
    <3>1. j - Len(q) \in 1 .. Len(b)
      BY <1>1, <2>1
    <3>. QED
      BY <1>1, <2>1, <3>1 DEF Stay
  <2>2. CASE ~(j > Len(q))
    <3>1. j \in 1 .. Len(q) /\ r[j] = q[j]
      BY <1>1, <2>2
    <3>. QED
      BY <1>2, <1>4, <3>1
  <2>. QED
    BY <2>1, <2>2
<1>. QED
  BY <1>2, <1>3, <1>4 DEF LastMode, r

\* The mode is set.
LEMMA ModeSet ==
  ASSUME NEW q \in Seq(Commands), NEW s, NEW m \in Modes, NEW b, Stay(b, m)
  PROVE  LastMode(q \o (SetMode(m) \o b), s, m)
<1>. DEFINE c == Command(m, "none", NoFreq)
            d == <<c>> \o b
            r == q \o d
            p == Len(q) + 1
<1>1. c \in Commands /\ c.mode = m
  BY DEF Command, Commands, NoFreq
<1>. HIDE DEF c
<1>2. <<c>> \in Seq(Commands) /\ Len(<<c>>) = 1 /\ <<c>>[1] = c
  BY <1>1
<1>3. /\ d \in Seq(Commands) /\ Len(d) = 1 + Len(b) /\ Len(b) \in Nat
      /\ d[1] = c /\ \A i \in 1 .. Len(d) : i > 1 => d[i] = b[i - 1]
  BY <1>2, ConcatIs DEF Stay
<1>4. \A i \in 1 .. Len(d) : d[i].mode \in {"none", m}
  <2>1. ASSUME NEW i \in 1 .. Len(d), i > 1 PROVE d[i].mode \in {"none", m}
    <3>1. i - 1 \in 1 .. Len(b) /\ d[i] = b[i - 1]
      BY <1>3, <2>1
    <3>. QED
      BY <3>1 DEF Stay
  <2>. QED
    BY <1>1, <1>3, <2>1
<1>. HIDE DEF d
<1>5. /\ Len(r) = Len(q) + Len(d) /\ Len(q) \in Nat
      /\ \A i \in 1 .. Len(r) : i > Len(q) => r[i] = d[i - Len(q)]
  BY <1>3, ConcatIs
<1>. HIDE DEF r
<1>6. p \in 0 .. Len(r) /\ p # 0 /\ r[p].mode = m
  <2>1. p \in 1 .. Len(r) /\ p - Len(q) = 1
    BY <1>3, <1>5
  <2>. HIDE DEF p
  <2>2. p > Len(q) => r[p] = d[p - Len(q)]
    BY <1>5, <2>1
  <2>3. p > Len(q) /\ p # 0 /\ p \in 0 .. Len(r)
    BY <1>5, <2>1 DEF p
  <2>4. r[p] = d[1]
    BY <2>1, <2>2, <2>3
  <2>. QED
    BY <1>1, <1>3, <2>3, <2>4
<1>7. ASSUME NEW j \in 1 .. Len(r), j > p PROVE r[j].mode \in {"none", m}
  <2>1. j - Len(q) \in 1 .. Len(d) /\ r[j] = d[j - Len(q)]
    BY <1>5, <1>7
  <2>. QED
    BY <1>4, <2>1
<1>. HIDE DEF p
<1>8. LastMode(r, s, m)
  BY <1>6, <1>7 DEF LastMode
<1>. QED
  BY <1>8 DEF r, d, c, SetMode

\* What is sent but for a click on a tab.
LEMMA StayFacts ==
  ASSUME NEW m
  PROVE  /\ \A f \in Int : Stay(SetCenterFreq(f), m)
         /\ \A s \in {"on", "up", "down"} : Stay(SetScan(s), m)
         /\ \A t \in Tabs : Stay(Mounts(t), m)
<1>1. ASSUME NEW c \in Commands, c.mode = "none" PROVE Stay(<<c>>, m)
  <2>1. <<c>> \in Seq(Commands) /\ \A i \in 1 .. Len(<<c>>) : <<c>>[i] = c
    OBVIOUS
  <2>. QED
    BY <1>1, <2>1 DEF Stay
<1>2. Stay(<< >>, m)
  BY DEF Stay
<1>3. ASSUME NEW f \in Int PROVE Stay(SetCenterFreq(f), m)
  <2>1. /\ Command("none", "none", f) \in Commands
        /\ Command("none", "none", f).mode = "none"
    BY DEF Command, Commands
  <2>. QED
    BY <1>1, <1>2, <2>1 DEF SetCenterFreq
<1>4. ASSUME NEW s \in {"on", "up", "down"} PROVE Stay(SetScan(s), m)
  <2>1. /\ Command("none", s, NoFreq) \in Commands
        /\ Command("none", s, NoFreq).mode = "none"
    BY DEF Command, Commands, NoFreq
  <2>. QED
    BY <1>1, <2>1 DEF SetScan
<1>5. ASSUME NEW t \in Tabs PROVE Stay(Mounts(t), m)
  <2>1. t \in Modes => Hz(t, Default[t]) \in Int
    BY BandFacts, HzFacts
  <2>. QED
    BY <1>2, <1>3, <2>1 DEF Mounts
<1>. QED
  BY <1>3, <1>4, <1>5

LEMMA ModeInit == Init => ModeInv
<1>. SUFFICES ASSUME Init, Ours PROVE LastMode(up, server, view)
  BY DEF ModeInv
<1>1. up = << >> /\ view = "fm" /\ server.mode = "fm"
  BY DEF Init, Ours, Start
<1>2. 0 \in 0 .. Len(up) /\ \A j \in 1 .. Len(up) : FALSE
  BY <1>1
<1>. QED
  BY <1>1, <1>2 DEF LastMode

LEMMA ModeNext == Inv /\ ModeInv /\ [Next]_vars => ModeInv'
<1>. SUFFICES ASSUME Inv, ModeInv, [Next]_vars PROVE ModeInv'
  OBVIOUS
<1>. USE DEF page, receiver, user, vars, Elsewhere
<1>0. /\ up \in Seq(Commands) /\ server \in Servers /\ turn \in Turns
      /\ view \in Tabs /\ tab \in Tabs /\ (tab \in Modes => view = tab)
      /\ seen.fc \in Int /\ retune \in Int /\ targetFreq \in Nat
      /\ world' = world /\ opened \in BOOLEAN
  BY WorldStays DEF Inv, TypeOK, WireOK, ServerOK, Servers, TurnOK, Turns,
     PageOK, Heartbeats, UserOK
<1>1. ASSUME opened' = opened, UNCHANGED server, view' \in {view, tab},
             NEW b, \A m : Stay(b, m), up' = up \o b \/ up' = up
      PROVE  ModeInv'
  BY <1>0, <1>1, StayAdded DEF ModeInv, Ours, Modes
<1>2. ASSUME UNCHANGED <<up, server, opened>>, view' \in {view, tab}
      PROVE  ModeInv'
  BY <1>0, <1>2 DEF ModeInv, Ours, Modes
<1>3. \A f \in Int : \A m : Stay(SetCenterFreq(f), m)
  BY StayFacts
<1>4. \A t \in Nat : \A m \in Modes : Hz(m, t) \in Int
  BY HzFacts
<1>5. CASE Connect
  <2>1. /\ opened' = opened /\ UNCHANGED server /\ view' = tab
        /\ up' = up \o SetCenterFreq(Hz("fm", Default["fm"]))
    BY <1>5 DEF Connect, Render
  <2>2. Hz("fm", Default["fm"]) \in Int
    BY BandFacts, HzFacts DEF Modes
  <2>. QED
    BY <1>1, <1>3, <2>1, <2>2
<1>6. CASE Disconnect
  BY <1>2, <1>6 DEF Disconnect, Render
<1>7. ASSUME NEW t \in Tabs, OnClick(t) PROVE ModeInv'
  <2>1. CASE t \in Modes
    <3>1. /\ view' = t /\ UNCHANGED server
          /\ up' = up \o (SetMode(t) \o Mounts(t))
      BY <1>7, <2>1 DEF OnClick, Render, Renders, Send, Modes
    <3>2. LastMode(up', server', t)
      BY <1>0, <2>1, <3>1, ModeSet, StayFacts
    <3>. QED
      BY <3>1, <3>2 DEF ModeInv
  <2>2. CASE t \notin Modes
    <3>1. up' = up \/ up' = up \o << >>
      BY <1>7, <2>2 DEF OnClick, Send
    <3>2. UNCHANGED server /\ view' \in {view, t}
      BY <1>7 DEF OnClick, Render
    <3>3. opened' <=> opened
      BY Zenon, <1>7, <2>2 DEF OnClick
    <3>4. up' = up
      BY <1>0, <3>1
    <3>. QED
      BY <1>0, <2>2, <3>2, <3>3, <3>4 DEF ModeInv, Ours
  <2>. QED
    BY <2>1, <2>2
<1>8. CASE OnMouseUp
  <2>1. view \in Modes
    BY <1>8 DEF OnMouseUp, Inv, TypeOK, PageOK
  <2>2. Hz(view, targetFreq) \in Int
    BY <1>0, <1>4, <2>1
  <2>3. /\ UNCHANGED <<server, view, opened>>
        /\ \/ up' = up \o SetCenterFreq(Hz(view, targetFreq))
           \/ up' = up
    BY <1>8 DEF OnMouseUp, Send
  <2>. QED
    BY <1>1, <1>3, <2>2, <2>3
<1>9. ASSUME NEW m \in Modes, NEW t \in Band(m), OnStation(t) PROVE ModeInv'
  <2>1. Hz(view, t) \in Int
    BY <1>4, <1>9, BandFacts DEF OnStation
  <2>2. /\ UNCHANGED <<server, view, opened>>
        /\ up' = up \o SetCenterFreq(Hz(view, t)) \/ up' = up
    BY <1>9 DEF OnStation, Send
  <2>. QED
    BY <1>1, <1>3, <2>1, <2>2
<1>10. ASSUME NEW s \in {"on", "up", "down"}, OnScan(s) PROVE ModeInv'
  <2>1. /\ UNCHANGED <<server, view, opened>>
        /\ up' = up \o SetScan(s) \/ up' = up
    BY <1>10 DEF OnScan, Send
  <2>. QED
    BY <1>1, <2>1, StayFacts
<1>11. CASE Retune
  <2>. DEFINE f == IF retune = Live THEN seen.fc ELSE retune
  <2>1. f \in Int
    BY <1>0
  <2>2. /\ UNCHANGED <<server, view, opened>>
        /\ up' = up \o SetCenterFreq(f) \/ up' = up
    BY <1>11 DEF Retune, Send
  <2>. HIDE DEF f
  <2>. QED
    BY <1>1, <1>3, <2>1, <2>2
<1>12. CASE Receive
  BY <1>2, <1>12 DEF Receive, Render
<1>13. CASE ControllerCommand
  <2>1. /\ up # << >> /\ server' = After(Head(up), server)
        /\ up' = Tail(up) /\ UNCHANGED <<view, opened>>
    BY <1>13 DEF ControllerCommand
  <2>. QED
    BY <1>0, <2>1, LastModeAfter DEF ModeInv, Ours
<1>14. CASE ScannerWrites
  <2>1. Stepped(turn, server, server') /\ UNCHANGED <<up, view, opened>>
    BY <1>0, <1>14, StepFacts DEF ScannerWrites
  <2>2. server'.mode = server.mode
    BY <2>1 DEF Stepped
  <2>. QED
    BY <1>0, <2>1, <2>2 DEF ModeInv, Ours, LastMode
<1>15. CASE UNCHANGED <<page, up, down, server, user>>
  BY <1>2, <1>15
<1>16. CASE \/ OnChangeSampleRate \/ Heartbeat \/ Overwritten
            \/ \E g : OnMouseDown(g) \/ \E t : OnMouseMove(t)
  BY <1>2, <1>16
     DEF OnChangeSampleRate, Heartbeat, Overwritten, OnMouseDown, OnMouseMove
<1>. QED
  BY <1>5, <1>6, <1>7, <1>8, <1>9, <1>10, <1>11, <1>12, <1>13, <1>14, <1>15,
     <1>16, AsideKeeps DEF Next

-----------------------------------------------------------------------------
(* Where the server lands: what the commands on their way come to.         *)

\* The server takes c to be a tick of mode m, or does not accept it.
Fits(m, c) ==
  c > 0 /\ InBand(m, ToFloat(c)) => \E t \in Band(m) : ToFloat(c) = Hz(m, t)
Known(c) == \A m \in Modes : Fits(m, c)

\* The ticks come through the float; and what either tab sends, and what the
\* dongle can be tuned to, one step of the scanner away from a tick included
\* (see OnTick), is a tick wherever it is accepted.
BandsFit ==
  /\ \A m \in Modes : \A t \in Band(m) : ToFloat(Hz(m, t)) = Hz(m, t)
  /\ \A m, n \in Modes : \A t \in Band(n) :
       /\ Known(Hz(m, t)) /\ Known(Hz(n, t) + Offset[n])
       /\ Known(Hz(n, t) + Hz(m, TickStep(m)) + Offset[m])
       /\ Known((Hz(n, t) - Hz(m, TickStep(m))) + Offset[m])

\* Server s is in mode m, at one of the ticks F.
At(s, m, F) ==
  s.mode = m /\ \E t \in F : s.fc = Hz(m, t) /\ s.rfc = Hz(m, t) + Offset[m]

\* Command c leaves it there.
Keeps(c, m, F) ==
  /\ c.mode \in {"none", m}
  /\ c.fc > 0 /\ InBand(m, ToFloat(c.fc)) =>
       \E t \in F : ToFloat(c.fc) = Hz(m, t)

\* The commands q leave it there, or one of them brings it there, in mode m
\* since an earlier one or since before.
Arrives(q, s, m, F) ==
  \E p \in 0 .. Len(q) : \E i \in 1 .. Len(q) :
    /\ p <= i
    /\ p = 0 => s.mode = m
    /\ p # 0 => q[p].mode = m
    /\ \A j \in 1 .. Len(q) : j > p => q[j].mode \in {"none", m}
    /\ \E t \in F : q[i].fc = Hz(m, t)
    /\ \A j \in 1 .. Len(q) : j > i => Keeps(q[j], m, F)

Lands(q, s, m, F) ==
  \/ At(s, m, F) /\ \A i \in 1 .. Len(q) : Keeps(q[i], m, F)
  \/ Arrives(q, s, m, F)

LEMMA CommandLands ==
  ASSUME BandsFit, NEW c \in Commands, NEW s \in Servers, NEW m \in Modes,
         NEW F, F \subseteq Band(m)
  PROVE  /\ At(s, m, F) /\ Keeps(c, m, F) => At(After(c, s), m, F)
         /\ /\ (IF c.mode # "none" THEN c.mode ELSE s.mode) = m
            /\ \E t \in F : c.fc = Hz(m, t)
            => At(After(c, s), m, F)
         /\ (IF c.mode # "none" THEN c.mode ELSE s.mode) = m
              => After(c, s).mode = m
<1>. DEFINE n == IF c.mode # "none" THEN c.mode ELSE s.mode
            fc == After(c, s).fc
            rfc == After(c, s).rfc
<1>1. /\ After(c, s).mode = n
      /\ c.fc > 0 /\ InBand(n, ToFloat(c.fc)) =>
           fc = ToFloat(c.fc) /\ rfc = ToFloat(c.fc) + Offset[n]
      /\ ~(c.fc > 0 /\ InBand(n, ToFloat(c.fc))) =>
           fc = s.fc /\ rfc = s.rfc
  BY AfterFacts
<1>. HIDE DEF fc, rfc
<1>2. ASSUME At(s, m, F), Keeps(c, m, F) PROVE At(After(c, s), m, F)
  <2>1. n = m
    BY <1>2 DEF At, Keeps
  <2>2. CASE c.fc > 0 /\ InBand(m, ToFloat(c.fc))
    BY <1>1, <1>2, <2>1, <2>2 DEF At, Keeps, fc, rfc
  <2>3. CASE ~(c.fc > 0 /\ InBand(m, ToFloat(c.fc)))
    BY <1>1, <1>2, <2>1, <2>3 DEF At, fc, rfc
  <2>. QED
    BY <2>2, <2>3
<1>3. ASSUME n = m, NEW t \in F, c.fc = Hz(m, t)
      PROVE  At(After(c, s), m, F)
  <2>1. t \in Band(m) /\ c.fc > 0
    BY <1>3, TickAccepted
  <2>2. ToFloat(c.fc) = c.fc
    BY <1>3, <2>1 DEF BandsFit
  <2>3. InBand(m, ToFloat(c.fc))
    BY <1>3, <2>1, <2>2, TickAccepted
  <2>. QED
    BY <1>1, <1>3, <2>1, <2>2, <2>3 DEF At, fc, rfc
<1>. QED
  BY <1>1, <1>2, <1>3

\* The first of the commands is carried out.
LEMMA LandsAfter ==
  ASSUME BandsFit, NEW q \in Seq(Commands), q # << >>, NEW s \in Servers,
         NEW m \in Modes, NEW F, F \subseteq Band(m), Lands(q, s, m, F)
  PROVE  Lands(Tail(q), After(Head(q), s), m, F)
<1>. DEFINE c == q[1]
            r == Tail(q)
            z == After(c, s)
<1>1. /\ Head(q) = c /\ c \in Commands /\ r \in Seq(Commands)
      /\ Len(q) \in Nat \ {0} /\ Len(r) = Len(q) - 1
      /\ \A i \in 1 .. Len(r) : r[i] = q[i + 1]
  BY HeadTailProperties, EmptySeq, LenProperties
<1>. SUFFICES Lands(r, z, m, F)
  BY <1>1
<1>. HIDE DEF c, r, z
<1>2. ASSUME At(z, m, F), \A i \in 2 .. Len(q) : Keeps(q[i], m, F)
      PROVE  Lands(r, z, m, F)
  <2>1. \A i \in 1 .. Len(r) : Keeps(r[i], m, F)
    BY <1>1, <1>2
  <2>. QED
    BY <1>2, <2>1 DEF Lands
<1>3. CASE At(s, m, F) /\ \A i \in 1 .. Len(q) : Keeps(q[i], m, F)
  <2>1. Keeps(c, m, F)
    BY <1>1, <1>3 DEF c
  <2>2. At(z, m, F)
    BY <1>1, <1>3, <2>1, CommandLands DEF z
  <2>. QED
    BY <1>1, <1>2, <1>3, <2>2
<1>4. CASE Arrives(q, s, m, F)
  <2>1. PICK p \in 0 .. Len(q), i \in 1 .. Len(q) :
          /\ p <= i
          /\ p = 0 => s.mode = m
          /\ p # 0 => q[p].mode = m
          /\ \A j \in 1 .. Len(q) : j > p => q[j].mode \in {"none", m}
          /\ \E t \in F : q[i].fc = Hz(m, t)
          /\ \A j \in 1 .. Len(q) : j > i => Keeps(q[j], m, F)
    BY <1>4 DEF Arrives
  <2>2. ASSUME p <= 1
        PROVE  (IF c.mode # "none" THEN c.mode ELSE s.mode) = m
    <3>1. CASE p = 0
      BY <1>1, <2>1, <3>1 DEF c
    <3>2. CASE p = 1
      BY <1>1, <2>1, <3>2 DEF c, Modes
    <3>. QED
      BY <2>2, <3>1, <3>2
  <2>3. CASE i = 1
    <3>1. At(z, m, F)
      BY <1>1, <2>1, <2>2, <2>3, CommandLands DEF c, z
    <3>. QED
      BY <1>1, <1>2, <2>1, <2>3, <3>1
  <2>4. CASE i # 1
    <3>. DEFINE o == IF p <= 1 THEN 0 ELSE p - 1
                k == i - 1
    <3>1. o \in 0 .. Len(r) /\ k \in 1 .. Len(r) /\ o <= k
      BY <1>1, <2>1, <2>4
    <3>2. o = 0 => z.mode = m
      BY <1>1, <2>1, <2>2, CommandLands DEF z
    <3>3. o # 0 => r[o].mode = m
      BY <1>1, <2>1
    <3>4. \A j \in 1 .. Len(r) : j > o => r[j].mode \in {"none", m}
      BY <1>1, <2>1
    <3>5. r[k] = q[i]
      BY <1>1, <2>1, <3>1
    <3>6. \A j \in 1 .. Len(r) : j > k => Keeps(r[j], m, F)
      BY <1>1, <2>1
    <3>. HIDE DEF o, k
    <3>7. \E t \in F : r[k].fc = Hz(m, t)
      BY <2>1, <3>5
    <3>. QED
      BY <3>1, <3>2, <3>3, <3>4, <3>6, <3>7 DEF Lands, Arrives
  <2>. QED
    BY <2>3, <2>4
<1>. QED
  BY <1>3, <1>4 DEF Lands

\* When they have all been carried out the server is there.
LEMMA LandsEmpty ==
  ASSUME NEW s, NEW m, NEW F, Lands(<< >>, s, m, F)
  PROVE  At(s, m, F)
BY DEF Lands, Arrives

\* Commands that leave it there are added.
LEMMA LandsKeeps ==
  ASSUME NEW q \in Seq(Commands), NEW s, NEW m, NEW F, Lands(q, s, m, F),
         NEW b \in Seq(Commands), \A i \in 1 .. Len(b) : Keeps(b[i], m, F)
  PROVE  Lands(q \o b, s, m, F)
<1>. DEFINE r == q \o b
<1>1. /\ r \in Seq(Commands) /\ Len(r) = Len(q) + Len(b)
      /\ Len(q) \in Nat /\ Len(b) \in Nat
      /\ \A i \in 1 .. Len(q) : r[i] = q[i]
      /\ \A i \in 1 .. Len(r) : i > Len(q) => r[i] = b[i - Len(q)]
  BY ConcatIs
<1>. HIDE DEF r
<1>2. \A i \in 1 .. Len(r) : i > Len(q) => Keeps(r[i], m, F)
  BY <1>1
<1>3. \A i \in 1 .. Len(r) : i > Len(q) => r[i].mode \in {"none", m}
  BY <1>2 DEF Keeps
<1>4. CASE At(s, m, F) /\ \A i \in 1 .. Len(q) : Keeps(q[i], m, F)
  <2>1. \A i \in 1 .. Len(r) : Keeps(r[i], m, F)
    BY <1>1, <1>2, <1>4
  <2>. QED
    BY <1>4, <2>1 DEF Lands, r
<1>5. CASE Arrives(q, s, m, F)
  <2>1. PICK p \in 0 .. Len(q), i \in 1 .. Len(q) :
          /\ p <= i
          /\ p = 0 => s.mode = m
          /\ p # 0 => q[p].mode = m
          /\ \A j \in 1 .. Len(q) : j > p => q[j].mode \in {"none", m}
          /\ \E t \in F : q[i].fc = Hz(m, t)
          /\ \A j \in 1 .. Len(q) : j > i => Keeps(q[j], m, F)
    BY <1>5 DEF Arrives
  <2>2. p \in 0 .. Len(r) /\ i \in 1 .. Len(r) /\ r[i] = q[i]
    BY <1>1, <2>1
  <2>3. p # 0 => r[p].mode = m
    BY <1>1, <2>1
  <2>4. \A j \in 1 .. Len(r) : j > p => r[j].mode \in {"none", m}
    <3>1. SUFFICES ASSUME NEW j \in 1 .. Len(r), j > p
                   PROVE  r[j].mode \in {"none", m}
      OBVIOUS
    <3>2. CASE j > Len(q)
      BY <1>3, <3>2
    <3>3. CASE ~(j > Len(q))
      <4>1. j \in 1 .. Len(q) /\ r[j] = q[j]
        BY <1>1, <3>1, <3>3
      <4>. QED
        BY <2>1, <3>1, <4>1
    <3>. QED
      BY <3>2, <3>3
  <2>5. \A j \in 1 .. Len(r) : j > i => Keeps(r[j], m, F)
    <3>1. SUFFICES ASSUME NEW j \in 1 .. Len(r), j > i
                   PROVE  Keeps(r[j], m, F)
      OBVIOUS
    <3>2. CASE j > Len(q)
      BY <1>2, <3>2
    <3>3. CASE ~(j > Len(q))
      <4>1. j \in 1 .. Len(q) /\ r[j] = q[j]
        BY <1>1, <3>1, <3>3
      <4>. QED
        BY <2>1, <3>1, <4>1
    <3>. QED
      BY <3>2, <3>3
  <2>6. \E t \in F : r[i].fc = Hz(m, t)
    BY <2>1, <2>2
  <2>. QED
    BY <2>1, <2>2, <2>3, <2>4, <2>5, <2>6 DEF Lands, Arrives, r
<1>. QED
  BY <1>4, <1>5 DEF Lands

\* A command is added that tunes to one of the ticks of the mode.
LEMMA LandsTunes ==
  ASSUME NEW q \in Seq(Commands), NEW s, NEW m, NEW F, NEW G,
         Lands(q, s, m, F), NEW c \in Commands, c.mode \in {"none", m},
         \E t \in G : c.fc = Hz(m, t)
  PROVE  Lands(q \o <<c>>, s, m, G)
<1>. DEFINE r == q \o <<c>>
            i == Len(q) + 1
<1>1. /\ r \in Seq(Commands) /\ Len(r) = i /\ Len(q) \in Nat
      /\ \A j \in 1 .. Len(q) : r[j] = q[j]
      /\ r[i] = c
  BY ConcatProperties, LenProperties
<1>2. PICK p \in 0 .. Len(q) :
        /\ p = 0 => s.mode = m
        /\ p # 0 => q[p].mode = m
        /\ \A j \in 1 .. Len(q) : j > p => q[j].mode \in {"none", m}
  <2>1. CASE At(s, m, F) /\ \A j \in 1 .. Len(q) : Keeps(q[j], m, F)
    BY <1>1, <2>1 DEF At, Keeps
  <2>2. CASE Arrives(q, s, m, F)
    BY <2>2 DEF Arrives
  <2>. QED
    BY <2>1, <2>2 DEF Lands
<1>. HIDE DEF r
<1>3. p \in 0 .. Len(r) /\ i \in 1 .. Len(r) /\ p <= i
  BY <1>1
<1>4. p # 0 => r[p].mode = m
  BY <1>1, <1>2
<1>5. \A j \in 1 .. Len(r) : j > p => r[j].mode \in {"none", m}
  BY <1>1, <1>2
<1>6. \A j \in 1 .. Len(r) : j > i => Keeps(r[j], m, G)
  BY <1>1
<1>7. \E t \in G : r[i].fc = Hz(m, t)
  BY <1>1
<1>. QED
  BY <1>2, <1>3, <1>4, <1>5, <1>6, <1>7 DEF Lands, Arrives, r

\* A tab is chosen that was not there: the mode and its default are added.
LEMMA LandsMounts ==
  ASSUME NEW q \in Seq(Commands), NEW s, NEW m \in Modes
  PROVE  Lands(q \o (SetMode(m) \o SetCenterFreq(Hz(m, Default[m]))), s, m,
               {Default[m]})
<1>. DEFINE a == Command(m, "none", NoFreq)
            b == Command("none", "none", Hz(m, Default[m]))
            d == SetMode(m) \o SetCenterFreq(Hz(m, Default[m]))
            r == q \o d
<1>1. /\ d \in Seq(Commands) /\ Len(d) = 2 /\ d[1] = a /\ d[2] = b
      /\ a.mode = m /\ b.mode = "none" /\ b.fc = Hz(m, Default[m])
  <2>1. Hz(m, Default[m]) \in Nat /\ Hz(m, Default[m]) > 0
    BY BandFacts, TickAccepted
  <2>2. d = <<a>> \o <<b>>
    BY <2>1 DEF SetCenterFreq, SetMode
  <2>3. a \in Commands /\ b \in Commands
    BY <2>1 DEF Command, Commands, NoFreq
  <2>4. a.mode = m /\ b.mode = "none" /\ b.fc = Hz(m, Default[m])
    BY DEF Command
  <2>. HIDE DEF a, b, d
  <2>5. /\ <<a>> \in Seq(Commands) /\ Len(<<a>>) = 1 /\ <<a>>[1] = a
        /\ <<b>> \in Seq(Commands) /\ Len(<<b>>) = 1 /\ <<b>>[1] = b
    BY <2>3
  <2>6. /\ d \in Seq(Commands) /\ Len(d) = 2 /\ d[1] = a /\ d[2] = b
    BY <2>2, <2>5, ConcatProperties
  <2>. QED
    BY <2>4, <2>6
<1>. HIDE DEF a, b, d
<1>2. /\ r \in Seq(Commands) /\ Len(r) = Len(q) + 2 /\ Len(q) \in Nat
      /\ r[Len(q) + 1] = a /\ r[Len(q) + 2] = b
  <2>1. /\ r \in Seq(Commands) /\ Len(r) = Len(q) + Len(d)
        /\ Len(q) \in Nat
        /\ \A i \in 1 .. Len(r) : i > Len(q) => r[i] = d[i - Len(q)]
    BY <1>1, ConcatIs
  <2>2. /\ (Len(q) + 1) - Len(q) = 1 /\ (Len(q) + 2) - Len(q) = 2
        /\ Len(q) + 1 \in 1 .. Len(r) /\ Len(q) + 1 > Len(q)
        /\ Len(q) + 2 \in 1 .. Len(r) /\ Len(q) + 2 > Len(q)
    BY <1>1, <2>1
  <2>3. r[Len(q) + 1] = d[1] /\ r[Len(q) + 2] = d[2]
    BY <2>1, <2>2
  <2>. QED
    BY <1>1, <2>1, <2>3
<1>. HIDE DEF r
<1>3. \A j \in 1 .. Len(r) :
        j > Len(q) + 1 => r[j].mode \in {"none", m} /\ ~(j > Len(q) + 2)
  BY <1>1, <1>2
<1>4. Arrives(r, s, m, {Default[m]})
  <2>. DEFINE p == Len(q) + 1
              i == Len(q) + 2
  <2>1. /\ p \in 0 .. Len(r) /\ i \in 1 .. Len(r) /\ p <= i /\ p # 0
        /\ r[p].mode = m /\ \E t \in {Default[m]} : r[i].fc = Hz(m, t)
        /\ \A j \in 1 .. Len(r) : j > p => r[j].mode \in {"none", m}
        /\ \A j \in 1 .. Len(r) : j > i => Keeps(r[j], m, {Default[m]})
    BY <1>1, <1>2, <1>3
  <2>. HIDE DEF p, i
  <2>. QED
    BY <2>1 DEF Arrives
<1>. QED
  BY <1>4 DEF Lands, r, d

-----------------------------------------------------------------------------
(* The scanner's steps from tick to tick, as long as no command comes in   *)
(* between.                                                                *)

\* From a tick of the mode to another one.
LEMMA NextIsTick ==
  ASSUME NEW t, NEW m \in Modes, t.mode = m, t.step = Hz(m, TickStep(m)),
         NEW w \in Band(m), t.fc = Hz(m, w), NEW f, IsNext(t, f)
  PROVE  \E u \in Band(m) : f = Hz(m, u)
<1>1. /\ w \in Nat /\ BandMin[m] \in Nat /\ BandMax[m] \in Nat
      /\ TickStep(m) \in Nat
  BY TickAccepted, ConstantsAssumption, HzFacts
<1>2. /\ Up(t) = Hz(m, w + TickStep(m)) /\ Down(t) = Hz(m, w - TickStep(m))
  BY SMT, <1>1 DEF Up, Down, Hz, PerHundredth
<1>3. /\ Up(t) <= Top(t) => w + TickStep(m) <= BandMax[m]
      /\ Down(t) >= Bottom(t) => w - TickStep(m) >= BandMin[m]
  BY SMT, <1>1, <1>2 DEF Top, Bottom, Hz, PerHundredth
<1>4. CASE f = Up(t) /\ f <= Top(t)
  BY <1>2, <1>3, <1>4, BandSteps
<1>5. CASE f = Down(t) /\ f >= Bottom(t)
  BY <1>2, <1>3, <1>5, BandSteps
<1>6. CASE f = Top(t) \/ f = Bottom(t)
  BY <1>6, BandEnds DEF Top, Bottom
<1>. QED
  BY <1>4, <1>5, <1>6 DEF IsNext

LEMMA StepLands ==
  ASSUME NEW q, NEW t \in Turns, NEW s \in Servers, t.at = "rest",
         Copies(t, s), NEW m \in Modes, Lands(q, s, m, Band(m))
  PROVE  Lands(q, Step(t, s), m, Band(m))
<1>. DEFINE z == Step(t, s)
<1>0. Stepped(t, s, z)
  BY StepFacts
<1>. HIDE DEF z
<1>1. CASE At(s, m, Band(m)) /\ \A i \in 1 .. Len(q) : Keeps(q[i], m, Band(m))
  <2>1. PICK w \in Band(m) : s.fc = Hz(m, w) /\ s.rfc = Hz(m, w) + Offset[m]
    BY <1>1 DEF At
  <2>2. s.mode = m /\ t.mode = m /\ t.step = Hz(m, TickStep(m))
        /\ t.fc = Hz(m, w) /\ z.mode = m
    BY <1>0, <1>1, <2>1 DEF At, Copies, Stepped
  <2>3. At(z, m, Band(m))
    <3>1. CASE z.fc = s.fc /\ z.rfc = s.rfc
      BY <2>1, <2>2, <3>1 DEF At
    <3>2. ASSUME NEW f, IsNext(t, f), z.fc = f, z.rfc = f + Offset[t.mode]
          PROVE  At(z, m, Band(m))
      BY <2>2, <3>2, NextIsTick DEF At
    <3>. QED
      BY <1>0, <3>1, <3>2 DEF Stepped
  <2>. QED
    BY <1>1, <2>3 DEF Lands, z
<1>2. CASE Arrives(q, s, m, Band(m))
  <2>1. z.mode = s.mode
    BY <1>0 DEF Stepped
  <2>2. Arrives(q, z, m, Band(m))
    BY <1>2, <2>1 DEF Arrives
  <2>. QED
    BY <2>2 DEF Lands, z
<1>. QED
  BY <1>1, <1>2 DEF Lands

\* Wherever it is on a tick it tunes the dongle to what BandsFit has.
LEMMA StepKnown ==
  ASSUME BandsFit, NEW t \in Turns, NEW s \in Servers, t.at = "rest",
         Copies(t, s), OnTick(s.fc), Known(s.rfc)
  PROVE  Known(Step(t, s).rfc)
<1>1. PICK n \in Modes : \E w \in Band(n) : s.fc = Hz(n, w)
  BY DEF OnTick
<1>2. PICK w \in Band(n) : s.fc = Hz(n, w)
  BY <1>1
<1>3. /\ s.mode \in Modes /\ t.mode = s.mode /\ t.fc = Hz(n, w)
      /\ t.step = Hz(s.mode, TickStep(s.mode))
  BY <1>2 DEF Servers, Copies
<1>4. ASSUME NEW f, IsNext(t, f) PROVE Known(f + Offset[t.mode])
  <2>1. CASE f = Up(t) \/ f = Down(t)
    <3>1. Up(t) = Hz(n, w) + Hz(s.mode, TickStep(s.mode))
          /\ Down(t) = Hz(n, w) - Hz(s.mode, TickStep(s.mode))
      BY <1>3, Zenon DEF Up, Down
    <3>2. /\ Known(Hz(n, w) + Hz(s.mode, TickStep(s.mode)) + Offset[s.mode])
          /\ Known((Hz(n, w) - Hz(s.mode, TickStep(s.mode)))
                     + Offset[s.mode])
      BY <1>2, <1>3, Zenon DEF BandsFit
    <3>3. CASE f = Up(t)
      BY <1>3, <3>1, <3>2, <3>3
    <3>4. CASE f = Down(t)
      BY <1>3, <3>1, <3>2, <3>4
    <3>. QED
      BY <2>1, <3>3, <3>4
  <2>2. CASE f = Top(t) \/ f = Bottom(t)
    BY <1>3, <2>2, BandEnds, Zenon DEF BandsFit, Top, Bottom
  <2>. QED
    BY <1>4, <2>1, <2>2 DEF IsNext
<1>. QED
  BY <1>4, StepFacts DEF Stepped

-----------------------------------------------------------------------------
(* The server follows the tab.  Every frequency that is on its way, shown, *)
(* or kept by a timer is one BandsFit knows; and what is on its way to the *)
(* server brings it to the tab that is rendered, unless a user who does    *)
(* not wait scans.                                                         *)

FreqInv ==
  /\ \A i \in 1 .. Len(up) : Known(up[i].fc)
  /\ \A i \in 1 .. Len(down) : Known(down[i].fc)
  /\ Known(server.rfc) /\ Known(hb.fc) /\ Known(seen.fc) /\ Known(retune)
  /\ targetFreq = 0 \/ \E n \in Modes : targetFreq \in Band(n)

LandsInv == Ours /\ view \in Modes => Lands(up, server, view, Band(view))

LEMMA NotKnown == \A c \in Int : c <= 0 => Known(c)
  BY DEF Known, Fits

\* A command that tunes to what is known, or not at all, leaves the server
\* at the ticks of its mode.
LEMMA KnownKeeps ==
  ASSUME NEW c \in Commands, NEW m \in Modes, c.mode \in {"none", m},
         Known(c.fc)
  PROVE  Keeps(c, m, Band(m))
BY DEF Keeps, Known, Fits

\* The commands the interface sends, but for a tab that is mounted.
LEMMA SetFacts ==
  ASSUME NEW f \in Int, NEW m \in Modes, NEW s \in {"on", "up", "down"}
  PROVE  /\ \A i \in 1 .. Len(SetCenterFreq(f)) :
              SetCenterFreq(f)[i] = Command("none", "none", f)
         /\ SetMode(m) = <<Command(m, "none", NoFreq)>>
         /\ SetScan(s) = <<Command("none", s, NoFreq)>>
         /\ f > 0 => SetCenterFreq(f) = <<Command("none", "none", f)>>
         /\ Command("none", "none", f) \in Commands
         /\ Command(m, "none", NoFreq) \in Commands
         /\ Command("none", s, NoFreq) \in Commands
<1>1. /\ SetMode(m) = <<Command(m, "none", NoFreq)>>
      /\ SetScan(s) = <<Command("none", s, NoFreq)>>
  BY Zenon DEF SetMode, SetScan
<1>2. /\ f > 0 => SetCenterFreq(f) = <<Command("none", "none", f)>>
      /\ ~(f > 0) => SetCenterFreq(f) = << >>
  BY Zenon DEF SetCenterFreq
<1>3. \A i \in 1 .. Len(SetCenterFreq(f)) :
        SetCenterFreq(f)[i] = Command("none", "none", f)
  BY <1>2
<1>4. /\ Command("none", "none", f) \in Commands
      /\ Command(m, "none", NoFreq) \in Commands
      /\ Command("none", s, NoFreq) \in Commands
  BY DEF Command, Commands, NoFreq
<1>. QED
  BY <1>1, <1>2, <1>3, <1>4

\* What is sent: all of it known, none of it away from the mode.
Tame(b, m) ==
  b \in Seq(Commands) /\ \A i \in 1 .. Len(b) :
    Known(b[i].fc) /\ b[i].mode \in {"none", m}

LEMMA TameFacts ==
  ASSUME NEW m \in Modes
  PROVE  /\ \A f \in Int : Known(f) => Tame(SetCenterFreq(f), m)
         /\ Tame(SetMode(m), m) /\ Tame(<< >>, m)
         /\ \A s \in {"on", "up", "down"} : Tame(SetScan(s), m)
<1>1. Known(NoFreq)
  BY NotKnown DEF NoFreq
<1>2. ASSUME NEW f \in Int, Known(f) PROVE Tame(SetCenterFreq(f), m)
  <2>1. SetCenterFreq(f) \in Seq(Commands)
    BY SentFacts
  <2>2. Command("none", "none", f).fc = f
        /\ Command("none", "none", f).mode = "none"
    BY DEF Command
  <2>. QED
    BY <1>2, <2>1, <2>2, SetFacts DEF Tame
<1>3. ASSUME NEW c \in Commands, c.fc = NoFreq, c.mode \in {"none", m}
      PROVE  Tame(<<c>>, m)
  <2>1. <<c>> \in Seq(Commands) /\ \A i \in 1 .. Len(<<c>>) : <<c>>[i] = c
    OBVIOUS
  <2>. QED
    BY <1>1, <1>3, <2>1 DEF Tame
<1>4. /\ Command(m, "none", NoFreq).fc = NoFreq
      /\ Command(m, "none", NoFreq).mode = m
      /\ \A s : /\ Command("none", s, NoFreq).fc = NoFreq
                /\ Command("none", s, NoFreq).mode = "none"
  BY DEF Command
<1>5. Tame(SetMode(m), m)
  BY <1>3, <1>4, SetFacts
<1>6. \A s \in {"on", "up", "down"} : Tame(SetScan(s), m)
  BY <1>3, <1>4, SetFacts
<1>7. Tame(<< >>, m)
  BY DEF Tame
<1>. QED
  BY <1>2, <1>5, <1>6, <1>7

LEMMA TameLands ==
  ASSUME up \in Seq(Commands), NEW m \in Modes, NEW b, Tame(b, m)
  PROVE  /\ up \o b \in Seq(Commands)
         /\ (\A i \in 1 .. Len(up) : Known(up[i].fc)) =>
              \A i \in 1 .. Len(up \o b) : Known((up \o b)[i].fc)
         /\ Lands(up, server, m, Band(m)) =>
              Lands(up \o b, server, m, Band(m))
<1>1. b \in Seq(Commands)
  BY DEF Tame
<1>2. up \o b \in Seq(Commands)
  BY <1>1, ConcatIs
<1>3. ASSUME \A i \in 1 .. Len(up) : Known(up[i].fc),
             NEW i \in 1 .. Len(up \o b)
      PROVE  Known((up \o b)[i].fc)
  <2>1. CASE i > Len(up)
    BY <1>1, <1>3, <2>1, ConcatIs DEF Tame
  <2>2. CASE ~(i > Len(up))
    <3>1. i \in 1 .. Len(up) /\ (up \o b)[i] = up[i]
      BY <1>1, <2>2, ConcatIs
    <3>. QED
      BY <1>3, <3>1
  <2>. QED
    BY <2>1, <2>2
<1>4. \A i \in 1 .. Len(b) : Keeps(b[i], m, Band(m))
  BY <1>1, KnownKeeps DEF Tame
<1>. QED
  BY <1>1, <1>2, <1>3, <1>4, LandsKeeps

LEMMA LandsMore ==
  ASSUME NEW q, NEW s, NEW m, NEW F, NEW G, F \subseteq G, Lands(q, s, m, F)
  PROVE  Lands(q, s, m, G)
<1>1. \A c : Keeps(c, m, F) => Keeps(c, m, G)
  BY DEF Keeps
<1>2. CASE At(s, m, F) /\ \A i \in 1 .. Len(q) : Keeps(q[i], m, F)
  BY <1>1, <1>2 DEF Lands, At
<1>3. CASE Arrives(q, s, m, F)
  BY <1>1, <1>3 DEF Lands, Arrives
<1>. QED
  BY <1>2, <1>3 DEF Lands

LEMMA TameConcat ==
  ASSUME NEW m, NEW a, NEW b, Tame(a, m), Tame(b, m)
  PROVE  Tame(a \o b, m)
<1>1. a \in Seq(Commands) /\ b \in Seq(Commands)
  BY DEF Tame
<1>2. SUFFICES ASSUME NEW i \in 1 .. Len(a \o b)
               PROVE  /\ Known((a \o b)[i].fc)
                      /\ (a \o b)[i].mode \in {"none", m}
  BY <1>1, ConcatIs DEF Tame
<1>3. CASE i > Len(a)
  BY <1>1, <1>3, ConcatIs DEF Tame
<1>4. CASE ~(i > Len(a))
  <2>1. i \in 1 .. Len(a) /\ (a \o b)[i] = a[i]
    BY <1>1, <1>4, ConcatIs
  <2>. QED
    BY <2>1 DEF Tame
<1>. QED
  BY <1>3, <1>4

\* What is sent when tab t is chosen.
LEMMA ClickSends ==
  ASSUME BandsFit, NEW t \in Modes
  PROVE  /\ Tame(SetMode(t) \o Mounts(t), t)
         /\ t # view => \A q \in Seq(Commands) : \A s :
              Lands(q \o (SetMode(t) \o Mounts(t)), s, t, Band(t))
<1>1. CASE t = view
  <2>1. Mounts(t) = << >>
    BY <1>1 DEF Mounts
  <2>. QED
    BY <1>1, <2>1, TameFacts, TameConcat
<1>2. CASE t # view
  <2>1. Mounts(t) = SetCenterFreq(Hz(t, Default[t]))
    BY <1>2 DEF Mounts
  <2>2. Default[t] \in Band(t) /\ Hz(t, Default[t]) \in Int
    BY BandFacts, HzFacts
  <2>3. Known(Hz(t, Default[t]))
    BY <2>2 DEF BandsFit
  <2>4. Tame(SetMode(t) \o Mounts(t), t)
    BY <2>1, <2>2, <2>3, TameFacts, TameConcat
  <2>5. {Default[t]} \subseteq Band(t)
    BY <2>2
  <2>. QED
    BY <1>2, <2>1, <2>4, <2>5, LandsMounts, LandsMore
<1>. QED
  BY <1>1, <1>2

\* The heartbeats of the page, and the timer that keeps one.
LEMMA RenderKnows ==
  ASSUME NEW t, NEW h, NEW f, Render(t, h, f), Known(h.fc), Known(hb.fc),
         Known(seen.fc), Known(retune)
  PROVE  Known(hb'.fc) /\ Known(seen'.fc) /\ Known(retune')
BY DEF Render

Follows == FreqInv /\ LandsInv
FollowInv == Calm => Follows

LEMMA FollowNext ==
  ASSUME BandsFit, Inv, IdleInv, TurnInv, FollowInv, [Next]_vars
  PROVE  FollowInv'
<1>. SUFFICES ASSUME Calm, Follows PROVE Follows'
  BY WorldStays DEF FollowInv, Calm
<1>. USE DEF vars, page, user, receiver, Elsewhere
<1>0. /\ up \in Seq(Commands) /\ down \in Seq(Heartbeats)
      /\ server \in Servers /\ view \in Tabs
      /\ tab \in Modes => view = tab
      /\ dragging # "no" => view \in Modes
      /\ seen.fc \in Int /\ retune \in Int
      /\ turn \in Turns /\ world' = world
  BY WorldStays DEF Inv, TypeOK, WireOK, ServerOK, PageOK, Servers,
     Heartbeats, TurnOK, Turns
<1>1. FreqInv /\ LandsInv
  BY DEF Follows
<1>2. \A t \in Nat : \A m \in Modes : Hz(m, t) \in Int
  BY HzFacts
<1>3. view \in Modes \/ view = "settings"
  BY <1>0 DEF Tabs
<1>4. \A m \in Modes : \A t \in Band(m) : t \in Nat /\ Hz(m, t) \in Int
  BY BandFacts, HzFacts
\* Commands are sent, and what else there is stays.
<1>5. ASSUME NEW b,
             \A m \in Modes : view = m \/ view = "settings" => Tame(b, m),
             Send(b), UNCHANGED <<view, down, server, hb, seen, opened>>,
             Known(retune'), targetFreq' = targetFreq
      PROVE  Follows'
  <2>1. PICK m \in Modes : view = m \/ view = "settings"
    BY <1>3 DEF Modes
  <2>2. Tame(b, m)
    BY <1>5, <2>1
  <2>3. up' = up \o b \/ up' = up
    BY <1>5 DEF Send
  <2>4. \A i \in 1 .. Len(up') : Known(up'[i].fc)
    BY <1>0, <1>1, <2>2, <2>3, TameLands DEF FreqInv
  <2>5. Ours /\ view' \in Modes => Lands(up', server', view', Band(view'))
    <3>1. SUFFICES ASSUME Ours, view \in Modes
                   PROVE  Lands(up', server, view, Band(view))
      BY <1>5
    <3>2. Tame(b, view)
      BY <1>5, <3>1
    <3>. QED
      BY <1>0, <1>1, <2>3, <3>1, <3>2, TameLands DEF LandsInv
  <2>. QED
    BY <1>0, <1>1, <1>5, <2>4, <2>5 DEF Follows, FreqInv, LandsInv, Ours
<1>6. ASSUME UNCHANGED <<up, server, view, hb, seen, retune, opened>>,
             \A i \in 1 .. Len(down') : Known(down'[i].fc),
             targetFreq' = 0 \/ \E n \in Modes : targetFreq' \in Band(n)
      PROVE  Follows'
  BY <1>0, <1>1, <1>6 DEF Follows, FreqInv, LandsInv, Ours
<1>7. \A m \in Modes : \A n \in Modes : \A t \in Band(n) : Known(Hz(m, t))
  BY DEF BandsFit
<1>8. ASSUME NEW f \in Int, Known(f), Send(SetCenterFreq(f)),
             UNCHANGED <<view, down, server, hb, seen, opened>>,
             Known(retune'), targetFreq' = targetFreq
      PROVE  Follows'
  BY <1>5, <1>8, TameFacts
<1>9. CASE Connect
  <2>. DEFINE b == SetCenterFreq(Hz("fm", Default["fm"]))
  <2>1. /\ view' = tab /\ up' = up \o b /\ Render(tab, hb, shown)
        /\ UNCHANGED <<down, server, targetFreq, opened>>
    BY <1>9 DEF Connect, Render
  <2>2. \A m \in Modes : Tame(b, m)
    BY <1>4, <1>7, BandFacts, TameFacts DEF Modes
  <2>. HIDE DEF b
  <2>3. \A i \in 1 .. Len(up') : Known(up'[i].fc)
    BY <1>0, <1>1, <2>1, <2>2, TameLands DEF FreqInv, Modes
  <2>4. Ours /\ view' \in Modes
          => view' = view /\ Lands(up', server, view, Band(view))
    BY <1>0, <1>1, <2>1, <2>2, TameLands DEF LandsInv
  <2>5. Known(hb'.fc) /\ Known(seen'.fc) /\ Known(retune')
    BY <1>1, <2>1, RenderKnows DEF FreqInv
  <2>. QED
    BY <1>0, <1>1, <2>1, <2>3, <2>4, <2>5
       DEF Follows, FreqInv, LandsInv, Ours
<1>10. CASE Disconnect
  <2>1. /\ view' = tab /\ up' = up /\ Render(tab, hb, shown) /\ down' = << >>
        /\ UNCHANGED <<server, targetFreq, opened>>
    BY <1>10 DEF Disconnect, Render
  <2>2. Known(hb'.fc) /\ Known(seen'.fc) /\ Known(retune')
    BY <1>1, <2>1, RenderKnows DEF FreqInv
  <2>. QED
    BY <1>0, <1>1, <2>1, <2>2 DEF Follows, FreqInv, LandsInv, Ours
<1>11. ASSUME NEW t \in Tabs, OnClick(t) PROVE Follows'
  <2>1. /\ Render(t, hb, shown) /\ UNCHANGED <<down, server, targetFreq>>
        /\ up' = up \o (IF t \in Modes THEN SetMode(t) \o Mounts(t) ELSE << >>)
    BY <1>11 DEF OnClick, Send
  <2>2. Known(hb'.fc) /\ Known(seen'.fc) /\ Known(retune')
    BY <1>1, <2>1, RenderKnows DEF FreqInv
  <2>3. CASE t \in Modes
    <3>. DEFINE b == SetMode(t) \o Mounts(t)
    <3>1. view' = t /\ up' = up \o b
      BY <2>1, <2>3 DEF Render, Renders, Modes
    <3>2. Tame(b, t)
      BY <2>3, ClickSends
    <3>3. t # view => Lands(up', server, t, Band(t))
      BY <1>0, <2>3, <3>1, ClickSends
    <3>. HIDE DEF b
    <3>4. \A i \in 1 .. Len(up') : Known(up'[i].fc)
      BY <1>0, <1>1, <2>3, <3>1, <3>2, TameLands DEF FreqInv
    <3>5. Ours /\ t = view => Lands(up', server, t, Band(t))
      BY <1>0, <1>1, <2>3, <3>1, <3>2, TameLands DEF LandsInv
    <3>6. t = view => (opened' <=> opened)
      BY Zenon, <1>11 DEF OnClick
    <3>7. Ours' => Lands(up', server, t, Band(t))
      BY <1>0, <3>3, <3>5, <3>6 DEF Ours
    <3>. QED
      BY <1>1, <2>1, <2>2, <3>1, <3>4, <3>7 DEF Follows, FreqInv, LandsInv
  <2>4. CASE t \notin Modes
    <3>1. up' = up \o << >> /\ (view' = t \/ view' = view)
      BY <2>1, <2>4 DEF Render
    <3>2. \A m \in Modes : Tame(<< >>, m)
      BY TameFacts
    <3>3. \A i \in 1 .. Len(up') : Known(up'[i].fc)
      BY <1>0, <1>1, <3>1, <3>2, TameLands DEF FreqInv, Modes
    <3>4. Ours /\ view' \in Modes => Lands(up', server, view', Band(view'))
      BY <1>0, <1>1, <2>4, <3>1, <3>2, TameLands DEF LandsInv
    <3>5. opened' <=> opened
      BY Zenon, <1>11, <2>4 DEF OnClick
    <3>. QED
      BY <1>0, <1>1, <2>1, <2>2, <3>3, <3>4, <3>5
         DEF Follows, FreqInv, LandsInv, Ours
  <2>. QED
    BY <2>3, <2>4
<1>12. ASSUME NEW g, OnMouseDown(g) PROVE Follows'
  BY <1>1, <1>6, <1>12 DEF OnMouseDown, FreqInv
<1>13. ASSUME NEW t, OnMouseMove(t) PROVE Follows'
  BY <1>0, <1>1, <1>6, <1>13 DEF OnMouseMove, FreqInv
<1>14. CASE OnMouseUp
  <2>1. view \in Modes /\ targetFreq \in Nat
    BY <1>0, <1>14 DEF OnMouseUp, Inv, TypeOK, PageOK
  <2>2. Known(Hz(view, targetFreq)) /\ Hz(view, targetFreq) \in Int
    <3>1. CASE targetFreq = 0
      <4>1. Hz(view, targetFreq) = 0
        BY SMT, <3>1 DEF Hz, PerHundredth
      <4>. QED
        BY <4>1, NotKnown
    <3>2. CASE targetFreq # 0
      BY <1>1, <1>2, <1>7, <2>1, <3>2 DEF FreqInv
    <3>. QED
      BY <3>1, <3>2
  <2>. QED
    BY <1>1, <1>8, <1>14, <2>2 DEF OnMouseUp, FreqInv
<1>15. ASSUME NEW m \in Modes, NEW t \in Band(m), OnStation(t) PROVE Follows'
  <2>1. view \in Modes
    BY <1>15 DEF OnStation
  <2>2. Known(Hz(view, t)) /\ Hz(view, t) \in Int
    BY <1>2, <1>4, <1>7, <2>1
  <2>. QED
    BY <1>1, <1>8, <1>15, <2>2 DEF OnStation, FreqInv
<1>16. ASSUME NEW s \in {"on", "up", "down"}, OnScan(s) PROVE Follows'
  BY <1>1, <1>5, <1>16, TameFacts DEF OnScan, FreqInv
<1>17. CASE OnChangeSampleRate
  <2>1. Known(retune')
    BY <1>17, NotKnown DEF OnChangeSampleRate, Live
  <2>. QED
    BY <1>0, <1>1, <1>17, <2>1
       DEF OnChangeSampleRate, Follows, FreqInv, LandsInv, Ours
<1>18. CASE Retune
  <2>. DEFINE f == IF retune = Live THEN seen.fc ELSE retune
  <2>1. f \in Int /\ Known(f)
    BY <1>0, <1>1 DEF FreqInv
  <2>2. Known(retune')
    BY <1>18, NotKnown DEF Retune, NoTimer
  <2>3. Send(SetCenterFreq(f))
        /\ UNCHANGED <<view, down, server, hb, seen, targetFreq, opened>>
    BY <1>18 DEF Retune
  <2>. HIDE DEF f
  <2>. QED
    BY <1>8, <2>1, <2>2, <2>3
<1>19. CASE Receive
  <2>1. /\ Render(tab, Head(down), shown) /\ down' = Tail(down)
        /\ down # << >> /\ UNCHANGED <<up, server, targetFreq, opened>>
    BY <1>19 DEF Receive
  <2>2. /\ Known(Head(down).fc)
        /\ \A i \in 1 .. Len(down') : Known(down'[i].fc)
    <3>1. /\ Head(down) = down[1] /\ 1 \in 1 .. Len(down) /\ Len(down) \in Nat
          /\ Len(down') = Len(down) - 1
          /\ \A i \in 1 .. Len(down') : down'[i] = down[i + 1]
      BY <1>0, <2>1
    <3>2. \A i \in 1 .. Len(down') : i + 1 \in 1 .. Len(down)
      BY <3>1
    <3>. QED
      BY <1>1, <3>1, <3>2 DEF FreqInv
  <2>3. Known(hb'.fc) /\ Known(seen'.fc) /\ Known(retune')
    BY <1>1, <2>1, <2>2, RenderKnows DEF FreqInv
  <2>4. view' = tab \/ view' = view
    BY <2>1 DEF Render
  <2>. QED
    BY <1>0, <1>1, <2>1, <2>2, <2>3, <2>4
       DEF Follows, FreqInv, LandsInv, Ours
<1>20. CASE Heartbeat
  <2>1. down' = <<Header>> /\ Header.fc = server.rfc
    BY <1>20 DEF Heartbeat, Header, HeaderOf
  <2>2. \A i \in 1 .. Len(down') : Known(down'[i].fc)
    BY <1>1, <2>1 DEF FreqInv
  <2>. QED
    BY <1>1, <1>6, <1>20, <2>2 DEF Heartbeat, FreqInv
<1>21. CASE Overwritten
  <2>1. \A i \in 1 .. Len(down') : Known(down'[i].fc)
    BY <1>0, <1>1, <1>21 DEF Overwritten, FreqInv
  <2>. QED
    BY <1>1, <1>6, <1>21, <2>1 DEF Overwritten, FreqInv
<1>22. CASE ControllerCommand
  <2>1. /\ up # << >> /\ server' = After(Head(up), server)
        /\ up' = Tail(up)
        /\ UNCHANGED <<view, down, hb, seen, retune, targetFreq, opened>>
    BY <1>22 DEF ControllerCommand
  <2>2. /\ Head(up) \in Commands /\ Known(Head(up).fc)
        /\ \A i \in 1 .. Len(up') : Known(up'[i].fc)
    <3>1. /\ Head(up) = up[1] /\ 1 \in 1 .. Len(up) /\ Len(up) \in Nat
          /\ up[1] \in Commands /\ Len(up') = Len(up) - 1
          /\ \A i \in 1 .. Len(up') : up'[i] = up[i + 1]
      BY <1>0, <2>1
    <3>2. \A i \in 1 .. Len(up') : i + 1 \in 1 .. Len(up)
      BY <3>1
    <3>. QED
      BY <1>1, <3>1, <3>2 DEF FreqInv
  <2>3. Known(server'.rfc)
    <3>. DEFINE c == Head(up)
                m == IF c.mode # "none" THEN c.mode ELSE server.mode
    <3>1. /\ m \in Modes
          /\ c.fc > 0 /\ InBand(m, ToFloat(c.fc)) =>
               After(c, server).rfc = ToFloat(c.fc) + Offset[m]
          /\ ~(c.fc > 0 /\ InBand(m, ToFloat(c.fc))) =>
               After(c, server).rfc = server.rfc
      BY <1>0, <2>2, AfterFacts
    <3>. HIDE DEF m
    <3>2. CASE c.fc > 0 /\ InBand(m, ToFloat(c.fc))
      <4>1. PICK t \in Band(m) : ToFloat(c.fc) = Hz(m, t)
        BY <2>2, <3>1, <3>2 DEF Known, Fits
      <4>2. Known(Hz(m, t) + Offset[m])
        BY <3>1, <4>1 DEF BandsFit
      <4>. QED
        BY <2>1, <3>1, <3>2, <4>1, <4>2
    <3>3. CASE ~(c.fc > 0 /\ InBand(m, ToFloat(c.fc)))
      BY <1>1, <2>1, <3>1, <3>3 DEF FreqInv
    <3>. QED
      BY <3>2, <3>3
  <2>4. Ours /\ view \in Modes => Lands(up', server', view, Band(view))
    BY <1>0, <1>1, <2>1, LandsAfter DEF LandsInv
  <2>. QED
    BY <1>0, <1>1, <2>1, <2>2, <2>3, <2>4
       DEF Follows, FreqInv, LandsInv, Ours
<1>23. CASE ScannerWrites
  <2>1. /\ turn.at = "rest" /\ server' = Step(turn, server)
        /\ UNCHANGED <<up, view, down, hb, seen, retune, targetFreq, opened>>
    BY <1>23 DEF ScannerWrites
  <2>2. world.patient
    BY <2>1 DEF Calm, IdleInv
  <2>3. OnTick(server.fc) /\ Copies(turn, server)
    BY <2>1, <2>2 DEF TurnInv
  <2>4. Known(server'.rfc)
    BY <1>0, <1>1, <2>1, <2>3, StepKnown DEF FreqInv
  <2>5. Ours /\ view \in Modes => Lands(up, server', view, Band(view))
    BY <1>0, <1>1, <2>1, <2>3, StepLands DEF LandsInv
  <2>. QED
    BY <1>0, <1>1, <2>1, <2>4, <2>5 DEF Follows, FreqInv, LandsInv, Ours
<1>24. CASE UNCHANGED <<page, up, down, server, user>>
  BY <1>0, <1>1, <1>24 DEF Follows, FreqInv, LandsInv, Ours
<1>. QED
  BY <1>9, <1>10, <1>11, <1>12, <1>13, <1>14, <1>15, <1>16, <1>17, <1>18,
     <1>19, <1>20, <1>21, <1>22, <1>23, <1>24, AsideKeeps DEF Next

LEMMA FollowInit == BandsFit /\ Init => FollowInv
<1>. SUFFICES ASSUME BandsFit, Init PROVE FreqInv /\ LandsInv
  BY DEF FollowInv, Follows
<1>. DEFINE m == world.left
<1>1. /\ view = "fm" /\ up = << >> /\ down = << >> /\ server = Start(m)
      /\ hb.fc = 0 /\ seen.fc = 0 /\ retune = NoTimer /\ targetFreq = 0
      /\ (Ours => m = "fm") /\ m \in Modes
  BY ConstantsAssumption DEF Init, Ours
<1>2. Default[m] \in Band(m)
  BY <1>1, BandFacts
<1>3. Known(0) /\ Known(NoTimer)
  BY NotKnown DEF NoTimer
<1>4. /\ Start(m).mode = m /\ Start(m).fc = Hz(m, Default[m])
      /\ Start(m).rfc = Hz(m, Default[m]) + Offset[m]
  BY DEF Start
<1>. HIDE DEF m
<1>5. Known(Start(m).rfc)
  BY <1>1, <1>2, <1>4 DEF BandsFit
<1>6. At(server, m, Band(m))
  BY <1>1, <1>2, <1>4 DEF At
<1>. QED
  BY <1>1, <1>3, <1>5, <1>6 DEF FreqInv, LandsInv, Lands

\* However fast the user goes from tab to tab, when the commands have arrived
\* the server is in the mode of the tab that is open (modulations.jsx:27),
\* whatever the scanner has read before they came; and with users who wait,
\* or do not scan, the dongle is at one of its ticks (fm.jsx:30,
\* controller.c:106, scanner.c:64).
THEOREM ServerFollowsTab == BandsFit => (Spec => []FollowsTab)
<1>. SUFFICES ASSUME BandsFit PROVE Spec => []FollowsTab
  OBVIOUS
<1>1. Inv /\ ModeInv /\ FollowInv => FollowsTab
  <2>. SUFFICES ASSUME Inv, ModeInv, FollowInv, Ours, up = << >>,
                       tab \in Modes
                PROVE  /\ server.mode = tab
                       /\ Calm => \E t \in Band(tab) :
                                    server.rfc = Hz(tab, t) + Offset[tab]
    BY DEF FollowsTab
  <2>1. view = tab
    BY DEF Inv, ViewInv
  <2>2. server.mode = tab
    BY <2>1 DEF ModeInv, LastMode
  <2>3. Calm => At(server, tab, Band(tab))
    BY <2>1, LandsEmpty DEF FollowInv, Follows, LandsInv
  <2>. QED
    BY <2>2, <2>3 DEF At
<1>2. Init => BusyInv /\ SettingsInv /\ IdleInv /\ TurnInv /\ ModeInv
  BY BusyInit, IdleInit, TurnInit, ModeInit DEF Init, SettingsInv
<1>3. /\ Inv /\ IdleInv /\ TurnInv /\ FollowInv /\ [Next]_vars
      => FollowInv'
  BY FollowNext
<1>4. Init => FollowInv
  BY FollowInit
<1>. QED
  BY <1>1, <1>2, <1>3, <1>4, BusyNext, SettingsNext, IdleNext, TurnNext,
     ModeNext, InvHolds, PTL DEF Spec

-----------------------------------------------------------------------------
(* The bands and the upconverter of the code are such: all their           *)
(* frequencies are multiples of 10 kHz, each of which is a tick of the AM  *)
(* band if it is in it at all.                                             *)

LEMMA FloatNear ==
  /\ \A c \in Nat : ToFloat(c) <= c + 8 /\ c <= ToFloat(c) + 8
  /\ \A c \in Nat : c % 8 = 0 => ToFloat(c) = c
BY SMT DEF ToFloat

RealBands ==
  /\ \A m \in Modes : BandMin[m] = TickMin(m) /\ BandMax[m] = TickMax(m)
  /\ Offset["fm"] = 0 /\ Offset["am"] = 125000000

LEMMA RealTicks ==
  ASSUME RealBands
  PROVE  /\ Band("fm") = {8790 + 20 * i : i \in 0 .. 100}
         /\ Band("am") = {54000 + 1000 * i : i \in 0 .. 116}
         /\ \A f : InBand("fm", f) <=> 87900000 <= f /\ f <= 107900000
         /\ \A f : InBand("am", f) <=> 540000 <= f /\ f <= 1700000
<1>1. /\ BandMin["fm"] = 8790 /\ BandMax["fm"] = 10790
      /\ BandMin["am"] = 54000 /\ BandMax["am"] = 170000
  BY SMT DEF RealBands, Modes, TickMin, TickMax
<1>2. (10790 - 8790) \div 20 = 100 /\ (170000 - 54000) \div 1000 = 116
  BY SMT
<1>. QED
  BY SMT, <1>1, <1>2 DEF Band, InBand, TickStep, Hz, PerHundredth

LEMMA RealFits ==
  ASSUME RealBands
  PROVE  /\ \A c \in Int : c % 10000 = 0 => Fits("am", c)
         /\ \A c \in Int : c % 200000 = 100000 => Fits("fm", c)
         /\ \A c \in Int : c > 108000000 \/ c < 87000000 => Fits("fm", c)
         /\ \A c \in Int : c < 500000 => Fits("am", c)
<1>1. ASSUME NEW c \in Int, c % 10000 = 0, c > 0, InBand("am", ToFloat(c))
      PROVE  \E t \in Band("am") : ToFloat(c) = Hz("am", t)
  <2>1. c \in Nat /\ c % 8 = 0
    BY SMT, <1>1
  <2>2. ToFloat(c) = c
    BY SMT, <2>1, FloatNear
  <2>3. 540000 <= c /\ c <= 1700000
    BY SMT, <1>1, <2>2, RealTicks
  <2>. DEFINE i == c \div 10000 - 54
  <2>4. i \in 0 .. 116 /\ c = 10 * (54000 + 1000 * i)
    BY SMT, <1>1, <2>3
  <2>5. Hz("am", 54000 + 1000 * i) = 10 * (54000 + 1000 * i)
    BY SMT, <2>4 DEF Hz, PerHundredth
  <2>. HIDE DEF i
  <2>6. 54000 + 1000 * i \in Band("am")
    BY SMT, <2>4, RealTicks
  <2>. QED
    BY SMT, <2>2, <2>4, <2>5, <2>6
<1>2. ASSUME NEW c \in Int, c % 200000 = 100000, c > 0,
             InBand("fm", ToFloat(c))
      PROVE  \E t \in Band("fm") : ToFloat(c) = Hz("fm", t)
  <2>1. c \in Nat /\ c % 8 = 0
    BY SMT, <1>2
  <2>2. ToFloat(c) = c
    BY SMT, <2>1, FloatNear
  <2>3. 87900000 <= c /\ c <= 107900000
    BY SMT, <1>2, <2>2, RealTicks
  <2>. DEFINE i == c \div 200000 - 439
  <2>4. i \in 0 .. 100 /\ c = 10000 * (8790 + 20 * i)
    BY SMT, <1>2, <2>3
  <2>5. Hz("fm", 8790 + 20 * i) = 10000 * (8790 + 20 * i)
    BY SMT, <2>4 DEF Hz, PerHundredth
  <2>. HIDE DEF i
  <2>6. 8790 + 20 * i \in Band("fm")
    BY SMT, <2>4, RealTicks
  <2>. QED
    BY SMT, <2>2, <2>4, <2>5, <2>6
<1>3. ASSUME NEW c \in Int, c > 108000000 \/ c < 87000000, c > 0
      PROVE  ~InBand("fm", ToFloat(c))
  <2>1. c \in Nat /\ ToFloat(c) \in Nat
    BY SMT, <1>3, FloatFacts
  <2>2. ToFloat(c) <= c + 8 /\ c <= ToFloat(c) + 8
    BY SMT, <2>1, FloatNear
  <2>. QED
    BY SMT, <1>3, <2>1, <2>2, RealTicks
<1>4. ASSUME NEW c \in Int, c < 500000, c > 0
      PROVE  ~InBand("am", ToFloat(c))
  <2>1. c \in Nat /\ ToFloat(c) \in Nat
    BY SMT, <1>4, FloatFacts
  <2>2. ToFloat(c) <= c + 8
    BY SMT, <2>1, FloatNear
  <2>. QED
    BY SMT, <1>4, <2>1, <2>2, RealTicks
<1>. QED
  BY SMT, <1>1, <1>2, <1>3, <1>4 DEF Fits

\* So do those that are ticks of the FM band, or out of it.
LEMMA RealKnown ==
  ASSUME RealBands, NEW c \in Int,
         \/ c % 200000 = 100000
         \/ c % 10000 = 0 /\ (c > 108000000 \/ c < 87000000)
         \/ c < 500000
  PROVE  Known(c)
<1>1. Fits("am", c) /\ Fits("fm", c)
  <2>1. c % 200000 = 100000 => c % 10000 = 0
    BY SMT
  <2>. QED
    BY SMT, <2>1, RealFits
<1>. QED
  BY <1>1 DEF Known, Modes

LEMMA RealBandsApart ==
  ASSUME RealBands
  PROVE  BandsApart
<1>1. TicksApart
  <2>1. \A m \in Modes : Band(m) = {Tick(m, i) : i \in Places(m)}
    <3>1. \A m \in Modes : BandMin[m] = TickMin(m) /\ BandMax[m] = TickMax(m)
      BY SMT DEF RealBands, Modes, TickMin, TickMax
    <3>. QED
      BY <3>1 DEF Band, Tick, Places
  <2>2. SUFFICES ASSUME NEW m \in Modes, NEW n \in Modes,
                        NEW i \in Places(n), NEW j \in Places(m),
                        Shown(m, Hz(n, Tick(n, i))) = Tick(m, j)
                 PROVE  /\ m = n
                        /\ Shown(m, Hz(n, Tick(n, i))) = Tick(n, i)
    BY <2>1 DEF TicksApart
  <2>3. m = n
    BY <2>2, BandsStayApart
  <2>4. Shown(n, Hz(n, Tick(n, i))) = Tick(n, i)
    BY TicksAreExact DEF TicksArrive
  <2>. QED
    BY <2>3, <2>4
<1>2. DonglesApart
  <2>. SUFFICES ASSUME NEW m \in Modes, NEW n \in Modes, NEW t \in Band(n),
                       NEW f \in Nat, Bounded(f),
                       f + Offset[m] = Hz(n, t) + Offset[n]
                PROVE  f = Hz(n, t)
    BY DEF DonglesApart
  <2>1. /\ \A x : Hz("fm", x) = x * 10000 /\ Hz("am", x) = x * 10
        /\ BandMax["fm"] = 10790 /\ BandMax["am"] = 170000
    BY SMT DEF RealBands, Modes, TickMax, Hz, PerHundredth
  <2>2. f <= 107900000 /\ Hz(n, t) <= 107900000 /\ Hz(n, t) \in Nat
    <3>1. f <= 107900000
      BY SMT, <2>1 DEF Bounded, Modes
    <3>2. CASE n = "fm"
      <4>1. PICK i \in 0 .. 100 : t = 8790 + 20 * i
        BY SMT, <3>2, RealTicks
      <4>. QED
        BY SMT, <2>1, <3>1, <3>2, <4>1
    <3>3. CASE n = "am"
      <4>1. PICK i \in 0 .. 116 : t = 54000 + 1000 * i
        BY SMT, <3>3, RealTicks
      <4>. QED
        BY SMT, <2>1, <3>1, <3>3, <4>1
    <3>. QED
      BY SMT, <3>2, <3>3 DEF Modes
  <2>3. Offset[m] \in {0, 125000000} /\ Offset[n] \in {0, 125000000}
    BY SMT DEF RealBands, Modes
  <2>. QED
    BY SMT, <2>2, <2>3
<1>3. GreetingFits
  <2>1. Default["fm"] \in Band("fm")
    BY BandFacts DEF Modes
  <2>2. PICK i \in 0 .. 100 : Default["fm"] = 8790 + 20 * i
    BY SMT, <2>1, RealTicks
  <2>. DEFINE g == (8790 + 20 * i) * 10000
  <2>3. Greeting = g
    BY SMT, <2>2 DEF Greeting, Hz, PerHundredth
  <2>4. g \in Nat /\ g % 8 = 0 /\ g > 1700000
    BY SMT
  <2>. HIDE DEF g
  <2>5. ToFloat(g) = g
    BY <2>4, FloatNear
  <2>6. ~InBand("am", g)
    BY SMT, <2>4, RealTicks
  <2>. QED
    BY <2>3, <2>5, <2>6 DEF GreetingFits
<1>. QED
  BY <1>1, <1>2, <1>3 DEF BandsApart

LEMMA RealBandsFit ==
  ASSUME RealBands
  PROVE  BandsFit
<1>1. /\ TickStep("fm") = 20 /\ TickStep("am") = 1000
      /\ \A t : Hz("fm", t) = t * 10000 /\ Hz("am", t) = t * 10
      /\ Offset["fm"] = 0 /\ Offset["am"] = 125000000
  BY SMT DEF Hz, PerHundredth, TickStep, RealBands
<1>2. ASSUME NEW i \in 0 .. 100, NEW t, t = 8790 + 20 * i,
             NEW c,
             c \in {t * 10000, t * 10, t * 10000 + 0,
                    t * 10000 + 20 * 10000 + 0,
                    (t * 10000 - 20 * 10000) + 0,
                    t * 10000 + 1000 * 10 + 125000000,
                    (t * 10000 - 1000 * 10) + 125000000}
      PROVE  Known(c)
  <2>1. /\ c \in Int
        /\ \/ c % 200000 = 100000
           \/ c % 10000 = 0 /\ (c > 108000000 \/ c < 87000000)
           \/ c < 500000
    BY SMT, <1>2
  <2>. QED
    BY SMT, <2>1, RealKnown
<1>3. ASSUME NEW i \in 0 .. 116, NEW t, t = 54000 + 1000 * i,
             NEW c,
             c \in {t * 10, t * 10000, t * 10 + 125000000,
                    t * 10 + 20 * 10000 + 0, (t * 10 - 20 * 10000) + 0,
                    t * 10 + 1000 * 10 + 125000000,
                    (t * 10 - 1000 * 10) + 125000000}
      PROVE  Known(c)
  <2>1. /\ c \in Int
        /\ \/ c % 200000 = 100000
           \/ c % 10000 = 0 /\ (c > 108000000 \/ c < 87000000)
           \/ c < 500000
    BY SMT, <1>3
  <2>. QED
    BY SMT, <2>1, RealKnown
<1>4. ASSUME NEW m \in Modes, NEW n \in Modes, NEW t \in Band(n)
      PROVE  /\ Known(Hz(m, t)) /\ Known(Hz(n, t) + Offset[n])
             /\ Known(Hz(n, t) + Hz(m, TickStep(m)) + Offset[m])
             /\ Known((Hz(n, t) - Hz(m, TickStep(m))) + Offset[m])
             /\ ToFloat(Hz(n, t)) = Hz(n, t)
  <2>1. CASE n = "fm"
    <3>1. PICK i \in 0 .. 100 : t = 8790 + 20 * i
      BY SMT, <2>1, <1>4, RealTicks
    <3>2. /\ Known(t * 10000) /\ Known(t * 10) /\ Known(t * 10000 + 0)
          /\ Known(t * 10000 + 20 * 10000 + 0)
          /\ Known((t * 10000 - 20 * 10000) + 0)
          /\ Known(t * 10000 + 1000 * 10 + 125000000)
          /\ Known((t * 10000 - 1000 * 10) + 125000000)
      BY <1>2, <3>1, SMTT(20)
    <3>5. t * 10000 \in Nat /\ (t * 10000) % 8 = 0
      BY SMT, <3>1
    <3>6. ToFloat(t * 10000) = t * 10000
      BY SMT, <3>5, FloatNear
    <3>3. CASE m = "fm"
      BY SMT, <1>1, <2>1, <3>2, <3>3, <3>6
    <3>4. CASE m = "am"
      BY SMT, <1>1, <2>1, <3>2, <3>4, <3>6
    <3>. QED
      BY <3>3, <3>4 DEF Modes
  <2>2. CASE n = "am"
    <3>1. PICK i \in 0 .. 116 : t = 54000 + 1000 * i
      BY SMT, <2>2, <1>4, RealTicks
    <3>2. /\ Known(t * 10) /\ Known(t * 10000) /\ Known(t * 10 + 125000000)
          /\ Known(t * 10 + 20 * 10000 + 0)
          /\ Known((t * 10 - 20 * 10000) + 0)
          /\ Known(t * 10 + 1000 * 10 + 125000000)
          /\ Known((t * 10 - 1000 * 10) + 125000000)
      BY <1>3, <3>1, SMTT(20)
    <3>5. t * 10 \in Nat /\ (t * 10) % 8 = 0
      BY SMT, <3>1
    <3>6. ToFloat(t * 10) = t * 10
      BY SMT, <3>5, FloatNear
    <3>3. CASE m = "fm"
      BY SMT, <1>1, <2>2, <3>2, <3>3, <3>6
    <3>4. CASE m = "am"
      BY SMT, <1>1, <2>2, <3>2, <3>4, <3>6
    <3>. QED
      BY <3>3, <3>4 DEF Modes
  <2>. QED
    BY <2>1, <2>2 DEF Modes
<1>. QED
  BY <1>4 DEF BandsFit, Modes

-----------------------------------------------------------------------------
(* The timer of the settings.  A user who waits opens them when the server *)
(* has settled on a tick; what the timer sends then is the frequency of    *)
(* the dongle, which the server refuses or is at already.                  *)

\* The dongle's frequency for a tick is accepted only if it stands for that
\* tick: not with the AM tab's upconverter, and the FM tab has none.
DongleStays ==
  \A m \in Modes : \A t \in Band(m) :
    InBand(m, ToFloat(Hz(m, t) + Offset[m])) =>
      ToFloat(Hz(m, t) + Offset[m]) = Hz(m, t)

LEMMA RealDongleStays ==
  ASSUME RealBands
  PROVE  DongleStays
<1>1. ASSUME NEW t \in Band("fm")
      PROVE  ToFloat(Hz("fm", t) + Offset["fm"]) = Hz("fm", t)
  <2>1. /\ Hz("fm", t) \in Nat /\ Offset["fm"] = 0
        /\ ToFloat(Hz("fm", t)) = Hz("fm", t)
    BY RealBandsFit, TickAccepted, SMT DEF BandsFit, RealBands, Modes
  <2>2. Hz("fm", t) + 0 = Hz("fm", t)
    BY <2>1
  <2>. QED
    BY <2>1, <2>2
<1>2. ASSUME NEW t \in Band("am")
      PROVE  ~InBand("am", ToFloat(Hz("am", t) + Offset["am"]))
  <2>1. Hz("am", t) + 125000000 \in Nat
    BY TickAccepted, SMT DEF Modes
  <2>2. ToFloat(Hz("am", t) + 125000000) \in Nat
    BY <2>1, FloatFacts, SMT
  <2>3. Hz("am", t) + 125000000 <= ToFloat(Hz("am", t) + 125000000) + 8
    BY <2>1, FloatNear, SMT
  <2>4. ToFloat(Hz("am", t) + 125000000) > 1700000
    BY <2>1, <2>2, <2>3, TickAccepted, SMT DEF Modes
  <2>5. Offset["am"] = 125000000
    BY SMT DEF RealBands
  <2>. QED
    BY <2>2, <2>4, <2>5, RealTicks, SMT
<1>. QED
  BY <1>1, <1>2 DEF DongleStays, Modes

PutInv ==
  Ours /\ world.patient /\ "disconnect" \notin world.gestures
  /\ view = "settings" =>
    /\ connected /\ server.smode = "off"
    /\ At(server, server.mode, Band(server.mode))
    /\ seen.fc = server.rfc
    /\ \A i \in 1 .. Len(down) : down[i].fc = server.rfc
    /\ \A i \in 1 .. Len(up) :
         up[i].mode = "none" /\ up[i].scan = "none" /\ up[i].fc = server.rfc
    /\ retune \in {NoTimer, Live}

\* The server is told the frequency of its dongle.
LEMMA ToldItsOwn ==
  ASSUME DongleStays, NEW c \in Commands, NEW s \in Servers,
         At(s, s.mode, Band(s.mode)),
         c.mode = "none", c.scan = "none", c.fc = s.rfc
  PROVE  /\ After(c, s).mode = s.mode /\ After(c, s).smode = s.smode
         /\ After(c, s).fc = s.fc /\ After(c, s).rfc = s.rfc
<1>1. s.mode \in Modes
  BY DEF Servers
<1>2. PICK t \in Band(s.mode) :
        s.fc = Hz(s.mode, t) /\ s.rfc = Hz(s.mode, t) + Offset[s.mode]
  BY DEF At
<1>3. /\ After(c, s).mode = s.mode /\ After(c, s).smode = s.smode
      /\ c.fc > 0 /\ InBand(s.mode, ToFloat(c.fc)) =>
           /\ After(c, s).fc = ToFloat(c.fc)
           /\ After(c, s).rfc = ToFloat(c.fc) + Offset[s.mode]
      /\ ~(c.fc > 0 /\ InBand(s.mode, ToFloat(c.fc))) =>
           After(c, s).fc = s.fc /\ After(c, s).rfc = s.rfc
  BY AfterFacts
<1>4. InBand(s.mode, ToFloat(c.fc)) => ToFloat(c.fc) = s.fc
  BY <1>1, <1>2 DEF DongleStays
<1>. QED
  BY <1>2, <1>3, <1>4

LEMMA PutNext ==
  ASSUME DongleStays, Inv, SettingsInv, TurnInv, FollowInv, PutInv,
         [Next]_vars
  PROVE  PutInv'
<1>. SUFFICES ASSUME world'.patient, "disconnect" \notin world'.gestures,
                     view' = "settings", Ours'
              PROVE  PutInv'
  BY DEF PutInv
<1>. USE DEF vars, page, user, receiver, Elsewhere
<1>0. /\ up \in Seq(Commands) /\ down \in Seq(Heartbeats)
      /\ server \in Servers /\ tab \in Tabs /\ view \in Tabs
      /\ tab \in Modes => view = tab
      /\ dragging # "no" => view \in Modes
      /\ seen.fc \in Int
  BY DEF Inv, TypeOK, WireOK, ServerOK, PageOK, Servers, Heartbeats
<1>1. world' = world
  BY WorldStays
<1>2. world.patient /\ "disconnect" \notin world.gestures
  BY <1>1
<1>23. Calm
  BY <1>2 DEF Calm
<1>3. "settings" \notin Modes
  BY DEF Modes
<1>4. view = "settings" =>
        /\ connected /\ server.smode = "off"
        /\ At(server, server.mode, Band(server.mode))
        /\ seen.fc = server.rfc
        /\ \A i \in 1 .. Len(down) : down[i].fc = server.rfc
        /\ \A i \in 1 .. Len(up) :
             /\ up[i].mode = "none" /\ up[i].scan = "none"
             /\ up[i].fc = server.rfc
        /\ retune \in {NoTimer, Live}
  <2>. SUFFICES ASSUME view = "settings" PROVE Ours
    BY <1>2 DEF PutInv
  <2>1. CASE \E t \in Tabs : OnClick(t)
    <3>1. PICK t \in Tabs : OnClick(t)
      BY <2>1
    <3>2. t \notin Modes
      BY <1>3, <3>1 DEF OnClick, Render, Renders, Modes
    <3>3. opened' <=> opened
      BY Zenon, <3>1, <3>2 DEF OnClick
    <3>. QED
      BY <1>1, <3>3 DEF Ours
  <2>2. CASE UNCHANGED opened
    BY <1>1, <2>2 DEF Ours
  <2>3. CASE UNCHANGED <<page, up, down, server, user>>
    BY <2>2, <2>3
  <2>. QED
    BY <2>1, <2>2, <2>3, AsideKeeps
       DEF Next, Connect, Disconnect, OnMouseDown, OnMouseMove,
           OnMouseUp, OnStation, OnScan, OnChangeSampleRate, Retune, Receive,
           Heartbeat, Overwritten, ControllerCommand, ScannerWrites
\* The settings are opened, or opened again.
<1>5. ASSUME NEW t \in Tabs, OnClick(t) PROVE PutInv'
  <2>1. t = "settings"
    BY <1>5 DEF OnClick, Render, Renders, Tabs
  <2>2. Settled /\ connected
    BY <1>2, <1>5 DEF OnClick, Gesture
  <2>3. /\ up = << >> /\ down = << >> /\ hb = Header /\ seen = hb
        /\ server.smode = "off" /\ retune = NoTimer
    BY <2>2 DEF Settled
  <2>4. Header.fc = server.rfc
    BY DEF Header, HeaderOf
  <2>7. Ours
    <3>1. opened' <=> opened
      BY Zenon, <1>3, <1>5, <2>1 DEF OnClick
    <3>. QED
      BY <1>1, <3>1 DEF Ours
  <2>5. At(server, server.mode, Band(server.mode))
    <3>1. CASE view \in Modes
      <4>1. At(server, view, Band(view))
        BY <1>23, <2>3, <2>7, <3>1, LandsEmpty
           DEF FollowInv, Follows, LandsInv
      <4>. QED
        BY <4>1 DEF At
    <3>2. CASE view \notin Modes
      BY <1>0, <1>4, <2>7, <3>2 DEF Tabs
    <3>. QED
      BY <3>1, <3>2
  <2>6. /\ up' = << >> /\ down' = << >> /\ server' = server
        /\ connected' = connected /\ seen'.fc = server.rfc
        /\ retune' \in {NoTimer, Live}
    <3>1. Send(<< >>) /\ UNCHANGED <<down, server, connected>>
          /\ Render(t, hb, shown)
      BY <1>3, <1>5, <2>1 DEF OnClick
    <3>2. up' = << >>
      BY <2>3, <3>1 DEF Send
    <3>3. seen' = hb \/ seen' = seen
      BY <3>1 DEF Render
    <3>4. retune' = NoTimer
      BY <2>3, <3>1 DEF Render, Live, NoTimer
    <3>. QED
      BY <2>3, <2>4, <3>1, <3>2, <3>3, <3>4
  <2>. QED
    BY <2>2, <2>3, <2>5, <2>6 DEF PutInv, At
<1>6. ASSUME UNCHANGED <<view, connected, server, seen, up, down>>,
             view = "settings" => retune' \in {NoTimer, Live}
      PROVE  PutInv'
  BY <1>1, <1>4, <1>6 DEF PutInv, At
<1>7. CASE Connect
  <2>1. view' = tab /\ ~connected
    BY <1>7 DEF Connect, Render
  <2>2. view = "settings"
    <3>1. tab = "settings"
      BY <2>1
    <3>. QED
      BY <1>2, <3>1 DEF SettingsInv, SettingsQuiet
  <2>. QED
    BY <1>4, <2>1, <2>2
<1>8. ~Disconnect
  BY <1>2 DEF Disconnect, Gesture
<1>9. ASSUME NEW g, OnMouseDown(g) PROVE PutInv'
  BY <1>4, <1>6, <1>9 DEF OnMouseDown
<1>10. ASSUME NEW t, OnMouseMove(t) PROVE PutInv'
  BY <1>4, <1>6, <1>10 DEF OnMouseMove
<1>11. CASE OnMouseUp
  BY <1>0, <1>3, <1>11 DEF OnMouseUp
<1>12. ASSUME NEW t, OnStation(t) PROVE PutInv'
  BY <1>3, <1>12 DEF OnStation
<1>13. ASSUME NEW s, OnScan(s) PROVE PutInv'
  BY <1>3, <1>13 DEF OnScan
<1>14. CASE OnChangeSampleRate
  BY <1>6, <1>14 DEF OnChangeSampleRate
<1>15. CASE Retune
  <2>1. /\ view = "settings" /\ retune = Live /\ retune' = NoTimer
        /\ Send(SetCenterFreq(seen.fc))
        /\ UNCHANGED <<view, connected, server, seen, down>>
    BY <1>4, <1>15 DEF Retune, NoTimer
  <2>. DEFINE b == SetCenterFreq(seen.fc)
  <2>2. /\ b \in Seq(Commands)
        /\ \A i \in 1 .. Len(b) : b[i] = Command("none", "none", seen.fc)
    BY <1>0, SentFacts, SetFacts DEF Modes
  <2>3. /\ Command("none", "none", seen.fc).mode = "none"
        /\ Command("none", "none", seen.fc).scan = "none"
        /\ Command("none", "none", seen.fc).fc = server.rfc
    BY <1>4, <2>1 DEF Command
  <2>4. up' = up \o b
    BY <1>4, <2>1 DEF Send
  <2>. HIDE DEF b
  <2>5. ASSUME NEW i \in 1 .. Len(up')
        PROVE  /\ up'[i].mode = "none" /\ up'[i].scan = "none"
               /\ up'[i].fc = server.rfc
    <3>1. CASE i > Len(up)
      <4>1. i - Len(up) \in 1 .. Len(b) /\ up'[i] = b[i - Len(up)]
        BY <1>0, <2>2, <2>4, <3>1, ConcatIs
      <4>. QED
        BY <2>2, <2>3, <4>1
    <3>2. CASE ~(i > Len(up))
      <4>1. i \in 1 .. Len(up) /\ up'[i] = up[i]
        BY <1>0, <2>2, <2>4, <3>2, ConcatIs
      <4>. QED
        BY <1>4, <2>1, <4>1
    <3>. QED
      BY <3>1, <3>2
  <2>. QED
    BY <1>4, <2>1, <2>5 DEF PutInv, At
<1>16. CASE Receive
  <2>1. /\ Render(tab, Head(down), shown) /\ down' = Tail(down)
        /\ down # << >> /\ UNCHANGED <<up, server, connected>>
    BY <1>16 DEF Receive
  <2>2. view = "settings"
    BY <1>2, <2>1 DEF Render, SettingsInv, SettingsQuiet
  <2>3. /\ Head(down).fc = server.rfc
        /\ \A i \in 1 .. Len(down') : down'[i].fc = server.rfc
    <3>1. /\ Head(down) = down[1] /\ 1 \in 1 .. Len(down)
          /\ Len(down) \in Nat /\ Len(down') = Len(down) - 1
          /\ \A i \in 1 .. Len(down') : down'[i] = down[i + 1]
      BY <1>0, <2>1
    <3>2. \A i \in 1 .. Len(down') : i + 1 \in 1 .. Len(down)
      BY <3>1
    <3>. QED
      BY <1>4, <2>2, <3>1, <3>2
  <2>4. seen'.fc = server.rfc
    BY <1>4, <2>1, <2>2, <2>3 DEF Render
  <2>5. retune' = retune
    <3>1. tab = "settings"
      BY <1>0, <1>3, <2>2 DEF Tabs
    <3>. QED
      BY <2>1, <2>2, <3>1 DEF Render
  <2>. QED
    BY <1>4, <2>1, <2>2, <2>3, <2>4, <2>5 DEF PutInv, At
<1>17. CASE Heartbeat
  <2>1. /\ down' = <<Header>> /\ Header.fc = server.rfc
        /\ UNCHANGED <<view, connected, server, seen, up, retune>>
    BY <1>17 DEF Heartbeat, Header, HeaderOf
  <2>. QED
    BY <1>4, <2>1 DEF PutInv, At
<1>18. CASE Overwritten
  <2>1. /\ down' = Tail(down) /\ down # << >> /\ Len(down) <= 1
        /\ UNCHANGED <<view, connected, server, seen, up, retune>>
    BY <1>18 DEF Overwritten, Inv, TypeOK, WireOK
  <2>2. Len(down) \in Nat /\ Len(down) # 0 /\ Len(Tail(down)) = Len(down) - 1
    BY <1>0, <2>1
  <2>3. Len(down') = 0
    <3>1. Len(down) = 1
      <4>1. \A n \in Nat : n # 0 /\ n <= 1 => n = 1
        OBVIOUS
      <4>. QED
        BY <2>1, <2>2, <4>1
    <3>2. Len(down') = Len(Tail(down))
      BY <2>1
    <3>. QED
      BY <2>2, <3>1, <3>2
  <2>. QED
    BY <1>4, <2>1, <2>3 DEF PutInv, At
<1>19. CASE ControllerCommand
  <2>1. /\ up # << >> /\ server' = After(Head(up), server)
        /\ up' = Tail(up)
        /\ UNCHANGED <<view, connected, down, seen, retune>>
    BY <1>19 DEF ControllerCommand
  <2>2. /\ Head(up) = up[1] /\ 1 \in 1 .. Len(up) /\ Len(up) \in Nat
        /\ up[1] \in Commands /\ Len(up') = Len(up) - 1
        /\ \A i \in 1 .. Len(up') : up'[i] = up[i + 1]
    BY <1>0, <2>1
  <2>3. \A i \in 1 .. Len(up') : i + 1 \in 1 .. Len(up)
    BY <2>2
  <2>4. /\ server'.mode = server.mode /\ server'.smode = server.smode
        /\ server'.fc = server.fc /\ server'.rfc = server.rfc
    <3>1. /\ At(server, server.mode, Band(server.mode))
          /\ up[1].mode = "none" /\ up[1].scan = "none"
          /\ up[1].fc = server.rfc
      BY <1>4, <2>1, <2>2
    <3>2. server' = After(up[1], server)
      BY <2>1, <2>2
    <3>. QED
      BY <1>0, <2>2, <3>1, <3>2, ToldItsOwn
  <2>5. ASSUME NEW i \in 1 .. Len(up')
        PROVE  /\ up'[i].mode = "none" /\ up'[i].scan = "none"
               /\ up'[i].fc = server.rfc
    <3>1. i + 1 \in 1 .. Len(up) /\ up'[i] = up[i + 1]
      BY <2>2, <2>3
    <3>. QED
      BY <1>4, <2>1, <3>1
  <2>. QED
    BY <1>4, <2>1, <2>4, <2>5 DEF PutInv, At
<1>20. CASE ScannerWrites
  BY <1>2, <1>4, <1>20 DEF ScannerWrites, TurnInv
<1>21. CASE UNCHANGED <<page, up, down, server, user>>
  BY <1>4, <1>6, <1>21
<1>. QED
  BY <1>5, <1>7, <1>8, <1>9, <1>10, <1>11, <1>12, <1>13, <1>14, <1>15,
     <1>16, <1>17, <1>18, <1>19, <1>20, <1>21, AsideKeeps DEF Next

\* With a user who waits the timer leaves the dongle where it is, although on
\* AM it sends the frequency of the dongle for that of the station
\* (settings.jsx:27, controller.c:171).
THEOREM TimerStaysPut == BandsFit /\ DongleStays => (Spec => StaysPut)
<1>. SUFFICES ASSUME BandsFit, DongleStays PROVE Spec => StaysPut
  OBVIOUS
<1>1. Init => PutInv
  BY DEF Init, PutInv
<1>2. Init => BusyInv /\ SettingsInv /\ IdleInv /\ TurnInv
  BY BusyInit, IdleInit, TurnInit DEF Init, SettingsInv
<1>3. /\ Inv /\ SettingsInv /\ TurnInv /\ FollowInv /\ PutInv /\ [Next]_vars
      => PutInv'
  BY PutNext
<1>5. Inv /\ IdleInv /\ TurnInv /\ FollowInv /\ [Next]_vars => FollowInv'
  BY FollowNext
<1>4. Inv /\ TurnInv /\ PutInv /\ [Next]_vars
        => [Ours /\ world.patient /\ "disconnect" \notin world.gestures
              /\ view = "settings" => server'.rfc = server.rfc]_vars
  <2>. SUFFICES ASSUME Inv, TurnInv, PutInv, Next, Ours, world.patient,
                       "disconnect" \notin world.gestures, view = "settings"
                PROVE  server'.rfc = server.rfc
    OBVIOUS
  <2>1. up \in Seq(Commands) /\ server \in Servers
    BY DEF Inv, TypeOK, WireOK, ServerOK, Servers
  <2>2. /\ server.smode = "off" /\ At(server, server.mode, Band(server.mode))
        /\ \A i \in 1 .. Len(up) :
             /\ up[i].mode = "none" /\ up[i].scan = "none"
             /\ up[i].fc = server.rfc
    BY DEF PutInv
  <2>3. CASE ControllerCommand
    <3>1. /\ up # << >> /\ server' = After(Head(up), server)
      BY <2>3 DEF ControllerCommand
    <3>2. Head(up) = up[1] /\ 1 \in 1 .. Len(up) /\ up[1] \in Commands
      BY <2>1, <3>1
    <3>. QED
      BY <2>1, <2>2, <3>1, <3>2, ToldItsOwn
  <2>4. ~ScannerWrites
    BY <2>2 DEF ScannerWrites, TurnInv
  <2>6. CASE UNCHANGED <<page, up, down, server, user>>
    BY <2>6
  <2>5. CASE server' = server
    BY <2>5
  <2>. QED
    BY <2>3, <2>4, <2>5, <2>6, AsideKeeps
    DEF Next, receiver, Connect, Disconnect, OnClick, OnMouseDown,
       OnMouseMove, OnMouseUp, OnStation, OnScan, OnChangeSampleRate, Retune,
       Receive, Heartbeat, Overwritten
<1>. QED
  BY <1>1, <1>2, <1>3, <1>4, <1>5, BusyNext, SettingsNext, IdleNext,
     TurnNext, FollowInit, InvHolds, PTL DEF Spec, StaysPut

-----------------------------------------------------------------------------
(* The list keeps up with a scan.  The station of the last heartbeat is on *)
(* the list of the tab it came to; and before the scanner judges again the *)
(* station it has found last is in that heartbeat.                         *)

ListInv == tab \in Modes /\ Recording(hb) => hb.last \in stations[tab]

ReportInv ==
  world.patient /\ world.prompt /\ server.smode = "on" /\ server.last > 0
  /\ due =>
    /\ hb.last = server.last /\ Recording(hb)
    /\ \A i \in 1 .. Len(down) :
         down[i].last = server.last /\ Recording(down[i])

LEMMA ListNext == Inv /\ ListInv /\ [Next]_vars => ListInv'
<1>. SUFFICES ASSUME Inv, ListInv, [Next]_vars PROVE ListInv'
  OBVIOUS
<1>. USE DEF vars, page, user, receiver, Elsewhere
<1>1. ASSUME NEW t, NEW h, NEW f, Render(t, h, f) PROVE ListInv'
  <2>. SUFFICES ASSUME t \in Modes, Recording(h) PROVE h.last \in stations'[t]
    BY <1>1 DEF Render, ListInv, Recording
  <2>1. Renders(t, h)
    BY DEF Renders, Modes
  <2>2. stations' = [stations EXCEPT ![t] = @ \cup {h.last}]
    BY <1>1, <2>1 DEF Render, Recorded
  <2>3. DOMAIN stations = Modes
    BY DEF Inv, TypeOK, PageOK
  <2>. QED
    BY <2>2, <2>3
<1>2. ASSUME UNCHANGED <<tab, hb, stations>> PROVE ListInv'
  BY <1>2 DEF ListInv, Recording
<1>3. CASE Connect
  BY <1>1, <1>3 DEF Connect
<1>4. CASE Disconnect
  BY <1>1, <1>4 DEF Disconnect
<1>5. ASSUME NEW t \in Tabs, OnClick(t) PROVE ListInv'
  BY <1>1, <1>5 DEF OnClick
<1>6. CASE Receive
  BY <1>1, <1>6 DEF Receive
<1>7. CASE UNCHANGED <<page, up, down, server, user>>
  BY <1>2, <1>7
<1>. QED
  BY <1>2, <1>3, <1>4, <1>5, <1>6, <1>7, AsideKeeps
  DEF Next, OnMouseDown, OnMouseMove,
     OnMouseUp, OnStation, OnScan, OnChangeSampleRate, Retune, Heartbeat,
     Overwritten, ControllerCommand, ScannerWrites
LEMMA ReportNext ==
  Inv /\ BusyInv /\ TurnInv /\ ReportInv /\ [Next]_vars => ReportInv'
<1>. SUFFICES ASSUME Inv, BusyInv, TurnInv, ReportInv, [Next]_vars,
                     world'.patient, world'.prompt, server'.smode = "on",
                     server'.last > 0, due'
              PROVE  ReportInv'
  BY DEF ReportInv
<1>. USE DEF vars, page, user, receiver, Elsewhere
<1>0. /\ up \in Seq(Commands) /\ down \in Seq(Heartbeats)
      /\ server \in Servers /\ turn \in Turns
  BY DEF Inv, TypeOK, WireOK, ServerOK, Servers, TurnOK, Turns
<1>1. world' = world /\ world.patient /\ world.prompt
  BY WorldStays
<1>2. server.smode # "off" => up = << >> /\ connected
  BY <1>1 DEF BusyInv, Busy
<1>3. server.smode = "on" /\ server.last > 0 /\ due =>
        /\ hb.last = server.last /\ Recording(hb)
        /\ \A i \in 1 .. Len(down) :
             down[i].last = server.last /\ Recording(down[i])
  BY <1>1 DEF ReportInv
<1>4. ASSUME UNCHANGED <<server, due>>,
             hb' = hb \/ (down # << >> /\ hb' = Head(down)),
             down' = down \/ down' = << >>
               \/ (down # << >> /\ down' = Tail(down))
      PROVE  ReportInv'
  <2>1. /\ hb.last = server.last /\ Recording(hb)
        /\ \A i \in 1 .. Len(down) :
             down[i].last = server.last /\ Recording(down[i])
    BY <1>3, <1>4
  <2>2. hb'.last = server.last /\ Recording(hb')
    <3>1. CASE hb' = hb
      BY <2>1, <3>1
    <3>2. CASE down # << >> /\ hb' = Head(down)
      <4>1. 1 \in 1 .. Len(down) /\ hb' = down[1]
        BY <1>0, <3>2
      <4>. QED
        BY <2>1, <4>1
    <3>. QED
      BY <1>4, <3>1, <3>2
  <2>3. ASSUME NEW i \in 1 .. Len(down')
        PROVE  down'[i].last = server.last /\ Recording(down'[i])
    <3>1. CASE down' = down
      BY <2>1, <2>3, <3>1
    <3>2. CASE down' = << >>
      BY <2>3, <3>2
    <3>3. CASE down # << >> /\ down' = Tail(down)
      <4>1. /\ Len(down) \in Nat /\ Len(down') = Len(down) - 1
            /\ down'[i] = down[i + 1]
        BY <1>0, <2>3, <3>3
      <4>2. i + 1 \in 1 .. Len(down)
        BY <2>3, <4>1
      <4>. QED
        BY <2>1, <4>1, <4>2
    <3>. QED
      BY <1>4, <3>1, <3>2, <3>3
  <2>. QED
    BY <1>4, <2>2, <2>3 DEF ReportInv, Recording
<1>5. CASE Connect
  BY <1>4, <1>5 DEF Connect, Render
<1>6. CASE Disconnect
  BY <1>4, <1>6 DEF Disconnect, Render
<1>7. ASSUME NEW t \in Tabs, OnClick(t) PROVE ReportInv'
  BY <1>4, <1>7 DEF OnClick, Render
<1>8. CASE Receive
  BY <1>4, <1>8 DEF Receive, Render
<1>9. CASE Heartbeat
  <2>1. /\ down' = <<Header>> /\ UNCHANGED <<hb, server, due>>
        /\ Header.last = server.last /\ Header.scanning = TRUE
    BY <1>9 DEF Heartbeat, Header, HeaderOf
  <2>2. Recording(Header)
    BY <2>1 DEF Recording
  <2>. QED
    BY <1>3, <2>1, <2>2 DEF ReportInv, Recording
<1>10. CASE HalfSecond
  <2>1. Told /\ UNCHANGED <<hb, down, server>>
    BY <1>1, <1>10 DEF HalfSecond
  <2>2. hb = Header /\ down = << >>
    BY <1>2, <2>1 DEF Told
  <2>3. Header.last = server.last /\ Header.scanning = TRUE
    BY <2>1 DEF Header, HeaderOf
  <2>4. Recording(Header)
    BY <2>1, <2>3 DEF Recording
  <2>. QED
    BY <2>1, <2>2, <2>3, <2>4 DEF ReportInv, Recording
\* A command that starts a scan forgets what was found.
<1>11. ~ControllerCommand
  <2>. SUFFICES ASSUME ControllerCommand PROVE FALSE
    OBVIOUS
  <2>1. /\ up # << >> /\ server' = After(Head(up), server)
        /\ Head(up) \in Commands
    BY <1>0, HeadTailProperties DEF ControllerCommand
  <2>2. server.smode = "off"
    BY <1>2, <2>1
  <2>3. CASE Head(up).scan = "none"
    BY <1>0, <2>1, <2>2, <2>3, AfterKeepsOff
  <2>4. CASE Head(up).scan # "none"
    BY <1>0, <2>1, <2>4, AfterFacts DEF NoFreq
  <2>. QED
    BY <2>3, <2>4
<1>12. CASE ScannerWrites
  <2>1. /\ server' = Step(turn, server) /\ ~Judges(turn) /\ due
        /\ UNCHANGED <<hb, down>>
    BY <1>12 DEF ScannerWrites
  <2>2. /\ server'.last = server.last
        /\ server'.smode \in {server.smode, "off"}
    BY <1>0, <2>1, StepFacts DEF Stepped
  <2>. QED
    BY <1>3, <2>1, <2>2 DEF ReportInv, Recording
<1>13. CASE UNCHANGED <<hb, down, server, due>>
  BY <1>4, <1>13
<1>. QED
  BY <1>4, <1>5, <1>6, <1>7, <1>8, <1>9, <1>10, <1>11, <1>12, <1>13
     DEF Next, OnMouseDown, OnMouseMove, OnMouseUp, OnStation, OnScan,
         OnChangeSampleRate, Retune, Overwritten, ScannerReadsMode,
         ScannerReadsRest, Measure

\* With a user who waits, a scan does not find another station before the
\* one it found is on the list: the scanner waits half a second at each tick
\* (scanner.c:100), and its station goes into the next heartbeat
\* (controller.c:224, modulations.jsx:44).
THEOREM ScanIsListedInTime == Spec => ListedInTime
<1>1. Init => /\ BusyInv /\ SettingsInv /\ TurnInv
              /\ ListInv /\ ReportInv
  BY BusyInit, TurnInit
     DEF Init, ListInv, SettingsInv, Recording, Start, ReportInv
<1>2. Inv /\ ListInv /\ BusyInv /\ TurnInv /\ ReportInv /\ [Next]_vars
        => [ /\ world.patient /\ world.prompt
             /\ server.smode = "on" /\ server'.smode = "on"
             /\ server.last > 0 /\ server'.last # server.last
             => server.last \in stations[tab] ]_vars
  <2>. SUFFICES ASSUME Inv, ListInv, BusyInv, TurnInv, ReportInv, Next,
                       world.patient, world.prompt, server.smode = "on",
                       server.last > 0, server'.last # server.last
                PROVE  server.last \in stations[tab]
    OBVIOUS
  <2>1. up = << >> /\ connected /\ tab \in Modes
    BY DEF BusyInv, Busy
  <2>2. ScannerWrites
    <3>1. server' # server
      OBVIOUS
    <3>2. ~ControllerCommand
      BY <2>1 DEF ControllerCommand
    <3>3. ~UNCHANGED <<page, up, down, server, user>>
      BY <3>1
    <3>. QED
      BY <3>1, <3>2, <3>3, AsideKeeps DEF Next, receiver, Connect, Disconnect,
         OnClick, OnMouseDown, OnMouseMove, OnMouseUp, OnStation, OnScan,
         OnChangeSampleRate, Retune, Receive, Heartbeat, Overwritten
  <2>3. Judges(turn)
    <3>1. server \in Servers /\ turn \in Turns
      BY DEF Inv, TypeOK, ServerOK, Servers, TurnOK, Turns
    <3>. QED
      BY <2>2, <3>1, StepFacts DEF ScannerWrites, Stepped
  <2>4. due
    BY <2>2, <2>3 DEF TurnInv, Judges, ScannerWrites
  <2>5. Recording(hb) /\ hb.last = server.last
    BY <2>4 DEF ReportInv
  <2>. QED
    BY <2>1, <2>5 DEF ListInv
<1>. QED
  BY <1>1, <1>2, ListNext, ReportNext, BusyNext, TurnNext, SettingsNext,
     InvHolds, PTL DEF Spec, ListedInTime

-----------------------------------------------------------------------------
(* What the cursor shows is where what is on its way brings the server.    *)
(* While a scan is on its way it shows where the scan sets out, and comes  *)
(* back to; while the tab follows a seek it shows the heartbeat before     *)
(* last, and in the end the one before the last, which is the last one.    *)
(* When the scanner may judge, the page knows where a seek is, or that is  *)
(* still where the cursor is.                                              *)

Seeks(o) == o \in {"up", "down"}

\* The users for whom it is so.
Steady ==
  /\ world.gestures \cap {"press", "disconnect"} = {}
  /\ world.patient \/ world.gestures \cap {"scan", "seek", "rate"} = {}
  /\ "seek" \in world.gestures => world.prompt

\* The scanner is in no mode without a button pressed.
Pressed(o) ==
  \/ o \in {"off", "none"}
  \/ (IF o = "on" THEN "scan" ELSE "seek") \in world.gestures

PressedInv ==
  /\ Pressed(server.smode) /\ \A i \in 1 .. Len(up) : Pressed(up[i].scan)
  /\ hb.seeking \/ seen.seeking \/ (\E i \in 1 .. Len(down) : down[i].seeking)
       => "seek" \in world.gestures
  /\ view \in Modes \/ "rate" \notin world.gestures => retune = NoTimer
  /\ dragging # "press"

UntouchedInv ==
  ~connected =>
    /\ tab = "fm" /\ shown = Default["fm"] /\ server = Start(world.left)
    /\ up = << >> /\ down = << >> /\ ~seen.seeking /\ ~opened

SeekSeen == seen.seeking \/ \E i \in 1 .. Len(down) : down[i].seeking

SeekingInv ==
  /\ SeekSeen =>
       server.smode # "on" /\ up = << >> /\ dragging = "no" /\ tab \in Modes
  /\ server.smode = "off" \/ due =>
       /\ seen.seeking => seen.fc = server.rfc
       /\ \A i \in 1 .. Len(down) :
            down[i].seeking => down[i].fc = server.rfc
  /\ Seeks(server.smode) /\ seen.seeking =>
       \A i \in 1 .. Len(down) : down[i].seeking

\* The AM tab does not follow a seek.
CursorInv ==
  /\ Ours /\ connected /\ view \in Modes
  /\ "seek" \in world.gestures => view = "fm"
  =>
    /\ dragging = "moved" => targetFreq = shown /\ shown \in Band(view)
    /\ dragging # "moved" /\ server.smode = "off" /\ ~seen.seeking =>
         shown \in Band(view) /\ Lands(up, server, view, {shown})
    /\ Seeks(server.smode) /\ ~seen.seeking /\ due =>
         shown \in Band(view) /\ At(server, view, {shown})
    /\ server.smode = "on" =>
         /\ shown \in Band(view)
         /\ \/ server.from < 0 /\ At(server, view, {shown})
            \/ server.from = Hz(view, shown)

ShownInv ==
  Steady => PressedInv /\ UntouchedInv /\ SeekingInv /\ CursorInv

\* A step that does not judge leaves the server where it is; the first one
\* remembers where that is.
LEMMA StepWaits ==
  ASSUME NEW t \in Turns, NEW s \in Servers, ~Judges(t)
  PROVE  /\ Step(t, s).fc = s.fc /\ Step(t, s).rfc = s.rfc
         /\ Step(t, s).mode = s.mode /\ Step(t, s).smode = s.smode
         /\ Step(t, s).from = IF t.just THEN t.fc ELSE s.from
<1>1. CASE t.just /\ Step(t, s) = [s EXCEPT !.from = t.fc]
  BY <1>1, ServerIs
<1>2. CASE ~t.just /\ Step(t, s) = s
  BY <1>2
<1>. QED
  BY <1>1, <1>2, StepIs

\* A seek stops where it is.
LEMMA SeekStops ==
  ASSUME NEW t \in Turns, NEW s \in Servers, Seeks(t.smode)
  PROVE  \/ Step(t, s).smode = s.smode
         \/ /\ Step(t, s).smode = "off" /\ Judges(t)
            /\ Step(t, s).fc = s.fc /\ Step(t, s).rfc = s.rfc
            /\ Step(t, s).mode = s.mode
<1>1. ASSUME NEW w, NEW f, IsNext(t, f), Judges(t),
             Step(t, s) = Seek(t, s, w, f)
      PROVE  \/ Step(t, s).smode = s.smode
             \/ /\ Step(t, s).smode = "off" /\ Judges(t)
                /\ Step(t, s).fc = s.fc /\ Step(t, s).rfc = s.rfc
                /\ Step(t, s).mode = s.mode
  BY <1>1, SeekSteps
<1>2. CASE ~Judges(t)
  BY <1>2, StepWaits
<1>3. t.smode # "on"
  BY DEF Seeks
<1>4. CASE Judges(t) /\ Step(t, s) = Seek(t, s, Up(t) > Top(t), UpNext(t))
  BY <1>1, <1>4, NextFacts
<1>5. CASE Judges(t)
           /\ Step(t, s) = Seek(t, s, Down(t) < Bottom(t), DownNext(t))
  BY <1>1, <1>5, NextFacts
<1>6. CASE Judges(t) /\ Step(t, s) = s
  BY <1>6
<1>7. CASE t.just
  BY <1>2, <1>7 DEF Judges
<1>. QED
  BY <1>2, <1>3, <1>4, <1>5, <1>6, <1>7, StepIs

\* The ticks of a band are a step apart.
LEMMA TicksAStepApart ==
  ASSUME NEW m \in Modes, NEW t \in Band(m), NEW u \in Band(m),
         Hz(m, t) < Hz(m, u), Hz(m, u) <= Hz(m, t) + Hz(m, TickStep(m))
  PROVE  Hz(m, u) = Hz(m, t) + Hz(m, TickStep(m))
<1>1. BandMin[m] \in Nat /\ BandMax[m] \in Nat
  BY ConstantsAssumption
<1>2. PICK i \in Int : t = BandMin[m] + i * TickStep(m)
  BY DEF Band
<1>3. PICK j \in Int : u = BandMin[m] + j * TickStep(m)
  BY DEF Band
<1>4. CASE m = "fm"
  BY SMT, <1>1, <1>2, <1>3, <1>4 DEF TickStep, Hz, PerHundredth
<1>5. CASE m = "am"
  BY SMT, <1>1, <1>2, <1>3, <1>5 DEF TickStep, Hz, PerHundredth
<1>. QED
  BY <1>4, <1>5 DEF Modes

\* A scan ends where it set out.
LEMMA ScanReturns ==
  ASSUME NEW t \in Turns, NEW s \in Servers, t.at = "rest", Copies(t, s),
         Judges(t), s.smode = "on", NEW m \in Modes, At(s, m, Band(m)),
         NEW w \in Band(m), s.from = Hz(m, w)
  PROVE  /\ Step(t, s).from = s.from /\ Step(t, s).smode \in {"on", "off"}
         /\ Step(t, s).smode = "off" => At(Step(t, s), m, {w})
<1>1. /\ s.mode = m /\ s.from \in Nat
      /\ t.mode = m /\ t.fc = s.fc /\ t.step = Hz(m, TickStep(m))
      /\ t.smode = "on"
  BY TickAccepted DEF At, Copies
<1>2. PICK u \in Band(m) : t.fc = Hz(m, u)
  BY <1>1 DEF At
<1>. DEFINE f == UpNext(t)
<1>7. Step(t, s) = ScanOn(t, s)
  BY Zenon, <1>1, StepIs DEF Judges
<1>3. /\ Step(t, s).fc = f /\ Step(t, s).rfc = f + Offset[m]
      /\ Step(t, s).mode = m /\ Step(t, s).from = s.from
      /\ Step(t, s).smode =
           IF (Up(t) > Top(t) \/ t.fc < s.from) /\ s.from <= f
           THEN "off" ELSE "on"
  BY <1>1, <1>7, ScanSteps
<1>4. /\ Up(t) = Hz(m, u) + Hz(m, TickStep(m))
      /\ Bottom(t) = Hz(m, BandMin[m])
  BY <1>1, <1>2 DEF Up, Bottom
<1>5. Hz(m, BandMin[m]) <= s.from /\ Hz(m, BandMin[m]) \in Nat
  BY <1>1, TickAccepted, BandFacts DEF InBand
<1>6. ASSUME Step(t, s).smode = "off" PROVE s.from = f
  <2>1. (Up(t) > Top(t) \/ t.fc < s.from) /\ s.from <= f
    BY <1>3, <1>6
  <2>2. CASE Up(t) > Top(t)
    BY <1>1, <1>4, <1>5, <2>1, <2>2 DEF UpNext
  <2>3. CASE ~(Up(t) > Top(t))
    <3>1. f = Up(t)
      BY <2>3 DEF UpNext
    <3>. QED
      BY <1>1, <1>2, <1>4, <2>1, <2>3, <3>1, TicksAStepApart
  <2>. QED
    BY <2>2, <2>3
<1>. HIDE DEF f
<1>. QED
  BY <1>3, <1>6 DEF At

\* The scanner has a turn only with a user who waits, and has read what
\* still holds.
LEMMA TurnKnown ==
  ASSUME Steady, IdleInv, TurnInv, turn.at # "out"
  PROVE  /\ world.patient /\ server.smode # "off" /\ Copies(turn, server)
         /\ turn.due => due
  BY DEF Steady, IdleInv, TurnInv

LEMMA SteadyIsCalm == Steady => Calm
  BY DEF Steady, Calm

\* Page and server come to agree by a click on a tab that was not there.
LEMMA OursStays ==
  ASSUME [Next]_vars, Ours', ~Ours
  PROVE  \E t \in Modes : OnClick(t) /\ t # view
<1>. USE DEF vars, page, user, receiver, Elsewhere
<1>1. world' = world
  BY WorldStays
<1>2. ~(opened' <=> opened)
  BY <1>1 DEF Ours
<1>3. ASSUME NEW t \in Tabs, OnClick(t), ~(t \in Modes /\ t # view)
      PROVE  opened' <=> opened
  BY Zenon, <1>3 DEF OnClick
<1>4. PICK t \in Tabs : OnClick(t)
  <2>1. ~UNCHANGED <<page, up, down, server, user>>
    BY <1>2
  <2>. QED
    BY <1>2, <2>1, AsideKeeps
       DEF Next, Connect, Disconnect, OnMouseDown, OnMouseMove, OnMouseUp,
           OnStation, OnScan, OnChangeSampleRate, Retune, Receive, Heartbeat,
           Overwritten, ControllerCommand, ScannerWrites
<1>. QED
  BY <1>2, <1>3, <1>4

LEMMA SteadyFacts ==
  ASSUME Steady
  PROVE  /\ "press" \notin world.gestures /\ "disconnect" \notin world.gestures
         /\ "scan" \in world.gestures => world.patient
         /\ "seek" \in world.gestures => world.patient /\ world.prompt
         /\ "rate" \in world.gestures => world.patient
         /\ \A o : Pressed(o) /\ o \notin {"off", "none"} => world.patient
         /\ \A o : Pressed(o) /\ Seeks(o) => "seek" \in world.gestures
  BY DEF Steady, Pressed, Seeks

\* When the user does something the scanner is off, and the page knows.
LEMMA GestureQuiet ==
  ASSUME Inv, Steady, PressedInv, UntouchedInv, NEW g, Gesture(g)
  PROVE  /\ server.smode = "off" /\ ~SeekSeen /\ ~hb.seeking
         /\ ~seen.seeking /\ dragging = "no"
         /\ connected => retune = NoTimer \/ "rate" \notin world.gestures
<1>1. g \in world.gestures /\ dragging = "no"
      /\ (connected /\ world.patient => Settled)
  BY DEF Gesture
<1>2. server.smode \in {"off", "on", "up", "down"}
  BY DEF Inv, TypeOK, ServerOK
<1>3. CASE connected /\ world.patient
  <2>1. Settled
    BY <1>1, <1>3
  <2>2. /\ server.smode = "off" /\ hb = Header /\ seen = hb
        /\ retune = NoTimer /\ Len(down) = 0
    BY <2>1 DEF Settled
  <2>3. ~Header.seeking
    BY <2>2 DEF Header, HeaderOf
  <2>. QED
    BY <1>1, <2>2, <2>3 DEF SeekSeen
<1>4. CASE ~connected
  <2>1. /\ tab = "fm" /\ server = Start(world.left) /\ ~seen.seeking
        /\ Len(down) = 0
    BY <1>4 DEF UntouchedInv
  <2>2. seen = hb
    BY <2>1 DEF Inv, ViewInv, Modes
  <2>3. server.smode = "off"
    BY <2>1 DEF Start
  <2>. QED
    BY <1>1, <1>4, <2>1, <2>2, <2>3 DEF SeekSeen
<1>5. CASE ~world.patient
  <2>1. /\ "seek" \notin world.gestures /\ "rate" \notin world.gestures
        /\ \A o : Pressed(o) => o \in {"off", "none"}
    BY <1>5, SteadyFacts
  <2>. QED
    BY <1>1, <1>2, <2>1 DEF PressedInv, SeekSeen
<1>. QED
  BY <1>3, <1>4, <1>5

\* What is sent without a button.
LEMMA SendPressed ==
  ASSUME up \in Seq(Commands), \A i \in 1 .. Len(up) : Pressed(up[i].scan),
         NEW b \in Seq(Commands), \A i \in 1 .. Len(b) : Pressed(b[i].scan)
  PROVE  \A i \in 1 .. Len(up \o b) : Pressed((up \o b)[i].scan)
<1>. SUFFICES ASSUME NEW i \in 1 .. Len(up \o b)
              PROVE  Pressed((up \o b)[i].scan)
  OBVIOUS
<1>1. /\ Len(up \o b) = Len(up) + Len(b)
      /\ Len(up) \in Nat /\ Len(b) \in Nat
      /\ i <= Len(up) => (up \o b)[i] = up[i]
      /\ i > Len(up) => (up \o b)[i] = b[i - Len(up)]
  BY ConcatIs
<1>2. CASE i <= Len(up)
  BY <1>1, <1>2
<1>3. CASE i > Len(up)
  <2>1. i - Len(up) \in 1 .. Len(b)
    BY <1>1, <1>3
  <2>. QED
    BY <1>1, <1>3, <2>1
<1>. QED
  BY <1>1, <1>2, <1>3

LEMMA NoScanPressed ==
  ASSUME NEW b \in Seq(Commands), NoScan(b)
  PROVE  \A i \in 1 .. Len(b) : Pressed(b[i].scan)
  BY DEF NoScan, Pressed

LEMMA PressedNext ==
  ASSUME Inv, Steady, PressedInv, UntouchedInv, Next
  PROVE  PressedInv'
<1>. USE DEF vars, page, user, receiver, Elsewhere
<1>0. /\ up \in Seq(Commands) /\ down \in Seq(Heartbeats)
      /\ server \in Servers /\ tab \in Tabs /\ view \in Tabs
      /\ tab \in Modes => view = tab
  BY DEF Inv, TypeOK, WireOK, ServerOK, PageOK, Servers
<1>1. world' = world /\ \A o : Pressed(o)' <=> Pressed(o)
  BY WorldStays DEF Pressed
<1>2. /\ Pressed(server.smode) /\ \A i \in 1 .. Len(up) : Pressed(up[i].scan)
      /\ (hb.seeking \/ seen.seeking
            \/ (\E i \in 1 .. Len(down) : down[i].seeking))
           => "seek" \in world.gestures
      /\ view \in Modes \/ "rate" \notin world.gestures => retune = NoTimer
      /\ dragging # "press"
  BY DEF PressedInv
<1>3. ASSUME NEW b \in Seq(Commands), NoScan(b),
             up' = up \o b \/ up' = up
      PROVE  \A i \in 1 .. Len(up') : Pressed(up'[i].scan)
  BY <1>0, <1>2, <1>3, SendPressed, NoScanPressed
<1>4. \A f \in Int : SetCenterFreq(f) \in Seq(Commands)
                       /\ NoScan(SetCenterFreq(f))
  BY SentFacts DEF Modes
<1>5. \A m \in Modes : \A t \in Nat : Hz(m, t) \in Int
  BY HzFacts
\* Render shows the heartbeat it is given or the one before, and the timer
\* is kept.
<1>6. ASSUME NEW t, NEW h, NEW f, Render(t, h, f),
             h.seeking => "seek" \in world.gestures
      PROVE  hb'.seeking \/ seen'.seeking => "seek" \in world.gestures
  BY <1>2, <1>6 DEF Render
<1>7. ASSUME NEW h, NEW f, Render(tab, h, f)
      PROVE  view' \in Modes \/ "rate" \notin world.gestures
               => retune' = NoTimer
  <2>1. CASE view \in Modes
    BY <1>2, <1>7, <2>1 DEF Render, Live, NoTimer, Modes
  <2>2. CASE view \notin Modes
    BY <1>0, <1>2, <1>7, <2>2 DEF Render, Live, NoTimer, Tabs
  <2>. QED
    BY <2>1, <2>2
<1>8. CASE Connect
  <2>. DEFINE b == SetCenterFreq(Hz("fm", Default["fm"]))
  <2>1. /\ Render(tab, hb, shown) /\ up' = up \o b
        /\ UNCHANGED <<dragging, down, server>>
    BY <1>8 DEF Connect
  <2>2. b \in Seq(Commands) /\ NoScan(b)
    <3>1. "fm" \in Modes /\ Default["fm"] \in Nat
      BY BandFacts DEF Modes
    <3>. QED
      BY <1>4, <1>5, <3>1
  <2>. HIDE DEF b
  <2>3. \A i \in 1 .. Len(up') : Pressed(up'[i].scan)
    BY <1>3, <2>1, <2>2
  <2>4. hb'.seeking \/ seen'.seeking => "seek" \in world.gestures
    BY <1>2, <1>6, <2>1
  <2>. QED
    BY <1>1, <1>2, <1>7, <2>1, <2>3, <2>4 DEF PressedInv
<1>9. ~Disconnect
  BY SteadyFacts DEF Disconnect, Gesture
<1>10. ASSUME NEW t \in Tabs, OnClick(t) PROVE PressedInv'
  <2>. DEFINE b == IF t \in Modes THEN SetMode(t) \o Mounts(t) ELSE << >>
  <2>1. /\ Render(t, hb, shown) /\ up' = up \o b
        /\ connected /\ UNCHANGED <<dragging, down, server>>
    BY <1>10 DEF OnClick, Send
  <2>2. b \in Seq(Commands) /\ NoScan(b)
    <3>1. t \in Modes => /\ SetMode(t) \in Seq(Commands) /\ NoScan(SetMode(t))
                         /\ Mounts(t) \in Seq(Commands) /\ NoScan(Mounts(t))
      BY SentFacts, MountFacts
    <3>2. << >> \in Seq(Commands) /\ NoScan(<< >>)
      BY DEF NoScan
    <3>. QED
      BY <3>1, <3>2, ConcatFacts
  <2>. HIDE DEF b
  <2>3. \A i \in 1 .. Len(up') : Pressed(up'[i].scan)
    BY <1>3, <2>1, <2>2
  <2>4. hb'.seeking \/ seen'.seeking => "seek" \in world.gestures
    BY <1>2, <1>6, <2>1
  <2>5. retune' = NoTimer
    <3>1. retune = NoTimer
      BY <1>2, <1>10, <2>1, GestureQuiet DEF OnClick
    <3>. QED
      BY <2>1, <3>1 DEF Render, Live, NoTimer
  <2>. QED
    BY <1>1, <1>2, <2>1, <2>3, <2>4, <2>5 DEF PressedInv
<1>11. ASSUME NEW g, OnMouseDown(g) PROVE PressedInv'
  <2>1. g # "press"
    BY <1>11, SteadyFacts DEF OnMouseDown, Gesture
  <2>. QED
    BY <1>1, <1>2, <1>11, <2>1 DEF OnMouseDown, PressedInv
<1>12. ASSUME NEW t, OnMouseMove(t) PROVE PressedInv'
  BY <1>1, <1>2, <1>12 DEF OnMouseMove, PressedInv
\* A frequency is sent.
<1>13. ASSUME NEW f \in Int, Send(SetCenterFreq(f)), dragging' # "press",
              retune' = retune \/ retune' = NoTimer,
              UNCHANGED <<view, hb, seen, down, server>>
       PROVE  PressedInv'
  <2>1. \A i \in 1 .. Len(up') : Pressed(up'[i].scan)
    BY <1>3, <1>4, <1>13 DEF Send
  <2>. QED
    BY <1>1, <1>2, <1>13, <2>1 DEF PressedInv
<1>14. CASE OnMouseUp
  <2>1. targetFreq \in Nat /\ view \in Modes
    BY <1>14 DEF OnMouseUp, Inv, TypeOK, PageOK
  <2>. QED
    BY <1>5, <1>13, <1>14, <2>1 DEF OnMouseUp
<1>15. ASSUME NEW m \in Modes, NEW t \in Band(m), OnStation(t)
       PROVE  PressedInv'
  <2>1. t \in Nat /\ view \in Modes
    BY <1>15, BandFacts DEF OnStation
  <2>. QED
    BY <1>2, <1>5, <1>13, <1>15, <2>1 DEF OnStation
<1>16. ASSUME NEW s \in {"on", "up", "down"}, OnScan(s) PROVE PressedInv'
  <2>1. /\ UNCHANGED <<page, down, server>> /\ up' = up \o SetScan(s)
        /\ (IF s = "on" THEN "scan" ELSE "seek") \in world.gestures
    BY <1>16 DEF OnScan, Send, Gesture
  <2>2. SetScan(s) \in Seq(Commands)
        /\ \A i \in 1 .. Len(SetScan(s)) : SetScan(s)[i].scan = s
    BY SentFacts DEF SetScan, Command, Modes
  <2>3. \A i \in 1 .. Len(up') : Pressed(up'[i].scan)
    BY <1>0, <1>2, <2>1, <2>2, SendPressed DEF Pressed
  <2>. QED
    BY <1>1, <1>2, <2>1, <2>3 DEF PressedInv
<1>17. CASE OnChangeSampleRate
  <2>1. "rate" \in world.gestures /\ view' = "settings"
    BY <1>17 DEF OnChangeSampleRate, Gesture
  <2>2. "settings" \notin Modes
    BY DEF Modes
  <2>. QED
    BY <1>1, <1>2, <1>17, <2>1, <2>2 DEF OnChangeSampleRate, PressedInv
<1>18. CASE Retune
  <2>1. (IF retune = Live THEN seen.fc ELSE retune) \in Int
    BY DEF Inv, TypeOK, PageOK, Heartbeats
  <2>. QED
    BY <1>2, <1>13, <1>18, <2>1 DEF Retune
<1>19. CASE Receive
  <2>1. /\ Render(tab, Head(down), shown) /\ down' = Tail(down)
        /\ down # << >> /\ UNCHANGED <<up, server, dragging>>
    BY <1>19 DEF Receive
  <2>2. /\ Head(down) = down[1] /\ 1 \in 1 .. Len(down) /\ Len(down) \in Nat
        /\ Len(down') = Len(down) - 1
        /\ \A i \in 1 .. Len(down') : down'[i] = down[i + 1]
    BY <1>0, <2>1
  <2>3. \A i \in 1 .. Len(down') : i + 1 \in 1 .. Len(down)
    BY <2>2
  <2>4. (\E i \in 1 .. Len(down') : down'[i].seeking)
          => "seek" \in world.gestures
    BY <1>2, <2>2, <2>3
  <2>5. hb'.seeking \/ seen'.seeking => "seek" \in world.gestures
    BY <1>2, <1>6, <2>1, <2>2
  <2>. QED
    BY <1>1, <1>2, <1>7, <2>1, <2>4, <2>5 DEF PressedInv
<1>20. CASE Heartbeat
  <2>1. /\ down' = <<Header>>
        /\ UNCHANGED <<page, up, server>>
    BY <1>20 DEF Heartbeat
  <2>2. Header.seeking => "seek" \in world.gestures
    BY <1>2, SteadyFacts DEF Header, HeaderOf, Seeks
  <2>3. Len(down') = 1 /\ down'[1] = Header
    BY <2>1
  <2>4. (\E i \in 1 .. Len(down') : down'[i].seeking)
          => "seek" \in world.gestures
    BY <2>2, <2>3
  <2>. QED
    BY <1>1, <1>2, <2>1, <2>4 DEF PressedInv
<1>21. CASE Overwritten
  <2>1. /\ down' = Tail(down) /\ down # << >> /\ UNCHANGED <<page, up, server>>
    BY <1>21 DEF Overwritten
  <2>2. /\ Len(down) \in Nat /\ Len(down') = Len(down) - 1
        /\ \A i \in 1 .. Len(down') : down'[i] = down[i + 1]
    BY <1>0, <2>1
  <2>3. \A i \in 1 .. Len(down') : i + 1 \in 1 .. Len(down)
    BY <2>2
  <2>4. (\E i \in 1 .. Len(down') : down'[i].seeking)
          => "seek" \in world.gestures
    BY <1>2, <2>2, <2>3
  <2>. QED
    BY <1>1, <1>2, <2>1, <2>4 DEF PressedInv
<1>22. CASE ControllerCommand
  <2>1. /\ up # << >> /\ server' = After(Head(up), server)
        /\ up' = Tail(up) /\ UNCHANGED <<page, down>>
    BY <1>22 DEF ControllerCommand
  <2>2. /\ Head(up) = up[1] /\ 1 \in 1 .. Len(up) /\ Len(up) \in Nat
        /\ up[1] \in Commands /\ Len(up') = Len(up) - 1
        /\ \A i \in 1 .. Len(up') : up'[i] = up[i + 1]
    BY <1>0, <2>1
  <2>3. \A i \in 1 .. Len(up') : i + 1 \in 1 .. Len(up)
    BY <2>2
  <2>4. \A i \in 1 .. Len(up') : Pressed(up'[i].scan)
    BY <1>2, <2>2, <2>3
  <2>5. server'.smode = server.smode \/ server'.smode = up[1].scan
    BY <1>0, <2>1, <2>2, AfterFacts
  <2>6. Pressed(server'.smode)
    BY <1>2, <2>2, <2>5
  <2>. QED
    BY <1>1, <1>2, <2>1, <2>4, <2>6 DEF PressedInv
<1>23. CASE ScannerWrites
  <2>1. server' = Step(turn, server) /\ UNCHANGED <<page, up, down>>
    BY <1>23 DEF ScannerWrites
  <2>4. turn \in Turns
    BY DEF Inv, TypeOK, TurnOK, Turns
  <2>2. server'.smode = server.smode \/ server'.smode = "off"
    BY <1>0, <2>1, <2>4, StepFacts DEF Stepped
  <2>3. Pressed(server'.smode)
    BY <1>2, <2>2 DEF Pressed
  <2>. QED
    BY <1>1, <1>2, <2>1, <2>3 DEF PressedInv
<1>24. CASE UNCHANGED <<page, up, down, server, user>>
  BY <1>1, <1>2, <1>24 DEF PressedInv
<1>. QED
  BY <1>8, <1>9, <1>10, <1>11, <1>12, <1>14, <1>15, <1>16, <1>17, <1>18,
     <1>19, <1>20, <1>21, <1>22, <1>23, <1>24, AsideKeeps DEF Next

\* Before there is a connection nothing but the tick to drag to changes.
LEMMA UntouchedNext ==
  ASSUME Inv, Steady, PressedInv, IdleInv, TurnInv, UntouchedInv, Next
  PROVE  UntouchedInv'
<1>. SUFFICES ASSUME ~connected' PROVE UntouchedInv'
  BY DEF UntouchedInv
<1>. USE DEF vars, page, user, receiver, Elsewhere
<1>0. world' = world
  BY WorldStays
<1>1. ~Disconnect /\ ~Connect
  BY SteadyFacts DEF Disconnect, Connect, Gesture
<1>6. CASE UNCHANGED <<page, up, down, server, user>>
  BY <1>6 DEF UntouchedInv
<1>7. CASE ~UNCHANGED <<page, up, down, server, user>>
  <2>2. ~connected
    BY <1>1, <1>7, AsideKeeps DEF Next, OnClick, OnMouseDown, OnMouseMove,
       OnMouseUp, OnStation, OnScan, OnChangeSampleRate, Retune, Receive,
       Heartbeat, Overwritten, ControllerCommand, ScannerWrites
  <2>3. /\ tab = "fm" /\ shown = Default["fm"] /\ server = Start(world.left)
        /\ up = << >> /\ down = << >> /\ ~seen.seeking /\ ~opened
    BY <2>2 DEF UntouchedInv
  <2>4. server.smode = "off" /\ retune = NoTimer
    BY <2>3 DEF Start, PressedInv, Inv, ViewInv, Modes
  <2>5. ~ScannerWrites
    BY <2>4, TurnKnown DEF ScannerWrites
  <2>6. UNCHANGED <<tab, shown, server, up, down, seen, opened>>
    BY <1>1, <1>7, <2>2, <2>3, <2>4, <2>5, AsideKeeps
       DEF Next, OnClick, OnMouseDown, OnMouseMove, OnMouseUp, OnStation,
           OnScan, OnChangeSampleRate, Retune, Receive, Heartbeat,
           Overwritten, ControllerCommand, Send
  <2>. QED
    BY <1>0, <2>3, <2>6 DEF UntouchedInv
<1>. QED
  BY <1>6, <1>7

LEMMA SeekingNext ==
  ASSUME Inv, BusyInv, IdleInv, TurnInv, Steady, PressedInv, UntouchedInv,
         SeekingInv, Next
  PROVE  SeekingInv'
<1>. USE DEF vars, page, user, receiver, Elsewhere
<1>0. /\ up \in Seq(Commands) /\ down \in Seq(Heartbeats)
      /\ server \in Servers /\ tab \in Tabs /\ view \in Tabs
      /\ tab \in Modes => view = tab /\ seen = hb
      /\ server.smode \in {"off", "on", "up", "down"}
      /\ turn \in Turns /\ Len(down) <= 1
  BY DEF Inv, TypeOK, WireOK, ServerOK, PageOK, ViewInv, Servers, TurnOK,
         Turns
<1>1. /\ SeekSeen => /\ server.smode # "on" /\ up = << >>
                     /\ dragging = "no" /\ tab \in Modes
      /\ server.smode = "off" \/ due =>
           /\ seen.seeking => seen.fc = server.rfc
           /\ \A i \in 1 .. Len(down) :
                down[i].seeking => down[i].fc = server.rfc
      /\ Seeks(server.smode) /\ seen.seeking =>
           \A i \in 1 .. Len(down) : down[i].seeking
  BY DEF SeekingInv
<1>2. /\ server.smode # "off" => world.patient
      /\ Seeks(server.smode) => world.prompt
  <2>1. Pressed(server.smode)
    BY DEF PressedInv
  <2>2. server.smode # "off" => server.smode \notin {"off", "none"}
    BY <1>0
  <2>. QED
    BY <2>1, <2>2, SteadyFacts
<1>3. server.smode # "off" =>
        /\ up = << >> /\ connected /\ tab \in Modes /\ dragging = "no"
  BY <1>2 DEF BusyInv, Busy
\* Nothing is seen of a seek.
<1>4. ASSUME down' = down, ~seen'.seeking, ~SeekSeen PROVE SeekingInv'
  BY <1>4 DEF SeekingInv, SeekSeen
<1>5. ASSUME UNCHANGED <<server, seen, up, dragging, tab, down>>, due' => due
      PROVE  SeekingInv'
  BY <1>1, <1>5 DEF SeekingInv, SeekSeen
<1>6. ASSUME NEW t, NEW h, NEW f, Render(t, h, f), ~h.seeking, ~seen.seeking
      PROVE  ~seen'.seeking
  BY <1>6 DEF Render
<1>7. CASE Connect
  <2>1. ~seen.seeking /\ ~hb.seeking /\ Len(down) = 0 /\ down' = down
    BY <1>0, <1>7 DEF Connect, UntouchedInv, Modes
  <2>2. ~seen'.seeking
    BY <1>6, <1>7, <2>1 DEF Connect
  <2>. QED
    BY <1>4, <2>1, <2>2 DEF SeekSeen
<1>8. ~Disconnect
  BY SteadyFacts DEF Disconnect, Gesture
<1>9. ASSUME NEW t \in Tabs, OnClick(t) PROVE SeekingInv'
  <2>1. ~SeekSeen /\ ~seen.seeking /\ ~hb.seeking
    BY <1>9, GestureQuiet DEF OnClick
  <2>. QED
    BY <1>4, <1>6, <1>9, <2>1 DEF OnClick
<1>10. ASSUME NEW g, OnMouseDown(g) PROVE SeekingInv'
  BY <1>4, <1>10, GestureQuiet DEF OnMouseDown
<1>11. ASSUME NEW t, OnMouseMove(t) PROVE SeekingInv'
  <2>1. ~SeekSeen
    BY <1>1, <1>11 DEF OnMouseMove
  <2>. QED
    BY <1>4, <1>11, <2>1 DEF OnMouseMove, SeekSeen
<1>12. CASE OnMouseUp
  <2>1. ~SeekSeen
    BY <1>1, <1>12 DEF OnMouseUp
  <2>. QED
    BY <1>4, <1>12, <2>1 DEF OnMouseUp, SeekSeen
<1>13. ASSUME NEW t, OnStation(t) PROVE SeekingInv'
  BY <1>4, <1>13, GestureQuiet DEF OnStation
<1>14. ASSUME NEW s, OnScan(s) PROVE SeekingInv'
  BY <1>4, <1>14, GestureQuiet DEF OnScan
<1>15. CASE OnChangeSampleRate
  BY <1>4, <1>15, GestureQuiet DEF OnChangeSampleRate
<1>16. CASE Retune
  <2>1. tab \notin Modes
    BY <1>0, <1>16 DEF Retune, PressedInv
  <2>2. ~SeekSeen
    BY <1>1, <2>1
  <2>. QED
    BY <1>4, <1>16, <2>2 DEF Retune, SeekSeen
<1>17. CASE Receive
  <2>1. /\ Render(tab, Head(down), shown) /\ down' = Tail(down)
        /\ down # << >> /\ UNCHANGED <<up, server, dragging, due>>
    BY <1>17 DEF Receive
  <2>2. /\ Head(down) = down[1] /\ 1 \in 1 .. Len(down)
        /\ Len(down') = 0 /\ tab' = tab
    <3>1. Len(down) = 1
      <4>1. Len(down) \in Nat /\ Len(down) # 0
        BY <1>0, <2>1, EmptySeq
      <4>2. \A n \in Nat : n # 0 /\ n <= 1 => n = 1
        OBVIOUS
      <4>. QED
        BY <1>0, <4>1, <4>2
    <3>2. Head(down) = down[1] /\ Len(Tail(down)) = 0
      BY <1>0, <2>1, <3>1
    <3>. QED
      BY <2>1, <3>1, <3>2 DEF Render
  <2>3. seen' = seen \/ seen' = down[1]
    BY <2>1, <2>2 DEF Render
  <2>4. SeekSeen' => SeekSeen
    BY <2>2, <2>3 DEF SeekSeen
  <2>5. server.smode = "off" \/ due => (seen'.seeking => seen'.fc = server.rfc)
    BY <1>1, <2>2, <2>3
  <2>6. \A i \in 1 .. Len(down') : FALSE
    BY <2>2
  <2>7. SeekSeen' => /\ server'.smode # "on" /\ up' = << >>
                     /\ dragging' = "no" /\ tab' \in Modes
    BY <1>1, <2>1, <2>2, <2>4
  <2>. QED
    BY <2>1, <2>5, <2>6, <2>7 DEF SeekingInv
<1>18. CASE Heartbeat
  <2>1. down' = <<Header>> /\ UNCHANGED <<page, up, server, due>>
    BY <1>18 DEF Heartbeat
  <2>2. Len(down') = 1 /\ down'[1] = Header
    BY <2>1
  <2>3. Header.fc = server.rfc /\ (Header.seeking <=> Seeks(server.smode))
    BY DEF Header, HeaderOf, Seeks
  <2>4. SeekSeen' => SeekSeen \/ Seeks(server.smode)
    BY <2>1, <2>2, <2>3 DEF SeekSeen
  <2>5. SeekSeen' => /\ server.smode # "on" /\ up = << >>
                     /\ dragging = "no" /\ tab \in Modes
    BY <1>1, <1>3, <2>4 DEF Seeks
  <2>6. \A i \in 1 .. Len(down') : down'[i] = Header
    BY <2>2
  <2>. QED
    BY <1>1, <2>1, <2>3, <2>5, <2>6 DEF SeekingInv
<1>19. CASE Overwritten
  <2>1. /\ down' = Tail(down) /\ down # << >>
        /\ UNCHANGED <<page, up, server, due>>
    BY <1>19 DEF Overwritten
  <2>2. Len(down') = 0
    <3>1. Len(down) = 1
      <4>1. Len(down) \in Nat /\ Len(down) # 0
        BY <1>0, <2>1, EmptySeq
      <4>2. \A n \in Nat : n # 0 /\ n <= 1 => n = 1
        OBVIOUS
      <4>. QED
        BY <1>0, <4>1, <4>2
    <3>. QED
      BY <1>0, <2>1, <3>1
  <2>3. SeekSeen' => SeekSeen
    BY <2>1, <2>2 DEF SeekSeen
  <2>. QED
    BY <1>1, <2>1, <2>2, <2>3 DEF SeekingInv
<1>20. CASE ControllerCommand
  <2>1. up # << >> /\ UNCHANGED <<page, down>>
    BY <1>20 DEF ControllerCommand
  <2>2. ~SeekSeen
    BY <1>1, <2>1
  <2>. QED
    BY <1>4, <2>1, <2>2 DEF SeekSeen
<1>21. CASE ScannerWrites
  <2>1. /\ server' = Step(turn, server) /\ turn.at # "out"
        /\ due' => ~Judges(turn)
        /\ UNCHANGED <<page, up, down>>
    BY <1>21 DEF ScannerWrites
  <2>2. /\ server.smode # "off" /\ Copies(turn, server)
        /\ turn.due => due
    BY <2>1, TurnKnown
  <2>3. server'.smode \in {server.smode, "off"}
    BY <1>0, <2>1, StepFacts DEF Stepped
  <2>4. SeekSeen' <=> SeekSeen
    BY <2>1 DEF SeekSeen
  <2>5. CASE ~SeekSeen
    BY <1>4, <2>1, <2>5 DEF SeekSeen
  <2>6. CASE SeekSeen
    <3>1. Seeks(server.smode) /\ Seeks(turn.smode)
      BY <1>0, <1>1, <2>2, <2>6 DEF Seeks, Copies
    <3>2. server'.smode = "off" \/ due' => due \/ ~Judges(turn)
      <4>1. server'.smode = "off" => Judges(turn)
        BY <1>0, <2>1, <3>1, SeekStops DEF Seeks
      <4>2. Judges(turn) => due
        BY <2>2 DEF Judges
      <4>. QED
        BY <2>1, <4>1, <4>2
    <3>3. server'.smode = "off" \/ due' => server'.rfc = server.rfc
      BY <1>0, <2>1, <3>1, SeekStops, StepWaits DEF Seeks
    <3>4. server'.smode = "off" \/ due' => due
      <4>1. server'.smode = "off" => Judges(turn)
        BY <1>0, <2>1, <3>1, SeekStops DEF Seeks
      <4>2. due' => due
        BY <1>21 DEF ScannerWrites
      <4>. QED
        BY <2>2, <4>1, <4>2 DEF Judges
    <3>5. server'.smode # "on"
      BY <2>3, <3>1 DEF Seeks
    <3>. QED
      BY <1>1, <2>1, <2>4, <3>1, <3>3, <3>4, <3>5 DEF SeekingInv
  <2>. QED
    BY <2>5, <2>6
<1>22. CASE HalfSecond
  <2>1. UNCHANGED <<page, up, down, server>> /\ (world.prompt => Told)
    BY <1>22 DEF HalfSecond
  <2>2. CASE ~SeekSeen
    BY <1>4, <2>1, <2>2 DEF SeekSeen
  <2>3. CASE SeekSeen
    <3>1. world.prompt /\ tab \in Modes /\ server.smode # "on"
      BY <1>1, <2>3, SteadyFacts DEF PressedInv, SeekSeen
    <3>2. CASE server.smode = "off"
      BY <1>1, <2>1, <3>2 DEF SeekingInv, SeekSeen
    <3>3. CASE server.smode # "off"
      <4>1. Len(down) = 0 /\ seen = Header
        BY <1>0, <1>3, <2>1, <3>1, <3>3 DEF Told
      <4>2. Header.fc = server.rfc
        BY DEF Header, HeaderOf
      <4>. QED
        BY <1>1, <2>1, <4>1, <4>2 DEF SeekingInv, SeekSeen
    <3>. QED
      BY <3>2, <3>3
  <2>. QED
    BY <2>2, <2>3
<1>23. CASE ScannerReadsMode \/ ScannerReadsRest \/ Measure
  BY <1>5, <1>23 DEF ScannerReadsMode, ScannerReadsRest, Measure
<1>. QED
  BY <1>7, <1>8, <1>9, <1>10, <1>11, <1>12, <1>13, <1>14, <1>15, <1>16,
     <1>17, <1>18, <1>19, <1>20, <1>21, <1>22, <1>23 DEF Next

LEMMA CursorNext ==
  ASSUME BandsFit, Offset["fm"] = 0, Inv, FollowInv, BusyInv, IdleInv,
         TurnInv, Steady, PressedInv, UntouchedInv, SeekingInv, CursorInv,
         Next
  PROVE  CursorInv'
<1>. SUFFICES ASSUME Ours', connected', view' \in Modes,
                     "seek" \in world'.gestures => view' = "fm"
              PROVE  CursorInv'
  BY DEF CursorInv
<1>. USE DEF vars, page, user, receiver, Elsewhere
<1>0. /\ up \in Seq(Commands) /\ down \in Seq(Heartbeats)
      /\ server \in Servers /\ tab \in Tabs /\ view \in Tabs
      /\ tab \in Modes => view = tab /\ seen = hb
      /\ dragging # "no" => view \in Modes
      /\ server.smode \in {"off", "on", "up", "down"} /\ turn \in Turns
  BY DEF Inv, TypeOK, WireOK, ServerOK, PageOK, ViewInv, Servers, TurnOK,
         Turns
<1>1. world' = world
  BY WorldStays
<1>2. "seek" \in world.gestures => view' = "fm"
  BY <1>1
<1>3. Ours /\ view \in Modes => Lands(up, server, view, Band(view))
  BY SteadyIsCalm DEF FollowInv, Follows, LandsInv
<1>4. /\ server.smode # "off" => world.patient
      /\ Seeks(server.smode) => world.prompt
      /\ seen.seeking => "seek" \in world.gestures
      /\ \A i \in 1 .. Len(up) : up[i].scan # "none" => world.patient
  <2>1. Pressed(server.smode) /\ \A i \in 1 .. Len(up) : Pressed(up[i].scan)
    BY DEF PressedInv
  <2>2. server.smode # "off" => server.smode \notin {"off", "none"}
    BY <1>0
  <2>3. \A i \in 1 .. Len(up) : up[i].scan # "none"
                                  => up[i].scan \notin {"off", "none"}
    <3>1. \A i \in 1 .. Len(up) : up[i] \in Commands
      BY <1>0
    <3>2. \A c \in Commands : c.scan # "off"
      BY DEF Commands
    <3>. QED
      BY <3>1, <3>2
  <2>. QED
    BY <2>1, <2>2, <2>3, SteadyFacts DEF PressedInv
<1>5. server.smode # "off" =>
        /\ up = << >> /\ connected /\ tab \in Modes /\ dragging = "no"
  BY <1>4 DEF BusyInv, Busy
<1>6. seen.seeking =>
        /\ server.smode # "on" /\ up = << >> /\ dragging = "no"
        /\ tab \in Modes
        /\ server.smode = "off" \/ due => seen.fc = server.rfc
  BY DEF SeekingInv, SeekSeen
\* What was so of the tab that is still rendered.
<1>7. ASSUME Ours, connected, view' = view
      PROVE  /\ dragging = "moved" =>
                  targetFreq = shown /\ shown \in Band(view)
             /\ dragging # "moved" /\ server.smode = "off" /\ ~seen.seeking =>
                  shown \in Band(view) /\ Lands(up, server, view, {shown})
             /\ Seeks(server.smode) /\ ~seen.seeking /\ due =>
                  shown \in Band(view) /\ At(server, view, {shown})
             /\ server.smode = "on" =>
                  /\ shown \in Band(view)
                  /\ \/ server.from < 0 /\ At(server, view, {shown})
                     \/ server.from = Hz(view, shown)
  BY <1>2, <1>7 DEF CursorInv
\* The cursor stays where it is, and commands leave it there.
<1>8. ASSUME NEW b \in Seq(Commands),
             \A i \in 1 .. Len(b) :
               b[i].mode \in {"none", view} /\ b[i].fc = NoFreq,
             up' = up \o b, server.smode = "off", ~seen.seeking,
             Ours, connected, view' = view, shown' = shown, server' = server,
             dragging # "moved", dragging' # "moved"
      PROVE  CursorInv'
  <2>1. shown \in Band(view) /\ Lands(up, server, view, {shown})
    BY <1>7, <1>8
  <2>2. \A i \in 1 .. Len(b) : Keeps(b[i], view, {shown})
    BY <1>8 DEF Keeps, NoFreq
  <2>3. Lands(up', server, view, {shown})
    BY <1>0, <1>8, <2>1, <2>2, LandsKeeps
  <2>. QED
    BY <1>8, <2>1, <2>3 DEF CursorInv, Seeks
\* Nothing of it changes.
<1>9. ASSUME UNCHANGED <<connected, view, shown, targetFreq, up, server>>,
             dragging' = "moved" <=> dragging = "moved", Ours,
             ~seen'.seeking => ~seen.seeking,
             Seeks(server.smode) /\ due' => due \/ seen'.seeking
      PROVE  CursorInv'
  BY <1>7, <1>9 DEF CursorInv
\* The cursor is put to a tick, and the server told.
<1>10. ASSUME NEW t \in Band(view), up' = up \o SetCenterFreq(Hz(view, t)),
              Ours, view \in Modes, shown' = t, view' = view, server' = server,
              server.smode = "off", dragging' # "moved"
       PROVE  CursorInv'
  <2>. DEFINE c == Command("none", "none", Hz(view, t))
  <2>1. /\ Hz(view, t) \in Int /\ Hz(view, t) > 0
    BY <1>10, TickAccepted
  <2>2. SetCenterFreq(Hz(view, t)) = <<c>> /\ c \in Commands
    BY <1>10, <2>1, SetFacts
  <2>3. c.mode = "none" /\ c.fc = Hz(view, t)
    BY DEF Command
  <2>. HIDE DEF c
  <2>4. Lands(up \o <<c>>, server, view, {t})
    <3>1. \E u \in {t} : c.fc = Hz(view, u)
      BY <2>3
    <3>2. c.mode \in {"none", view}
      BY <2>3
    <3>3. Lands(up, server, view, Band(view))
      BY <1>3, <1>10
    <3>. QED
      BY <1>0, <2>2, <3>1, <3>2, <3>3, LandsTunes
  <2>. QED
    BY <1>10, <2>2, <2>4 DEF CursorInv, Seeks
\* A tab is mounted, or clicked on again.
<1>13. ASSUME NEW t \in Tabs, OnClick(t) PROVE CursorInv'
  <2>1. /\ server.smode = "off" /\ ~seen.seeking /\ ~hb.seeking
        /\ dragging = "no"
    BY <1>13, GestureQuiet DEF OnClick
  <2>6. t = view \/ t \notin Modes => Ours
    <3>1. t = view \/ t \notin Modes => (opened' <=> opened)
      BY Zenon, <1>13 DEF OnClick
    <3>. QED
      BY <1>1, <3>1 DEF Ours
  <2>2. /\ Render(t, hb, shown) /\ connected
        /\ UNCHANGED <<dragging, targetFreq, connected, server>>
        /\ up' = up \o (IF t \in Modes THEN SetMode(t) \o Mounts(t) ELSE << >>)
    BY <1>13 DEF OnClick, Send
  <2>3. CASE t \in Modes /\ t # view
    <3>1. view' = t /\ shown' = Default[t]
      BY <2>2, <2>3 DEF Render, Renders, ShownAfter, Modes
    <3>2. up' = up \o (SetMode(t) \o SetCenterFreq(Hz(t, Default[t])))
      BY <2>2, <2>3 DEF Mounts
    <3>3. Lands(up', server, t, {Default[t]}) /\ Default[t] \in Band(t)
      BY <1>0, <2>3, <3>2, LandsMounts, BandFacts
    <3>. QED
      BY <2>1, <2>2, <3>1, <3>3 DEF CursorInv, Seeks
  <2>4. CASE t = view
    <3>. DEFINE b == SetMode(view)
    <3>1. view' = view /\ shown' = shown
      BY <2>1, <2>2, <2>4 DEF Render, ShownAfter
    <3>2. view \in Modes
      BY <3>1
    <3>3. up' = up \o (b \o << >>)
      BY <2>2, <2>4, <3>2 DEF Mounts
    <3>4. /\ b = <<Command(view, "none", NoFreq)>>
          /\ Command(view, "none", NoFreq).mode = view
          /\ Command(view, "none", NoFreq).fc = NoFreq
      BY DEF SetMode, Command
    <3>5. b \in Seq(Commands)
      BY <3>2, SentFacts
    <3>. HIDE DEF b
    <3>6. up' = up \o b
      BY <3>3, <3>5, ConcatEmptySeq
    <3>7. \A i \in 1 .. Len(b) :
            b[i].mode \in {"none", view} /\ b[i].fc = NoFreq
      BY <3>4
    <3>. QED
      BY <1>8, <2>1, <2>2, <2>4, <2>6, <3>1, <3>5, <3>6, <3>7
  <2>5. CASE t \notin Modes
    <3>1. view' = view /\ shown' = shown
      BY <2>2, <2>5 DEF Render
    <3>2. up' = up \o << >> /\ << >> \in Seq(Commands) /\ Len(<< >>) = 0
      BY <2>2, <2>5
    <3>3. up' = up
      BY <1>0, <3>2, ConcatEmptySeq
    <3>. QED
      BY <1>9, <2>1, <2>2, <2>5, <2>6, <3>1, <3>3 DEF Seeks
  <2>. QED
    BY <2>3, <2>4, <2>5
<1>29. SUFFICES ASSUME ~(\E t \in Tabs : OnClick(t)) PROVE CursorInv'
  BY <1>13
<1>30. Ours
  BY <1>29, OursStays DEF Tabs
<1>11. CASE Connect
  <2>. DEFINE c == Command("none", "none", Hz("fm", Default["fm"]))
  <2>1. /\ tab = "fm" /\ shown = Default["fm"] /\ server = Start("fm")
        /\ up = << >> /\ ~seen.seeking
    BY <1>11, <1>30 DEF Connect, UntouchedInv, Ours
  <2>2. view = "fm" /\ seen = hb /\ "fm" \in Modes /\ shown \in Band("fm")
    BY <1>0, <2>1, BandFacts DEF Modes
  <2>3. /\ view' = "fm" /\ shown' = shown /\ server' = server
        /\ up' = up \o SetCenterFreq(Hz(view, shown)) /\ dragging' = "no"
    BY <1>11, <2>1, <2>2 DEF Connect, Render, ShownAfter
  <2>4. server.smode = "off"
    BY <2>1 DEF Start
  <2>. QED
    BY <1>10, <1>30, <2>2, <2>3, <2>4
<1>12. ~Disconnect
  BY SteadyFacts DEF Disconnect, Gesture
<1>14. ASSUME NEW g, OnMouseDown(g) PROVE CursorInv'
  <2>1. dragging = "no" /\ dragging' # "moved"
    BY <1>14 DEF OnMouseDown, Gesture
  <2>. QED
    BY <1>9, <1>14, <1>30, <2>1 DEF OnMouseDown
<1>15. ASSUME NEW t, OnMouseMove(t) PROVE CursorInv'
  <2>1. /\ connected /\ view' = view /\ shown' = t /\ targetFreq' = t
        /\ dragging' = "moved" /\ server' = server /\ t \in Band(view)
        /\ dragging # "no"
    BY <1>15 DEF OnMouseMove
  <2>2. server.smode = "off"
    BY <1>5, <2>1
  <2>. QED
    BY <2>1, <2>2 DEF CursorInv, Seeks
<1>16. CASE OnMouseUp
  <2>1. /\ connected /\ view' = view /\ server' = server /\ dragging' = "no"
        /\ up' = up \o SetCenterFreq(Hz(view, targetFreq))
        /\ dragging \in {"press", "moved"}
    BY <1>16 DEF OnMouseUp, Send
  <2>2. dragging = "moved"
    BY <2>1 DEF PressedInv
  <2>3. targetFreq = shown /\ shown \in Band(view) /\ view \in Modes
    BY <1>7, <1>30, <2>1, <2>2
  <2>4. targetFreq # 0
    <3>1. /\ BandMin[view] <= shown /\ shown \in Nat
          /\ BandMin[view] \in Nat \ {0}
      BY <2>3, TickAccepted, ConstantsAssumption
    <3>. QED
      BY <2>3, <3>1
  <2>5. shown' = shown
    BY <1>16, <2>1, <2>3, <2>4 DEF OnMouseUp
  <2>6. server.smode = "off"
    BY <1>5, <2>2
  <2>. QED
    BY <1>10, <1>30, <2>1, <2>3, <2>5, <2>6
<1>17. ASSUME NEW m \in Modes, NEW t \in Band(m), OnStation(t)
       PROVE  CursorInv'
  <2>1. /\ connected /\ view \in Modes /\ t \in Band(view) /\ shown' = t
        /\ up' = up \o SetCenterFreq(Hz(view, t))
        /\ UNCHANGED <<view, server, dragging>>
    BY <1>17 DEF OnStation, Send, Listed
  <2>2. server.smode = "off" /\ dragging = "no"
    BY <1>17, GestureQuiet DEF OnStation
  <2>. QED
    BY <1>10, <1>30, <2>1, <2>2
<1>18. ASSUME NEW s \in {"on", "up", "down"}, OnScan(s) PROVE CursorInv'
  <2>. DEFINE b == SetScan(s)
  <2>1. connected /\ up' = up \o b /\ UNCHANGED <<page, server>>
    BY <1>18 DEF OnScan, Send
  <2>2. server.smode = "off" /\ dragging = "no" /\ ~seen.seeking
    BY <1>18, GestureQuiet DEF OnScan
  <2>3. /\ b \in Seq(Commands) /\ Len(b) = 1
        /\ b[1].mode = "none" /\ b[1].fc = NoFreq
    BY SentFacts, SMTT(20) DEF SetScan, Command, Modes
  <2>. HIDE DEF b
  <2>. QED
    BY <1>8, <1>30, <2>1, <2>2, <2>3
<1>19. ~OnChangeSampleRate
  BY DEF OnChangeSampleRate, Modes
<1>20. ~Retune
  BY DEF Retune, PressedInv
<1>21. CASE Receive
  <2>1. /\ Render(tab, Head(down), shown) /\ down # << >>
        /\ UNCHANGED <<dragging, targetFreq, connected, up, server, due>>
    BY <1>21 DEF Receive
  <2>2. CASE ~Renders(tab, Head(down))
    BY <1>9, <1>30, <2>1, <2>2 DEF Render
  <2>3. CASE Renders(tab, Head(down)) /\ ~seen.seeking
    <3>1. view' = tab /\ view = tab
      BY <1>0, <2>1, <2>3 DEF Render
    <3>2. shown' = shown
      BY <2>1, <2>3, <3>1 DEF Render, ShownAfter
    <3>. QED
      BY <1>9, <1>30, <2>1, <2>3, <3>1, <3>2
  <2>4. CASE Renders(tab, Head(down)) /\ seen.seeking
    <3>1. view' = tab /\ view = tab /\ seen' = Head(down)
      BY <1>0, <2>1, <2>4 DEF Render
    <3>2. /\ view = "fm" /\ "fm" \in Modes
      BY <1>2, <1>4, <2>4, <3>1 DEF Modes
    <3>3. shown' = seen.fc \div 10000
      BY <2>1, <2>4, <3>1, <3>2 DEF Render, ShownAfter, PerHundredth
    <3>4. ASSUME server.smode = "off"
          PROVE  shown' \in Band("fm") /\ Lands(up, server, "fm", {shown'})
      <4>1. up = << >> /\ seen.fc = server.rfc
        BY <1>6, <2>4, <3>4
      <4>2. At(server, "fm", Band("fm"))
        BY <1>3, <1>30, <3>2, <4>1, LandsEmpty
      <4>3. PICK t \in Band("fm") : /\ server.fc = Hz("fm", t)
                                    /\ server.rfc = Hz("fm", t) + 0
        BY <4>2 DEF At
      <4>4. t \in Nat /\ server.rfc = t * 10000
        BY SMT, <3>2, <4>3, TickAccepted DEF Hz, PerHundredth
      <4>5. shown' = t
        BY SMT, <3>3, <4>1, <4>4
      <4>6. At(server, "fm", {t})
        BY <4>2, <4>3 DEF At
      <4>. QED
        BY <4>1, <4>5, <4>6 DEF Lands
    <3>5. server.smode # "on" /\ dragging = "no"
      BY <1>6, <2>4
    <3>6. Seeks(server.smode) => seen'.seeking
      <4>1. Head(down) = down[1] /\ 1 \in 1 .. Len(down)
        BY <1>0, <2>1
      <4>. QED
        BY <2>4, <3>1, <4>1 DEF SeekingInv
    <3>. QED
      BY <2>1, <3>1, <3>2, <3>4, <3>5, <3>6 DEF CursorInv
  <2>. QED
    BY <2>2, <2>3, <2>4
<1>22. CASE Heartbeat
  BY <1>9, <1>22, <1>30 DEF Heartbeat
<1>23. CASE Overwritten
  BY <1>9, <1>23, <1>30 DEF Overwritten
<1>24. CASE ControllerCommand
  <2>1. /\ up # << >> /\ server' = After(Head(up), server)
        /\ up' = Tail(up) /\ UNCHANGED page
    BY <1>24 DEF ControllerCommand
  <2>2. /\ Head(up) = up[1] /\ 1 \in 1 .. Len(up) /\ Len(up) \in Nat
        /\ up[1] \in Commands /\ Len(up') = Len(up) - 1
        /\ up' \in Seq(Commands)
    BY <1>0, <2>1
  <2>3. server.smode = "off" /\ ~seen.seeking
    BY <1>5, <1>6, <2>1
  <2>4. connected /\ view' = view /\ view \in Modes
    BY <2>1
  <2>5. dragging # "moved" =>
          shown \in Band(view) /\ Lands(up', server', view, {shown})
    <3>1. SUFFICES ASSUME dragging # "moved"
                   PROVE  /\ shown \in Band(view)
                          /\ Lands(up', server', view, {shown})
      OBVIOUS
    <3>2. shown \in Band(view) /\ Lands(up, server, view, {shown})
      BY <1>7, <1>30, <2>3, <2>4, <3>1
    <3>3. {shown} \subseteq Band(view)
      BY <3>2
    <3>. QED
      BY <1>0, <2>1, <2>4, <3>2, <3>3, LandsAfter
  <2>6. server'.smode # "off" =>
          /\ shown \in Band(view) /\ At(server', view, {shown})
          /\ server'.from < 0
    <3>1. SUFFICES ASSUME server'.smode # "off"
                   PROVE  /\ shown \in Band(view) /\ At(server', view, {shown})
                          /\ server'.from < 0
      OBVIOUS
    <3>2. up[1].scan # "none" /\ server'.from = NoFreq
      BY <1>0, <2>1, <2>2, <2>3, <3>1, AfterFacts
    <3>3. world.patient /\ ~NoScan(up)
      BY <1>4, <2>2, <3>2 DEF NoScan
    <3>4. Len(up) = 1 /\ dragging = "no"
      BY <3>3 DEF BusyInv, Busy
    <3>5. up' = << >>
      <4>1. Len(up') = 0
        BY <2>2, <3>4
      <4>. QED
        BY <2>2, <4>1, EmptySeq
    <3>6. shown \in Band(view) /\ At(server', view, {shown})
      BY <2>5, <3>4, <3>5, LandsEmpty
    <3>. QED
      BY <3>2, <3>6 DEF NoFreq
  <2>7. dragging = "moved" => targetFreq = shown /\ shown \in Band(view)
    BY <1>7, <1>30, <2>4
  <2>. QED
    BY <2>1, <2>3, <2>4, <2>5, <2>6, <2>7 DEF CursorInv, Seeks
<1>25. CASE ScannerWrites
  <2>1. /\ server' = Step(turn, server) /\ turn.at = "rest"
        /\ due' => due /\ ~Judges(turn)
        /\ UNCHANGED <<page, up>>
    BY <1>25 DEF ScannerWrites
  <2>2. /\ server.smode # "off" /\ Copies(turn, server)
        /\ turn.due => due
    BY <2>1, TurnKnown
  <2>3. /\ up = << >> /\ connected /\ tab \in Modes /\ dragging = "no"
        /\ view' = view /\ view \in Modes
    BY <1>5, <2>1, <2>2
  <2>4. Len(<< >>) = 0
    OBVIOUS
  <2>5. CASE Seeks(server.smode)
    <3>1. Seeks(turn.smode)
      BY <2>2, <2>5 DEF Copies
    <3>2. Judges(turn) => due
      BY <2>2 DEF Judges
    <3>3. /\ server'.smode # "on"
          /\ server'.smode = "off" \/ due' =>
               /\ due /\ server'.fc = server.fc /\ server'.rfc = server.rfc
               /\ server'.mode = server.mode
      BY <1>0, <2>1, <2>5, <3>1, <3>2, SeekStops, StepWaits DEF Seeks
    <3>4. (server'.smode = "off" \/ due') /\ ~seen.seeking =>
            shown \in Band(view) /\ At(server', view, {shown})
      BY <1>7, <1>30, <2>3, <2>5, <3>3 DEF At
    <3>. QED
      BY <2>1, <2>3, <2>4, <3>3, <3>4 DEF CursorInv, Lands
  <2>6. CASE server.smode = "on"
    <3>1. /\ shown \in Band(view)
          /\ \/ server.from < 0 /\ At(server, view, {shown})
             \/ server.from = Hz(view, shown)
      BY <1>7, <1>30, <2>3, <2>6
    <3>2. turn.just <=> server.from < 0
      BY <2>1, <2>2 DEF Copies
    <3>3. CASE server.from < 0 /\ At(server, view, {shown})
      <4>1. turn.fc = server.fc
        BY <2>1, <2>2 DEF Copies
      <4>2. server'.from = Hz(view, shown) /\ server'.smode = "on"
        BY <1>0, <2>1, <2>6, <3>2, <3>3, <4>1, StepWaits DEF At, Judges
      <4>. QED
        BY <2>1, <2>3, <3>1, <4>2 DEF CursorInv, Seeks
    <3>4. CASE server.from = Hz(view, shown)
      <4>1. At(server, view, Band(view))
        BY <1>3, <1>30, <2>3, LandsEmpty
      <4>2. ~(server.from < 0)
        BY <2>3, <3>1, <3>4, TickAccepted
      <4>3. /\ server'.from = Hz(view, shown)
            /\ server'.smode \in {"on", "off"}
            /\ server'.smode = "off" => At(server', view, {shown})
        <5>1. CASE Judges(turn)
          BY <1>0, <2>1, <2>2, <2>3, <2>6, <3>1, <3>4, <4>1, <5>1,
             ScanReturns
        <5>2. CASE ~Judges(turn)
          BY <1>0, <2>1, <2>6, <3>2, <3>4, <4>2, <5>2, StepWaits
        <5>. QED
          BY <5>1, <5>2
      <4>. QED
        BY <2>1, <2>3, <2>4, <3>1, <4>3 DEF CursorInv, Lands, Seeks
    <3>. QED
      BY <3>1, <3>3, <3>4
  <2>. QED
    BY <1>0, <2>2, <2>5, <2>6 DEF Seeks
<1>26. CASE HalfSecond
  <2>1. UNCHANGED <<page, up, down, server, user>> /\ (world.prompt => Told)
    BY <1>26 DEF HalfSecond
  <2>2. Seeks(server.smode) => seen.seeking
    <3>1. SUFFICES ASSUME Seeks(server.smode) PROVE seen.seeking
      OBVIOUS
    <3>2. connected /\ tab \in Modes /\ Told
      BY <1>4, <1>5, <2>1, <3>1 DEF Seeks
    <3>3. seen = Header
      BY <1>0, <3>2 DEF Told
    <3>. QED
      BY <3>1, <3>3 DEF Header, HeaderOf, Seeks
  <2>. QED
    BY <1>9, <1>30, <2>1, <2>2
<1>27. CASE ScannerReadsMode \/ ScannerReadsRest \/ Measure
  BY <1>9, <1>27, <1>30 DEF ScannerReadsMode, ScannerReadsRest, Measure
<1>. QED
  BY <1>11, <1>12, <1>14, <1>15, <1>16, <1>17, <1>18, <1>19, <1>20, <1>21,
     <1>22, <1>23, <1>24, <1>25, <1>26, <1>27, <1>29 DEF Next

LEMMA ShownNext ==
  ASSUME BandsFit, Offset["fm"] = 0, Inv, FollowInv, BusyInv, IdleInv,
         TurnInv, ShownInv, [Next]_vars
  PROVE  ShownInv'
<1>. SUFFICES ASSUME Steady' PROVE ShownInv'
  BY DEF ShownInv
<1>1. world' = world
  BY WorldStays
<1>2. Steady
  BY <1>1 DEF Steady
<1>3. PressedInv /\ UntouchedInv /\ SeekingInv /\ CursorInv
  BY <1>2 DEF ShownInv
<1>4. CASE Next
  BY <1>2, <1>3, <1>4, PressedNext, UntouchedNext, SeekingNext, CursorNext
     DEF ShownInv
<1>5. CASE UNCHANGED vars
  <2>1. PressedInv'
    BY <1>3, <1>5 DEF PressedInv, Pressed, vars, page, user, receiver
  <2>2. UntouchedInv'
    BY <1>3, <1>5 DEF UntouchedInv, vars, page, user, receiver
  <2>3. SeekingInv'
    BY <1>3, <1>5 DEF SeekingInv, SeekSeen, vars, page, user, receiver
  <2>4. CursorInv'
    BY <1>3, <1>5 DEF CursorInv, Ours, vars, page, user, receiver
  <2>. QED
    BY <2>1, <2>2, <2>3, <2>4 DEF ShownInv
<1>. QED
  BY <1>4, <1>5

LEMMA ShownInit == Init => ShownInv
<1>. SUFFICES ASSUME Init PROVE PressedInv /\ UntouchedInv /\ SeekingInv
                                /\ CursorInv
  BY DEF ShownInv
<1>1. /\ ~connected /\ up = << >> /\ down = << >> /\ ~opened
      /\ server = Start(world.left)
      /\ tab = "fm" /\ shown = Default["fm"] /\ dragging = "no"
      /\ retune = NoTimer /\ ~hb.seeking /\ ~seen.seeking
  BY DEF Init
<1>2. server.smode = "off" /\ Len(up) = 0 /\ Len(down) = 0
  BY <1>1 DEF Start
<1>3. PressedInv
  BY <1>1, <1>2 DEF PressedInv, Pressed
<1>. QED
  BY <1>1, <1>2, <1>3 DEF UntouchedInv, SeekingInv, SeekSeen, CursorInv

\* What the cursor shows is what the server is tuned to, once everything has
\* arrived: on both tabs, which keep a frequency of their own (fm.jsx, am.jsx)
\* that each gesture sets on its own account; after a scan, which comes back
\* to where it set out (scanner.c:116); and on the FM tab after a seek, which
\* it follows one heartbeat behind (fm.jsx:67).
THEOREM CursorShowsServer ==
  BandsFit /\ Offset["fm"] = 0 => (Spec => []ShownIsTuned)
<1>. SUFFICES ASSUME BandsFit, Offset["fm"] = 0 PROVE Spec => []ShownIsTuned
  OBVIOUS
<1>1. Init => BusyInv /\ SettingsInv /\ IdleInv /\ TurnInv
  BY BusyInit, IdleInit, TurnInit DEF Init, SettingsInv
<1>2. /\ Inv /\ FollowInv /\ BusyInv /\ IdleInv /\ TurnInv /\ ShownInv
      /\ [Next]_vars
      => ShownInv'
  BY ShownNext
<1>4. Inv /\ IdleInv /\ TurnInv /\ FollowInv /\ [Next]_vars => FollowInv'
  BY FollowNext
<1>3. Inv /\ ShownInv => ShownIsTuned
  <2>. SUFFICES ASSUME Inv, ShownInv, Steady, Ours, connected, Quiet,
                       tab \in Modes,
                       "seek" \in world.gestures => tab = "fm"
                PROVE  Hz(tab, shown) = server.fc
    BY DEF ShownIsTuned, Steady
  <2>1. view = tab /\ up = << >> /\ dragging = "no" /\ server.smode = "off"
    BY DEF Quiet, Inv, TypeOK, PageOK
  <2>2. ~seen.seeking
    BY <2>1 DEF Quiet, Header, HeaderOf
  <2>3. Lands(<< >>, server, tab, {shown})
    BY <2>1, <2>2 DEF ShownInv, CursorInv
  <2>4. At(server, tab, {shown})
    BY <2>3, LandsEmpty
  <2>. QED
    BY <2>4 DEF At
<1>. QED
  BY <1>1, <1>2, <1>3, <1>4, ShownInit, BusyNext, SettingsNext, IdleNext,
     TurnNext, FollowInit, InvHolds, PTL DEF Spec

\* All of it holds of the bands of the two tuners (fm.jsx, am.jsx) and of the
\* upconverter of the AM mode (controller.c:182), with any stations and users,
\* and whatever mode the server has been left in: each for the users and the
\* pages that the property names.
THEOREM RealReceiver ==
  RealBands =>
    (Spec => /\ []FollowsTab /\ []ShownIsTuned /\ []ListedIsStation
             /\ StaysPut /\ ListedInTime)
<1>. SUFFICES ASSUME RealBands
              PROVE  Spec => /\ []FollowsTab /\ []ShownIsTuned
                             /\ []ListedIsStation
                             /\ StaysPut /\ ListedInTime
  OBVIOUS
<1>1. BandsFit /\ DongleStays /\ BandsApart
  BY RealBandsFit, RealDongleStays, RealBandsApart
<1>2. Offset["fm"] = 0
  BY SMT DEF RealBands
<1>4. Spec => []FollowsTab
  BY <1>1, ServerFollowsTab
<1>5. Spec => []ShownIsTuned
  BY <1>1, <1>2, CursorShowsServer
<1>6. Spec => []ListedIsStation
  BY <1>1, StationsAreReal
<1>7. Spec => StaysPut
  BY <1>1, TimerStaysPut
<1>8. Spec => ListedInTime
  BY ScanIsListedInTime
<1>. QED
  BY <1>4, <1>5, <1>6, <1>7, <1>8

=============================================================================
