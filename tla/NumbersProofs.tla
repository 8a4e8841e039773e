---------------------------- MODULE NumbersProofs ----------------------------
(***************************************************************************)
(* Theorems about module Numbers.                                          *)
(***************************************************************************)
EXTENDS Numbers, TLAPS

\* The tuners have 101 and 117 ticks.
LEMMA PlacesAre == Places("fm") = 0 .. 100 /\ Places("am") = 0 .. 116
  BY SMT DEF Places, TickMin, TickMax, TickStep

LEMMA FmHz ==
  ASSUME NEW i \in 0 .. 100
  PROVE  /\ Tick("fm", i) = 8790 + 20 * i
         /\ Hz("fm", Tick("fm", i)) = 8 * (10987500 + 25000 * i)
  BY SMT DEF Hz, Tick, TickMin, TickStep, PerHundredth

LEMMA AmHz ==
  ASSUME NEW i \in 0 .. 116
  PROVE  /\ Tick("am", i) = 54000 + 1000 * i
         /\ Hz("am", Tick("am", i)) = 540000 + 10000 * i
  BY SMT DEF Hz, Tick, TickMin, TickStep, PerHundredth

\* A float holds the multiples of 8, and every number below 2^24.
LEMMA FloatKeeps ==
  /\ \A k \in Nat : ToFloat(8 * k) = 8 * k
  /\ \A n \in Nat : n < 16777216 => ToFloat(n) = n
<1>1. ASSUME NEW k \in Nat PROVE ToFloat(8 * k) = 8 * k
  <2>1. (8 * k) \div 8 = k /\ (8 * k) % 8 = 0
    BY SMT
  <2>. QED
    BY SMT, <2>1 DEF ToFloat
<1>2. \A n \in Nat : n < 16777216 => ToFloat(n) = n
  BY SMT DEF ToFloat
<1>. QED
  BY SMT, <1>1, <1>2

\* Every tick reaches the dongle as it is, and comes back to its place
\* (client.jsx:24, controller.c:116, fm.jsx:82, am.jsx:66).
THEOREM TicksAreExact == TicksArrive
<1>. DEFINE Arrives(m, i) ==
              LET hz == Hz(m, Tick(m, i))
              IN  /\ ToFloat(hz) = hz /\ FcMin(m) <= hz /\ hz <= FcMax(m)
                  /\ Shown(m, hz) = Tick(m, i)
<1>1. ASSUME NEW i \in 0 .. 100 PROVE Arrives("fm", i)
  <2>1. ToFloat(8 * (10987500 + 25000 * i)) = 8 * (10987500 + 25000 * i)
    <3>1. PICK k \in Nat : k = 10987500 + 25000 * i
      BY SMT
    <3>2. ToFloat(8 * k) = 8 * k
      BY SMT, FloatKeeps
    <3>. QED
      BY SMT, <3>1, <3>2
  <2>2. (8 * (10987500 + 25000 * i)) \div 10000 = 8790 + 20 * i
    BY SMT
  <2>3. Shown("fm", 8 * (10987500 + 25000 * i)) = 8790 + 20 * i
    BY SMT, <2>2 DEF Shown, PerHundredth
  <2>4. LET hz == 8 * (10987500 + 25000 * i)
        IN  FcMin("fm") <= hz /\ hz <= FcMax("fm")
    BY SMT DEF FcMin, FcMax
  <2>. QED
    BY SMT, <2>1, <2>3, <2>4, FmHz
<1>2. ASSUME NEW i \in 0 .. 116 PROVE Arrives("am", i)
  <2>1. ToFloat(540000 + 10000 * i) = 540000 + 10000 * i
    BY SMT, FloatKeeps
  <2>2. (540000 + 10000 * i) \div 10 = 54000 + 1000 * i
    BY SMT
  <2>3. Shown("am", 540000 + 10000 * i) = 54000 + 1000 * i
    BY SMT, <2>2 DEF Shown, PerHundredth
  <2>4. LET hz == 540000 + 10000 * i
        IN  FcMin("am") <= hz /\ hz <= FcMax("am")
    BY SMT DEF FcMin, FcMax
  <2>. QED
    BY SMT, <2>1, <2>3, <2>4, AmHz
<1>. HIDE DEF Arrives
<1>3. \A m \in Modes : \A i \in Places(m) : Arrives(m, i)
  BY SMT, <1>1, <1>2, PlacesAre DEF Modes
<1>. QED
  BY SMT, <1>3 DEF TicksArrive, Arrives

\* Stations are recorded under the tab that is open, whatever their band
\* (modulations.jsx:45): one of the other band is never shown at a tick.
THEOREM BandsStayApart ==
  \A m \in Modes : \A i \in Places(m) : \A n \in Modes \ {m} :
    \A j \in Places(n) : Shown(n, Hz(m, Tick(m, i))) # Tick(n, j)
<1>. DEFINE Apart(m, n, i, j) == Shown(n, Hz(m, Tick(m, i))) # Tick(n, j)
<1>1. ASSUME NEW i \in 0 .. 100, NEW j \in 0 .. 116
      PROVE  Apart("fm", "am", i, j)
  BY SMT, FmHz, AmHz DEF Shown, PerHundredth
<1>2. ASSUME NEW i \in 0 .. 116, NEW j \in 0 .. 100
      PROVE  Apart("am", "fm", i, j)
  BY SMT, FmHz, AmHz DEF Shown, PerHundredth
<1>. HIDE DEF Apart
<1>3. \A m \in Modes : \A i \in Places(m) : \A n \in Modes \ {m} :
        \A j \in Places(n) : Apart(m, n, i, j)
  <2>1. \A i \in Places("fm") : \A j \in Places("am") :
          Apart("fm", "am", i, j)
    BY Zenon, <1>1, PlacesAre
  <2>2. \A i \in Places("am") : \A j \in Places("fm") :
          Apart("am", "fm", i, j)
    BY Zenon, <1>2, PlacesAre
  <2>. QED
    BY Zenon, <2>1, <2>2 DEF Modes
<1>. QED
  BY SMT, <1>3 DEF Apart

\* All 256 bytes of the dongle become the sample they stand for (rtl.c:103).
THEOREM SamplesAreExact == SamplesArrive
  BY SMT DEF SamplesArrive, Sample, ToInt8
=============================================================================
