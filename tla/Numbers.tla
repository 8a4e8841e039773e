------------------------------- MODULE Numbers -------------------------------
(***************************************************************************)
(* How frequencies and samples are written on their way.  The interface    *)
(* counts in hundredths of what it shows: MHz on the FM tab, kHz on the AM *)
(* tab.  The wire and the server count in Hz, and the server puts what it  *)
(* reads into a float.  The dongle sends bytes, the demodulator works with *)
(* signed ones.                                                            *)
(***************************************************************************)
EXTENDS Integers

Modes == {"fm", "am"}

\* Hz in a hundredth of the unit shown.
PerHundredth(m) == IF m = "fm" THEN 10000 ELSE 10

\* The bounds and steps of the two tuners (fm.jsx, am.jsx), and the bounds of
\* the server's bands (controller.c).
TickMin(m)  == IF m = "fm" THEN 8790 ELSE 54000
TickMax(m)  == IF m = "fm" THEN 10790 ELSE 170000
TickStep(m) == IF m = "fm" THEN 20 ELSE 1000
FcMin(m)    == IF m = "fm" THEN 87900000 ELSE 540000
FcMax(m)    == IF m = "fm" THEN 107900000 ELSE 1700000

Tick(m, i) == TickMin(m) + i * TickStep(m)
Places(m)  == 0 .. (TickMax(m) - TickMin(m)) \div TickStep(m)

\* setCenterFreq(f, ord): what is sent for a frequency that is shown.
Hz(m, f) == f * PerHundredth(m)

\* (float) n, for an n of a band: a float has 24 bits, so above 2^26 it holds
\* the multiples of 8, and halves go to the even one.
ToFloat(n) ==
  LET below == n \div 8
      rest  == n % 8
  IN  IF n < 16777216 THEN n
      ELSE IF rest < 4 \/ (rest = 4 /\ below % 2 = 0) THEN 8 * below
      ELSE 8 * below + 8

ShownAsFm(m, s) == IF s > 1000000 THEN s \div 10000 ELSE 100 * s

\* "s > 1e6 ? Math.floor(s*100 / 1e6) / 100 : s", with 1e3 on the AM tab.
Shown(m, s) == IF s > 100 * PerHundredth(m) THEN s \div PerHundredth(m)
                                            ELSE 100 * s

\* What an int8_t is left with when n is put into it.
ToInt8(n) == ((n + 128) % 256) - 128

\* "r->buffer[i] = ((int8_t) buf[i]) + 128" (rtl.c)
Sample(byte) == ToInt8(ToInt8(byte) + 128)

-----------------------------------------------------------------------------
(* Properties.                                                             *)

\* A frequency the user can choose is one the server accepts, it comes
\* through the float unchanged, and when it comes back as a station it is
\* shown at the tick it was chosen at.
TicksArrive ==
  \A m \in Modes : \A i \in Places(m) :
    LET hz == Hz(m, Tick(m, i))
    IN  /\ ToFloat(hz) = hz /\ FcMin(m) <= hz /\ hz <= FcMax(m)
        /\ Shown(m, hz) = Tick(m, i)

\* The dongle's bytes, 0 to 255 around 127.5, come out as -128 to 127, in
\* their order, although the sum overflows for half of them (rtl.c:103).
SamplesArrive == \A byte \in 0 .. 255 : Sample(byte) = byte - 128
=============================================================================
