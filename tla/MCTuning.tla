------------------------------ MODULE MCTuning ------------------------------
(***************************************************************************)
(* Small instances of Tuning for TLC: an FM band of four frequencies, an   *)
(* AM band of three, and frequencies between the steps of both.            *)
(***************************************************************************)
EXTENDS Tuning

SmallMin    == [FM |-> 20, AM |-> 4]
SmallMax    == [FM |-> 26, AM |-> 6]
SmallStep   == [FM |-> 2, AM |-> 1]
SmallOffset == [FM |-> 0, AM |-> 100]
\* 4 .. 6 is too low, and the last of the AM band is refused.
SmallTunable == (20 .. 30) \cup {104, 105}

Cmd(m, s, f) == [mode |-> m, scan |-> s, fc |-> f]

\* The commands the interface sends have one option each.
Scan(s) == Cmd("NONE", s, 0)
Tune(f) == Cmd("NONE", "NONE", f)
Mode(m) == Cmd(m, "NONE", 0)

Session(from, stations, commands, max) ==
  [from |-> from, stations |-> stations, commands |-> commands, max |-> max]

\* Scans and seeks, stopped and started anew, from every kind of frequency.
Scanning ==
  Session({20, 22, 23, 26}, {20, 24}, {Scan(s) : s \in ScanModes}, 2)
\* Retunes a scan or a seek off the grid, to the end of the band and out of it.
Retuning ==
  Session({22}, {20},
          {Scan("ON"), Scan("DOWN"), Tune(23), Tune(26), Tune(30)}, 2)
\* Changes the band while a scan is under way, and tunes in the same command;
\* in the FM band there is no station.
Switching ==
  Session({22}, {105},
          {Mode("AM"), Mode("FM"), Cmd("AM", "NONE", 5), Scan("ON"),
           Scan("UP")}, 2)

AllSessions  == {Scanning, Retuning, Switching}
RestartsOnly == {Session({22}, {}, {Scan("ON")}, 2)}
=============================================================================
