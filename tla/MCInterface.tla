----------------------------- MODULE MCInterface -----------------------------
(* Instances of Interface: a few ticks of each band around the defaults.   *)
EXTENDS Interface

FewMin     == [fm |-> 9050, am |-> 143000]
FewMax     == [fm |-> 9090, am |-> 144000]
TheDefault == [fm |-> 9070, am |-> 143000]
TheOffset  == [fm |-> 0, am |-> 125000000]

World(left, g, patient, prompt, max) ==
  [left |-> left, gestures |-> g, patient |-> patient, prompt |-> prompt,
   stations |-> [fm |-> {9050, 9090}, am |-> {144000}], max |-> max]

AllWorlds ==
  {World("fm", Gestures \ {"press", "disconnect"}, TRUE, TRUE, 4),
   World("am", Gestures \ {"press", "disconnect"}, TRUE, TRUE, 3),
   World("fm", Gestures, TRUE, FALSE, 2),
   World("fm", {"tab", "settings", "drag", "station"}, FALSE, FALSE, 4),
   World("am", {"tab", "settings", "scan"}, FALSE, FALSE, 2),
   World("fm", Gestures, FALSE, TRUE, 2),
   World("fm", {"scan", "seek", "settings"}, FALSE, TRUE, 2)}
=============================================================================
