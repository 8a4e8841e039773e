------------------------------ MODULE MCDemod ------------------------------
(***************************************************************************)
(* Small instances of Demod for TLC.                                       *)
(***************************************************************************)
EXTENDS Demod

\* Change the rate, for good, or the mode, either way: the commands of the
\* interface have one option.
SingleCommands ==
  {[rate |-> r, mode |-> "NONE"] : r \in Rates \ {InitRate}}
    \cup {[rate |-> NoRate, mode |-> m] : m \in Modes}

\* Change the mode either way.  A command for the mode there is stands for
\* all that change nothing: tuning and scanning end in demod_execute too.
ModeCommands == [rate : {NoRate}, mode : Modes]

\* Change the mode once, from FM to AM; from then on the command stands for
\* those that change nothing.
SwitchToAM == {[rate |-> NoRate, mode |-> "AM"]}
=============================================================================
