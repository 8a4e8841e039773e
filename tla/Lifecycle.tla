------------------------------ MODULE Lifecycle ------------------------------
(***************************************************************************)
(* What a program promises about its parts: a part is created, used and    *)
(* freed, in that order and once.  A thread starts when everything it uses *)
(* is there, and a part is freed when no thread that uses it runs any      *)
(* more.                                                                   *)
(***************************************************************************)
CONSTANTS
  Parts, Threads,
  Uses            \* for each thread, the parts it uses

VARIABLES
  live, freed,        \* parts
  running, stopped    \* threads

vars == <<live, freed, running, stopped>>

Init == live = {} /\ freed = {} /\ running = {} /\ stopped = {}

Create(p) ==
  /\ p \notin live \cup freed
  /\ live' = live \cup {p}
  /\ UNCHANGED <<freed, running, stopped>>

Start(t) ==
  /\ t \notin running \cup stopped
  /\ Uses[t] \subseteq live
  /\ running' = running \cup {t}
  /\ UNCHANGED <<live, freed, stopped>>

Stop(t) ==
  /\ t \in running
  /\ running' = running \ {t} /\ stopped' = stopped \cup {t}
  /\ UNCHANGED <<live, freed>>

Free(p) ==
  /\ p \in live
  /\ \A t \in running : p \notin Uses[t]
  /\ live' = live \ {p} /\ freed' = freed \cup {p}
  /\ UNCHANGED <<running, stopped>>

Next == \/ \E p \in Parts : Create(p) \/ Free(p)
        \/ \E t \in Threads : Start(t) \/ Stop(t)

Spec == Init /\ [][Next]_vars
=============================================================================
