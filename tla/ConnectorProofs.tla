--------------------------- MODULE ConnectorProofs ---------------------------
(***************************************************************************)
(* Theorems about module Connector, for every kind of user and any number  *)
(* of connections.                                                         *)
(***************************************************************************)
EXTENDS Connector, SequenceTheorems, TLAPS

USE DEF Reasons, SocketStates, Statuses, Uris, Dead, IsNow

-----------------------------------------------------------------------------
(* What steps do to timers and sockets.                                    *)

\* A callback starts its timer or is lost in a throw.
LEMMA CallbackFacts ==
  ASSUME NEW i \in Nat, NEW reason \in Reasons, timers \in Seq(Reasons),
         Callback(i, reason)
  PROVE  /\ timers' \in Seq(Reasons)
         /\ timers' = timers \/ timers' = Append(timers, reason)
  BY DEF Callback

\* What follows a first timer.
LEMMA TimerFacts ==
  ASSUME timers \in Seq(Reasons), Timer
  PROVE  /\ timers' \in Seq(Reasons)
         /\ StatusOf(Head(timers)) \in {"error", "disconnected", "connected"}
         /\ StatusOf(Head(timers)) = "connected" <=> Head(timers) = "open"
  BY DEF Timer, StatusOf

\* An event of a socket changes its state and that of no other.
LEMMA EventFacts ==
  ASSUME TypeOK, NEW i \in DOMAIN sockets, NEW s \in SocketStates,
         sockets' = [sockets EXCEPT ![i] = s]
  PROVE  /\ sockets' \in Seq(SocketStates) /\ Len(sockets') = Len(sockets)
         /\ i \in 1 .. ws /\ i \in Nat
         /\ sockets'[i] = s
         /\ \A j \in 1 .. ws : j # i => sockets'[j] = sockets[j]
  BY DEF TypeOK

\* So does a click, to the socket there is now.
LEMMA DisconnectFacts ==
  ASSUME TypeOK, ws # 0, Disconnect
  PROVE  /\ sockets' \in Seq(SocketStates) /\ Len(sockets') = Len(sockets)
         /\ sockets'[ws] = CASE sockets[ws] = "open"       -> "closing"
                             [] sockets[ws] = "connecting" -> "aborting"
                             [] OTHER                      -> sockets[ws]
         /\ \A j \in 1 .. ws : j # ws => sockets'[j] = sockets[j]
<1>1. ws \in DOMAIN sockets /\ sockets[ws] \in SocketStates
  BY DEF TypeOK
<1>. QED
  BY <1>1 DEF TypeOK, Disconnect

\* Another connection leaves the earlier sockets as they are.
LEMMA ConnectFacts ==
  ASSUME TypeOK, Connect
  PROVE  /\ sockets' \in Seq(SocketStates) /\ Len(sockets') = Len(sockets) + 1
         /\ ws' = ws + 1 /\ ws \in Nat
         /\ sockets'[ws'] = "connecting"
         /\ \A j \in 1 .. ws : sockets'[j] = sockets[j]
  BY DEF TypeOK, Connect

-----------------------------------------------------------------------------
(* Type correctness.  There is a socket unless nobody has clicked yet.     *)

TypeInv ==
  /\ TypeOK
  /\ ws = 0 => status = "unknown" /\ timers = <<>>
  /\ ~user.settings => renders

LEMMA InitType == Init => TypeInv
  BY ConstantsAssumption DEF Init, TypeInv, TypeOK

LEMMA NextType == TypeInv /\ [Next]_vars => TypeInv'
<1> SUFFICES ASSUME TypeInv, [Next]_vars PROVE TypeInv'
  OBVIOUS
<1> USE ConstantsAssumption DEF TypeInv
<1>1. CASE Edit
  BY <1>1 DEF Edit, TypeOK
<1>2. CASE Disconnect
  <2>1. ws # 0
    BY <1>2 DEF Disconnect
  <2>. QED
    BY <1>2, <2>1, DisconnectFacts DEF Disconnect, TypeOK
<1>3. CASE Connect
  BY <1>3, ConnectFacts DEF Connect, TypeOK
<1>4. CASE Tab
  BY <1>4 DEF Tab, TypeOK
<1>5. CASE Timer
  BY <1>5, TimerFacts DEF Timer, TypeOK
<1>6. ASSUME NEW i \in DOMAIN sockets, Opened(i) PROVE TypeInv'
  <2>1. /\ sockets' \in Seq(SocketStates) /\ Len(sockets') = Len(sockets)
        /\ i \in 1 .. ws /\ i \in Nat
    BY <1>6, EventFacts DEF Opened
  <2>. QED
    BY <1>6, <2>1, CallbackFacts DEF Opened, TypeOK
<1>7. ASSUME NEW i \in DOMAIN sockets, Failed(i) PROVE TypeInv'
  <2>1. /\ sockets' \in Seq(SocketStates) /\ Len(sockets') = Len(sockets)
        /\ i \in 1 .. ws /\ i \in Nat
    BY <1>7, EventFacts DEF Failed
  <2>. QED
    BY <1>7, <2>1, CallbackFacts DEF Failed, TypeOK
<1>8. ASSUME NEW i \in DOMAIN sockets, Closed(i) PROVE TypeInv'
  <2>1. /\ sockets' \in Seq(SocketStates) /\ Len(sockets') = Len(sockets)
        /\ i \in 1 .. ws /\ i \in Nat
    BY <1>8, EventFacts DEF Closed
  <2>. QED
    BY <1>8, <2>1, CallbackFacts DEF Closed, TypeOK
<1>9. CASE UNCHANGED vars
  BY <1>9 DEF vars, TypeOK
<1>. QED
  BY <1>1, <1>2, <1>3, <1>4, <1>5, <1>6, <1>7, <1>8, <1>9
     DEF Next, Resolved, Settled

\* Every variable keeps to its type; the socket there is now is the last one
\* that was made.
THEOREM TypeCorrect == Spec => []TypeOK
<1>1. TypeInv => TypeOK
  BY DEF TypeInv
<1>. QED
  BY <1>1, InitType, NextType, PTL DEF Spec

-----------------------------------------------------------------------------
(* "connecting" is the status of a socket that has not been heard of, or   *)
(* of a timer on its way: the callbacks of the present socket cannot       *)
(* throw, whatever those of earlier ones do.                               *)

LEMMA InitStuck == Init => NeverStuck
  BY DEF Init, NeverStuck

LEMMA NextStuck == TypeInv /\ NeverStuck /\ [Next]_vars => NeverStuck'
<1> SUFFICES ASSUME TypeInv, NeverStuck, [Next]_vars, ~user'.settings,
                    status' = "connecting"
             PROVE  sockets'[ws'] = "connecting" \/ timers' # <<>>
  BY DEF NeverStuck
<1>0. timers \in Seq(Reasons)
  BY DEF TypeInv, TypeOK
<1>1. CASE Edit
  BY <1>1 DEF Edit
<1>2. CASE Disconnect
  BY <1>2 DEF Disconnect, TypeInv
<1>3. CASE Connect
  BY <1>3, ConnectFacts DEF TypeInv
<1>4. CASE Tab
  BY <1>4 DEF Tab
<1>5. CASE Timer
  BY <1>0, <1>5, TimerFacts DEF Timer, TypeInv
<1>6. ASSUME NEW i \in DOMAIN sockets, NEW s \in SocketStates,
             NEW reason \in Reasons, s # "connecting",
             sockets' = [sockets EXCEPT ![i] = s], Callback(i, reason),
             UNCHANGED <<status, ws, user>>
      PROVE  sockets'[ws'] = "connecting" \/ timers' # <<>>
  <2>1. /\ i \in 1 .. ws
        /\ \A j \in 1 .. ws : j # i => sockets'[j] = sockets[j]
    BY <1>6, EventFacts DEF TypeInv
  <2>2. sockets[ws] = "connecting" \/ timers # <<>>
    BY <1>6 DEF NeverStuck
  <2>3. CASE SendThrows(i)
    BY <1>6, <2>1, <2>3 DEF SendThrows, TypeInv, TypeOK
  <2>4. CASE ~SendThrows(i)
    <3>1. renders
      BY <1>6 DEF TypeInv
    <3>. QED
      BY <1>0, <1>6, <2>4, <3>1 DEF Callback, EndsEarly
  <2>. QED
    BY <2>3, <2>4
<1>7. ASSUME NEW i \in DOMAIN sockets, Opened(i) \/ Failed(i) \/ Closed(i)
      PROVE  sockets'[ws'] = "connecting" \/ timers' # <<>>
  BY <1>6, <1>7 DEF Opened, Failed, Closed
<1>8. CASE UNCHANGED vars
  BY <1>8 DEF vars, NeverStuck
<1>. QED
  BY <1>1, <1>2, <1>3, <1>4, <1>5, <1>7, <1>8 DEF Next, Resolved, Settled

\* While the interface is locked by the status "connecting" there is always
\* something on its way that unlocks it, for every user who does not open the
\* settings during a scan: connector.jsx:51 may throw, but never for the
\* socket the status is about, and the rendering of line 52 does not throw.
THEOREM LockIsLifted == Spec => []NeverStuck
<1>. QED
  BY InitType, NextType, InitStuck, NextStuck, PTL DEF Spec

-----------------------------------------------------------------------------
(* Status and controls are set together.                                   *)

LEMMA InitMatch == Init => ControlsMatch
  BY DEF Init, ControlsMatch

LEMMA NextMatch == TypeInv /\ ControlsMatch /\ [Next]_vars => ControlsMatch'
<1> SUFFICES ASSUME TypeInv, ControlsMatch, [Next]_vars, ~user'.settings
             PROVE  /\ status' = "connected" => ~disabled'
                    /\ status' \in {"error", "disconnected"} => disabled'
  BY DEF ControlsMatch
<1> USE DEF ControlsMatch
<1>1. CASE Timer
  BY <1>1, TimerFacts DEF Timer, TypeInv, TypeOK
<1>2. CASE Edit \/ Disconnect \/ Connect \/ Tab \/ UNCHANGED vars
  BY <1>2 DEF Edit, Disconnect, Connect, Tab, vars, TypeInv
<1>3. ASSUME NEW i \in DOMAIN sockets, Resolved(i) \/ Closed(i)
      PROVE  UNCHANGED <<status, disabled, user>>
  BY <1>3 DEF Resolved, Opened, Failed, Closed
<1>. QED
  BY <1>1, <1>2, <1>3 DEF Next, Settled

\* Whoever clicks however fast: the controls are enabled when the status says
\* connected, disabled when it says otherwise.
THEOREM ControlsFollow == Spec => []ControlsMatch
<1>. QED
  BY InitType, NextType, InitMatch, NextMatch, PTL DEF Spec

-----------------------------------------------------------------------------
(* A patient user.  Earlier sockets are dead and their timers have fired;  *)
(* what may be under way of the present one follows from its state.        *)

Patient == user.patient /\ ~user.settings

\* The reason of a dead socket's last timer.
LastReason(s) == IF s = "closed" THEN "close" ELSE "error"

Stage(s, ts, st) ==
  \/ s = "connecting" /\ ts = <<>> /\ st = "connecting"
  \/ s = "open" /\ ts = <<"open">> /\ st = "connecting"
  \/ s = "open" /\ ts = <<>> /\ st = "connected"
  \/ s = "closing" /\ ts = <<>> /\ st = "disconnected"
  \/ /\ s \in {"closed", "failed"}
     /\ \/ ts = <<"open", LastReason(s)>> /\ st = "connecting"
        \/ ts = <<LastReason(s)>> /\ st \in {"connected", "disconnected"}
        \/ ts = <<>> /\ st \in {StatusOf(LastReason(s)), "unknown"}
  \/ s = "failed" /\ ts = <<"error">> /\ st = "connecting"

PatientInv ==
  Patient =>
    /\ disabled <=> status # "connected"
    /\ ws # 0 => Stage(sockets[ws], timers, status)
    /\ \A j \in 1 .. ws : j # ws => Dead(j)

\* Sequences of at most two timers, for the provers.
LEMMA ShortQueues ==
  /\ \A r \in Reasons : /\ Append(<<>>, r) = <<r>>
                        /\ Head(<<r>>) = r /\ Tail(<<r>>) = <<>>
                        /\ <<r>> # <<>>
  /\ \A q, r \in Reasons : /\ Append(<<q>>, r) = <<q, r>>
                           /\ Head(<<q, r>>) = q /\ Tail(<<q, r>>) = <<r>>
                           /\ <<q, r>> # <<>> /\ <<q, r>> # <<r>>
                           /\ <<q, r>> # <<q>>
  /\ \A q, r \in Reasons : <<q>> = <<r>> => q = r
<1>1. ASSUME NEW r \in Reasons
      PROVE  /\ Append(<<>>, r) = <<r>> /\ Head(<<r>>) = r
             /\ Tail(<<r>>) = <<>> /\ <<r>> # <<>>
  OBVIOUS
<1>2. ASSUME NEW q \in Reasons, NEW r \in Reasons
      PROVE  /\ Append(<<q>>, r) = <<q, r>> /\ Head(<<q, r>>) = q
             /\ Tail(<<q, r>>) = <<r>>
  <2>1. Append(<<q>>, r) = <<q, r>>
    <3>1. <<q>> \in Seq(Reasons) /\ Len(<<q>>) = 1 /\ <<q>>[1] = q
      OBVIOUS
    <3>2. /\ Append(<<q>>, r) \in Seq(Reasons) /\ Len(Append(<<q>>, r)) = 2
          /\ Append(<<q>>, r)[1] = q /\ Append(<<q>>, r)[2] = r
      BY <3>1
    <3>3. /\ <<q, r>> \in Seq(Reasons) /\ Len(<<q, r>>) = 2
          /\ <<q, r>>[1] = q /\ <<q, r>>[2] = r
      OBVIOUS
    <3>4. \A i \in 1 .. 2 : Append(<<q>>, r)[i] = <<q, r>>[i]
      BY <3>2, <3>3
    <3>. QED
      BY <3>2, <3>3, <3>4, SeqEqual
  <2>2. Head(<<q, r>>) = q
    OBVIOUS
  <2>3. Tail(<<q, r>>) = <<r>>
    <3>1. /\ Tail(<<q, r>>) \in Seq(Reasons) /\ Len(Tail(<<q, r>>)) = 1
          /\ Tail(<<q, r>>)[1] = r
      OBVIOUS
    <3>2. <<r>> \in Seq(Reasons) /\ Len(<<r>>) = 1 /\ <<r>>[1] = r
      OBVIOUS
    <3>. QED
      BY <3>1, <3>2
  <2>. QED
    BY <2>1, <2>2, <2>3
<1>3. ASSUME NEW q \in Reasons, NEW r \in Reasons
      PROVE  /\ <<q, r>> # <<>> /\ <<q, r>> # <<r>> /\ <<q, r>> # <<q>>
             /\ <<q>> = <<r>> => q = r
  <2>1. Len(<<q, r>>) = 2 /\ Len(<<q>>) = 1 /\ Len(<<r>>) = 1 /\ Len(<<>>) = 0
    OBVIOUS
  <2>2. <<q>>[1] = q /\ <<r>>[1] = r
    OBVIOUS
  <2>. QED
    BY <2>1, <2>2
<1>. QED
  BY <1>1, <1>2, <1>3

LEMMA InitPatient == Init => PatientInv
  BY DEF Init, PatientInv

\* The three events, one at a time.
LEMMA EventPatient ==
  ASSUME TypeInv, PatientInv, Patient,
         NEW i \in DOMAIN sockets, Resolved(i) \/ Closed(i)
  PROVE  PatientInv'
<1>1. /\ i \in 1 .. ws /\ ws # 0 /\ ~Dead(i)
      /\ UNCHANGED <<status, disabled, ws, user>>
  BY DEF TypeInv, TypeOK, Resolved, Opened, Failed, Closed
<1>2. i = ws
  BY <1>1 DEF PatientInv
<1>3. Stage(sockets[ws], timers, status)
  BY <1>1 DEF PatientInv
<1>4. ~EndsEarly(ws)
  BY DEF EndsEarly, SendThrows, TypeInv, Patient
<1>5. timers' = Append(timers, "open") \/ timers' = Append(timers, "error")
      \/ timers' = Append(timers, "close")
  BY <1>2, <1>4 DEF Resolved, Opened, Failed, Closed, Callback
<1>6. \A j \in 1 .. ws : j # ws => sockets'[j] = sockets[j]
  BY <1>2, EventFacts DEF TypeInv, Resolved, Opened, Failed, Closed
<1>7. Stage(sockets'[ws], timers', status)
  <2>1. CASE Opened(ws)
    <3>1. sockets'[ws] = "open" /\ timers' = Append(timers, "open")
          /\ sockets[ws] = "connecting"
      BY <1>2, <1>4, <2>1, EventFacts DEF TypeInv, Opened, Callback
    <3>. QED
      BY <1>3, <3>1, ShortQueues DEF Stage
  <2>2. CASE Failed(ws)
    <3>1. sockets'[ws] = "failed" /\ timers' = Append(timers, "error")
          /\ sockets[ws] \in {"connecting", "aborting", "open"}
      BY <1>2, <1>4, <2>2, EventFacts DEF TypeInv, Failed, Callback
    <3>2. LastReason("failed") = "error"
      BY DEF LastReason
    <3>. QED
      BY <1>3, <3>1, <3>2, ShortQueues DEF Stage
  <2>3. CASE Closed(ws)
    <3>1. sockets'[ws] = "closed" /\ timers' = Append(timers, "close")
          /\ sockets[ws] \in {"open", "closing"}
      BY <1>2, <1>4, <2>3, EventFacts DEF TypeInv, Closed, Callback
    <3>2. LastReason("closed") = "close"
      BY DEF LastReason
    <3>. QED
      BY <1>3, <3>1, <3>2, ShortQueues DEF Stage
  <2>. QED
    BY <1>2, <2>1, <2>2, <2>3 DEF Resolved
<1>. QED
  BY <1>1, <1>6, <1>7 DEF PatientInv, Patient

LEMMA TimerPatient ==
  ASSUME TypeInv, PatientInv, Patient, Timer
  PROVE  PatientInv'
<1>1. ws # 0 /\ UNCHANGED <<sockets, ws, user>> /\ renders
  BY DEF Timer, TypeInv, Patient
<1>2. Stage(sockets[ws], timers, status) /\ timers # <<>>
  BY <1>1 DEF PatientInv, Timer
<1>3. /\ timers' = Tail(timers)
      /\ status' = StatusOf(Head(timers))
      /\ disabled' = (Head(timers) # "open")
  BY <1>1 DEF Timer
<1>4. /\ StatusOf("open") = "connected" /\ StatusOf("close") = "disconnected"
      /\ StatusOf("error") = "error"
  BY DEF StatusOf
<1>5. CASE timers = <<"open">>
  <2>1. timers' = <<>> /\ status' = "connected" /\ disabled' = FALSE
    BY <1>3, <1>4, <1>5, ShortQueues
  <2>2. sockets[ws] = "open"
    BY <1>2, <1>5, ShortQueues DEF Stage, LastReason
  <2>3. Stage(sockets'[ws'], timers', status')
    BY <1>1, <2>1, <2>2 DEF Stage
  <2>. QED
    BY <1>1, <2>1, <2>3 DEF PatientInv, Patient
<1>6. CASE /\ sockets[ws] \in {"closed", "failed"}
           /\ timers = <<LastReason(sockets[ws])>>
  <2> DEFINE r == LastReason(sockets[ws])
  <2>1. r \in {"close", "error"} /\ StatusOf(r) # "connected"
    BY <1>4 DEF LastReason
  <2>2. timers' = <<>> /\ status' = StatusOf(r) /\ disabled' = TRUE
    BY <1>3, <1>6, <2>1, ShortQueues
  <2>3. Stage(sockets'[ws'], timers', status')
    BY <1>1, <1>6, <2>2 DEF Stage
  <2>. QED
    BY <1>1, <2>1, <2>2, <2>3 DEF PatientInv, Patient
<1>7. CASE /\ sockets[ws] \in {"closed", "failed"}
           /\ timers = <<"open", LastReason(sockets[ws])>>
  <2> DEFINE r == LastReason(sockets[ws])
  <2>1. r \in {"close", "error"}
    BY DEF LastReason
  <2>2. timers' = <<r>> /\ status' = "connected" /\ disabled' = FALSE
    BY <1>3, <1>4, <1>7, <2>1, ShortQueues
  <2>3. Stage(sockets'[ws'], timers', status')
    BY <1>1, <1>7, <2>2 DEF Stage
  <2>. QED
    BY <1>1, <2>2, <2>3 DEF PatientInv, Patient
<1>. QED
  BY <1>2, <1>5, <1>6, <1>7 DEF Stage, LastReason

LEMMA NextPatient == TypeInv /\ PatientInv /\ [Next]_vars => PatientInv'
<1> SUFFICES ASSUME TypeInv, PatientInv, [Next]_vars, Patient'
             PROVE  PatientInv'
  BY DEF PatientInv
<1>0. Patient /\ ws \in Nat /\ renders
  <2>1. user' = user
    BY DEF Next, Edit, Disconnect, Connect, Tab, Timer, Settled, Resolved,
       Opened, Failed, Closed, vars
  <2>. QED
    BY <2>1 DEF Patient, TypeInv, TypeOK
<1>1. CASE Edit
  <2>1. Quiet /\ Alone
    BY <1>0, <1>1 DEF Edit, Patient
  <2>2. timers = <<>> /\ (ws # 0 => sockets[ws] \in {"closed", "failed"})
    BY <2>1 DEF Quiet, Alone, TypeInv, TypeOK
  <2>3. status # "connected"
    BY <1>0, <2>2 DEF PatientInv, Stage, StatusOf, LastReason, TypeInv
  <2>. QED
    BY <1>0, <1>1, <2>2, <2>3 DEF Edit, PatientInv, Stage, Patient
<1>2. CASE Disconnect
  <2>1. ws # 0
    BY <1>2 DEF Disconnect, TypeInv
  <2>2. Stage(sockets[ws], timers, "connected")
    BY <1>0, <1>2, <2>1 DEF PatientInv, Disconnect
  <2>3. Stage(sockets'[ws], timers, "disconnected")
    BY <1>2, <2>1, <2>2, DisconnectFacts, ShortQueues
       DEF Stage, LastReason, StatusOf, TypeInv
  <2>4. /\ \A j \in 1 .. ws : j # ws => sockets'[j] = sockets[j]
        /\ status' = "disconnected" /\ disabled' = TRUE
        /\ UNCHANGED <<timers, ws>>
    BY <1>0, <1>2, <2>1, DisconnectFacts DEF Disconnect, TypeInv
  <2>. QED
    BY <1>0, <2>3, <2>4 DEF PatientInv
<1>3. CASE Connect
  <2>1. timers = <<>> /\ status # "connected"
    BY <1>0, <1>3 DEF Connect, Patient, Quiet
  <2>2. \A j \in 1 .. ws : Dead(j)
    <3>1. \A j \in 1 .. ws : j = ws => sockets[j] # "open"
      BY <1>0, <2>1 DEF PatientInv, Stage
    <3>. QED
      BY <1>0, <1>3, <3>1
         DEF PatientInv, Connect, Patient, Quiet, TypeInv, TypeOK
  <2>3. Stage(sockets'[ws'], timers', status')
    BY <1>3, <2>1, ConnectFacts DEF Connect, Stage, TypeInv
  <2>4. \A j \in 1 .. ws' : j # ws' => Dead(j)'
    BY <1>3, <2>2, ConnectFacts DEF TypeInv
  <2>5. status' = "connecting" /\ disabled' = disabled /\ disabled
    BY <1>0, <1>3, <2>1 DEF Connect, PatientInv
  <2>. QED
    BY <2>3, <2>4, <2>5 DEF PatientInv
<1>4. CASE Tab
  BY <1>0, <1>4 DEF Tab, Patient
<1>5. CASE Timer
  BY <1>0, <1>5, TimerPatient
<1>6. ASSUME NEW i \in DOMAIN sockets, Resolved(i) \/ Closed(i)
      PROVE  PatientInv'
  BY <1>0, <1>6, EventPatient
<1>7. CASE UNCHANGED vars
  BY <1>0, <1>7 DEF vars, PatientInv, Patient
<1>. QED
  BY <1>1, <1>2, <1>3, <1>4, <1>5, <1>6, <1>7 DEF Next, Settled

LEMMA PatientAlways == Spec => [](TypeInv /\ PatientInv)
<1>. QED
  BY InitType, NextType, InitPatient, NextPatient, PTL DEF Spec

\* For a patient user the status is the state of the socket once everything
\* has come in: the "close" after an "error" is left out, and the timers fire
\* in the order of the events.
THEOREM StatusIsHonest == Spec => []Honest
<1>1. TypeInv /\ PatientInv => Honest
  <2> SUFFICES ASSUME TypeInv, PatientInv, Patient, Quiet
               PROVE  /\ status = "connected" <=> IsNow("open")
                      /\ status = "error" => IsNow("failed")
                      /\ IsNow("failed") => status \in {"error", "unknown"}
    BY DEF Honest, Patient
  <2>1. timers = <<>>
    BY DEF Quiet
  <2>2. CASE ws = 0
    BY <2>2 DEF TypeInv
  <2>3. CASE ws # 0
    <3>1. sockets[ws] = "open" \/ Dead(ws)
      BY <2>3 DEF Quiet, TypeInv, TypeOK
    <3>2. Stage(sockets[ws], <<>>, status)
      BY <2>1, <2>3 DEF PatientInv
    <3>. QED
      BY <2>3, <3>1, <3>2, ShortQueues DEF Stage, StatusOf, LastReason
  <2>. QED
    BY <2>2, <2>3
<1>. QED
  BY <1>1, PatientAlways, PTL

\* A patient user never has two connections.
THEOREM NeverTwo == Spec => []OneConnection
<1>1. TypeInv /\ PatientInv => OneConnection
  BY DEF TypeInv, TypeOK, PatientInv, Patient, OneConnection
<1>. QED
  BY <1>1, PatientAlways, PTL

\* For a patient user nothing is sent while the socket is connecting, which
\* would throw: the controls are disabled by then.
THEOREM SendsAreSafe == Spec => []SendIsSafe
<1>1. TypeInv /\ PatientInv => SendIsSafe
  BY ShortQueues DEF TypeInv, PatientInv, Patient, SendIsSafe, Stage
<1>. QED
  BY <1>1, PatientAlways, PTL
=============================================================================
