------------------------------ MODULE Connector ------------------------------
(***************************************************************************)
(* The connection of the interface (connector.jsx, client.jsx): the status *)
(* the user sees, the sockets behind it, and the quarter-second timers     *)
(* between the events of a socket and the status.  A socket that was       *)
(* replaced keeps its callbacks, which act on the status and on whatever   *)
(* socket there is now.                                                    *)
(*                                                                         *)
(* The browser's WebSocket is modelled from what client.jsx uses of it:    *)
(* send() throws while the socket is connecting and is ignored once it is  *)
(* closing or closed; a failure fires "error" and then "close".  setState  *)
(* is React's: it renders at once in a timer or in a callback of a socket, *)
(* and a component that throws keeps the state it was given.               *)
(***************************************************************************)
EXTENDS Naturals, Sequences

CONSTANTS
  Users,        \* kinds of users, [patient, settings], see below
  MaxSockets    \* bound: how many connections are tried

ASSUME ConstantsAssumption ==
  /\ Users \subseteq [patient : BOOLEAN, settings : BOOLEAN]
  /\ MaxSockets \in Nat

VARIABLES
  status,     \* connector: state.status
  uri,        \* connector: state.uri, by what becomes of it
  disabled,   \* modulations: state.disabled
  renders,    \* does modulations render, or does it throw?
  sockets,    \* the WebSockets there have been
  ws,         \* Client.ws, 0 when there is none yet
  timers,     \* the reasons of the timers that run, oldest first
  user        \* who uses the interface, one of Users for good

vars == <<status, uri, disabled, renders, sockets, ws, timers, user>>

Statuses == {"unknown", "connecting", "connected", "disconnected", "error"}
Reasons  == {"open", "close", "error"}

\* isValidWebSocketUri accepts addresses, such as ws://h:99999, which the
\* WebSocket constructor does not.
Uris == {"malformed", "unacceptable", "good"}

\* "aborting": closed before it was open; "failed": closed after an error
SocketStates ==
  {"connecting", "open", "closing", "aborting", "closed", "failed"}

Dead(i)  == sockets[i] \in {"closed", "failed"}
IsNow(s) == ws # 0 /\ sockets[ws] = s

(***************************************************************************)
(* A patient user connects anew only when nothing of the last connection   *)
(* is under way any more, and edits the address only when there is no      *)
(* connection.  A user of the settings opens them while a scan is on: then *)
(* modulations.jsx:44 looks for a list of stations that is not there.      *)
(***************************************************************************)
Quiet ==
  timers = <<>> /\ \A i \in DOMAIN sockets : sockets[i] = "open" \/ Dead(i)
Alone == \A i \in DOMAIN sockets : Dead(i)

Init ==
  /\ status = "unknown"
  /\ uri = "good"
  /\ disabled = TRUE
  /\ renders = TRUE
  /\ sockets = <<>>
  /\ ws = 0
  /\ timers = <<>>
  /\ user \in Users

-----------------------------------------------------------------------------
(* What the user does.                                                     *)

Edit ==                             \* onChange
  /\ status # "connecting"          \* inputDisabled
  /\ user.patient => Quiet /\ Alone
  /\ uri' \in Uris
  /\ status' = "unknown"
  /\ UNCHANGED <<disabled, renders, sockets, ws, timers, user>>

\* Both states are set in one batch, modulations' first.
Disconnect ==                       \* onClick, "Disconnect"
  /\ status = "connected" /\ uri # "malformed"
  /\ sockets' = [sockets EXCEPT ![ws] =
                  CASE @ = "open"       -> "closing"
                    [] @ = "connecting" -> "aborting"
                    [] OTHER            -> @]
  /\ disabled' = TRUE
  /\ status' = IF renders THEN "disconnected" ELSE status
  /\ UNCHANGED <<uri, renders, ws, timers, user>>

\* With an address the constructor does not accept it throws: nothing changes.
Connect ==                          \* onClick, "Connect"
  /\ status \in {"error", "disconnected", "unknown"}
  /\ user.patient => Quiet
  /\ uri = "good"
  /\ Len(sockets) < MaxSockets
  /\ sockets' = Append(sockets, "connecting")
  /\ ws' = Len(sockets')
  /\ status' = "connecting"
  /\ UNCHANGED <<uri, disabled, renders, timers, user>>

\* The settings tab is opened or left, or the next heartbeat says otherwise.
Tab ==
  /\ user.settings /\ ws # 0
  /\ renders' = ~renders
  /\ UNCHANGED <<status, uri, disabled, sockets, ws, timers, user>>

-----------------------------------------------------------------------------
(* Events of socket i.  The callback sends "-f 90700000" and then sets a   *)
(* state of modulations, which renders at once: it ends there, without a   *)
(* timer, if the socket there is now is connecting or modulations throws.  *)

SendThrowsUnlessOpen(i) == sockets'[ws] # "open"

SendThrows(i) == ws # i /\ sockets[ws] = "connecting"

EndsEarly(i) == SendThrows(i) \/ ~renders

Callback(i, reason) ==
  timers' = IF EndsEarly(i) THEN timers ELSE Append(timers, reason)

Opened(i) ==
  /\ sockets[i] = "connecting"
  /\ sockets' = [sockets EXCEPT ![i] = "open"]
  /\ Callback(i, "open")
  /\ UNCHANGED <<status, uri, disabled, renders, ws, user>>

FailedTwice(i) ==
  /\ sockets[i] \in {"connecting", "aborting", "open"}
  /\ sockets' = [sockets EXCEPT ![i] = "failed"]
  /\ timers' = IF EndsEarly(i) THEN timers ELSE timers \o <<"error", "close">>
  /\ UNCHANGED <<status, uri, disabled, renders, ws, user>>

\* ignoreClose: the "close" that follows the "error" is left out
Failed(i) ==
  /\ sockets[i] \in {"connecting", "aborting", "open"}
  /\ sockets' = [sockets EXCEPT ![i] = "failed"]
  /\ Callback(i, "error")
  /\ UNCHANGED <<status, uri, disabled, renders, ws, user>>

Closed(i) ==                        \* by the server, or as asked
  /\ sockets[i] \in {"open", "closing"}
  /\ sockets' = [sockets EXCEPT ![i] = "closed"]
  /\ Callback(i, "close")
  /\ UNCHANGED <<status, uri, disabled, renders, ws, user>>

StatusOf(reason) ==
  CASE reason = "error" -> "error"
    [] reason = "close" -> "disconnected"
    [] OTHER            -> "connected"

TimerStatusOnly ==
  /\ timers # <<>>
  /\ timers' = Tail(timers)
  /\ disabled' = (Head(timers) = "error")
  /\ status' = IF renders THEN StatusOf(Head(timers)) ELSE status
  /\ UNCHANGED <<uri, renders, sockets, ws, user>>

Timer ==                            \* 250 ms after the callback
  /\ timers # <<>>
  /\ timers' = Tail(timers)
  /\ disabled' = (Head(timers) # "open")
  /\ status' = IF renders THEN StatusOf(Head(timers)) ELSE status
  /\ UNCHANGED <<uri, renders, sockets, ws, user>>

Resolved(i) == Opened(i) \/ Failed(i)
Settled     == Quiet /\ UNCHANGED vars

Next ==
  \/ Edit \/ Disconnect \/ Connect \/ Tab \/ Timer \/ Settled
  \/ \E i \in DOMAIN sockets : Resolved(i) \/ Closed(i)

Spec == Init /\ [][Next]_vars

(***************************************************************************)
(* The browser gives up a connection or a closing handshake in the end,    *)
(* and its timers fire.  Nobody has to click.                              *)
(***************************************************************************)
FairSpec ==
  /\ Spec
  /\ WF_vars(Timer)
  /\ \A i \in 1 .. MaxSockets :
       /\ WF_vars(i \in DOMAIN sockets /\ Resolved(i))
       /\ WF_vars(i \in DOMAIN sockets /\ sockets[i] = "closing" /\ Closed(i))

-----------------------------------------------------------------------------
(* Properties.                                                             *)

\* Type invariant.
TypeOK ==
  /\ status \in Statuses /\ uri \in Uris
  /\ disabled \in BOOLEAN /\ renders \in BOOLEAN
  /\ sockets \in Seq(SocketStates) /\ Len(sockets) <= MaxSockets
  /\ ws = Len(sockets)
  /\ timers \in Seq(Reasons)
  /\ user \in Users

\* Button and address are locked while the status is "connecting": there is
\* always something on its way that unlocks them, a socket that is about to
\* open or fail, or a timer.  No callback is lost in a throw that matters.
NeverStuck ==
  ~user.settings /\ status = "connecting" =>
    sockets[ws] = "connecting" \/ timers # <<>>

\* Whoever clicks whatever however fast, the controls of the radio are
\* enabled when the status says connected, disabled when it says it is not.
ControlsMatch ==
  ~user.settings =>
    /\ status = "connected" => ~disabled
    /\ status \in {"error", "disconnected"} => disabled

\* For a patient user the status is, in the end, the state of the socket:
\* late events of earlier sockets and of its own are not taken for others.
Honest ==
  user.patient /\ ~user.settings /\ Quiet =>
    /\ status = "connected" <=> IsNow("open")
    /\ status = "error" => IsNow("failed")
    /\ IsNow("failed") => status \in {"error", "unknown"}

\* A patient user has one connection at a time: the samples of two would be
\* put into one queue.
OneConnection ==
  user.patient /\ ~user.settings =>
    \A i, j \in DOMAIN sockets : Dead(i) \/ Dead(j) \/ i = j

\* Client.send throws on a socket that is connecting: for a patient user the
\* controls are disabled then.
SendIsSafe ==
  user.patient /\ ~user.settings => (IsNow("connecting") => disabled)

\* "transition in a little bit so the user can see" (connector.jsx:55): the
\* status does not stay "connecting".
ConnectingEnds ==
  ~user.settings /\ status = "connecting" ~> status # "connecting"
=============================================================================
