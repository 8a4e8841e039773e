----------------------------- MODULE Websocket -----------------------------
(***************************************************************************)
(* websocket.c: the one-message output buffer between "main", which puts   *)
(* every block it pops there (websocket_send), and "ws", the thread that   *)
(* runs libwebsocket_service and writes to the browser                     *)
(* (_websocket_sdr_callback).                                              *)
(*                                                                         *)
(* libwebsockets is external.  One turn of its loop is modelled by the     *)
(* callbacks it may make, one at a time: a connection is established,      *)
(* closed, sends a command or is writable, or nothing happens              *)
(* (GET_THREAD_ID is called on every turn).  A connection for which a      *)
(* callback returns -1 is closed.  A message is the number of the call of  *)
(* websocket_send that made it, and a size.                                *)
(***************************************************************************)
EXTENDS Integers

CONSTANTS
  Conns,       \* connections that browsers may open
  NoConn,      \* the NULL of primary_wsi
  Sizes,       \* sizes of a message: without and with the heartbeat header
  MaxMessages  \* bound: message numbers saturate at this value

ASSUME ConstantsAssumption ==
  /\ NoConn \notin Conns
  /\ Sizes \subseteq Nat \ {0}
  /\ MaxMessages \in Nat \ {0}

VARIABLES
  output,      \* the message in ws->output, 0 for none, and ws->output_size
  output_sem,  \* the value of the semaphore
  output_m,    \* the thread that holds the mutex, or "none"
  primary,     \* primary_wsi
  asked,       \* was callback_on_writable called since it was last writable?
  pc,          \* where each thread is
  n,           \* ws: the result of libwebsocket_write; was that all of it?
  status,      \* ws: what the callback will return
  queued,      \* the last message websocket_send was called with
  written      \* the last message libwebsocket_write was called with

vars == <<output, output_sem, output_m, primary, asked, pc, n, status, queued,
          written>>

NoResult == [len |-> 0, all |-> FALSE]
Saturate(k) == IF k < MaxMessages THEN k ELSE MaxMessages
Goto(t, from, to) == pc[t] = from /\ pc' = [pc EXCEPT ![t] = to]

Init ==
  /\ output = [msg |-> 0, size |-> 0]
  /\ output_sem = 0
  /\ output_m = "none"
  /\ primary = NoConn
  /\ asked = FALSE
  /\ pc = [t \in {"main", "ws"} |-> IF t = "main" THEN "idle" ELSE "poll"]
  /\ n = NoResult
  /\ status = 0
  /\ queued = 0
  /\ written = 0

-----------------------------------------------------------------------------
(* "main": websocket_send.                                                 *)

SendLock ==
  /\ Goto("main", "idle", "copy")
  /\ output_m = "none"
  /\ output_m' = "main"
  /\ queued' = Saturate(queued + 1)
  /\ UNCHANGED <<output, output_sem, primary, asked, n, status, written>>

SendCopy ==
  /\ Goto("main", "copy", "getValue")
  /\ \E size \in Sizes : output' = [msg |-> queued, size |-> size]
  /\ output_m' = "none"
  /\ UNCHANGED <<output_sem, primary, asked, n, status, queued, written>>

SendAlwaysPost ==
  /\ Goto("main", "getValue", "post")
  /\ UNCHANGED <<output, output_sem, output_m, primary, asked, n, status,
                 queued, written>>

SendGetValue ==                     \* post only if nothing is posted yet
  /\ \/ output_sem = 0 /\ Goto("main", "getValue", "post")
     \/ output_sem # 0 /\ Goto("main", "getValue", "idle")
  /\ UNCHANGED <<output, output_sem, output_m, primary, asked, n, status,
                 queued, written>>

SendPost ==
  /\ Goto("main", "post", "idle")
  /\ output_sem' = output_sem + 1
  /\ UNCHANGED <<output, output_m, primary, asked, n, status, queued, written>>

-----------------------------------------------------------------------------
(* "ws": one callback.  A connection other than the primary one is turned  *)
(* away by the first test of the callback and changes nothing.             *)

EstablishedClears ==
  /\ Goto("ws", "poll", "ask")
  /\ primary = NoConn
  /\ primary' \in Conns
  /\ output' = [msg |-> 0, size |-> 0]
  /\ UNCHANGED <<output_sem, output_m, asked, n, status, queued, written>>

Established ==
  /\ Goto("ws", "poll", "ask")
  /\ primary = NoConn
  /\ primary' \in Conns
  /\ UNCHANGED <<output, output_sem, output_m, asked, n, status, queued, written>>

\* RECEIVE runs a command, which leaves this component alone, and
\* GET_THREAD_ID is called on every turn: both end in the test of Ask.
OtherCallback ==
  /\ Goto("ws", "poll", "ask")
  /\ UNCHANGED <<output, output_sem, output_m, primary, asked, n, status,
                 queued, written>>

Closed ==                           \* the browser goes away
  /\ Goto("ws", "poll", "ask")
  /\ primary # NoConn
  /\ primary' = NoConn
  /\ asked' = FALSE
  /\ UNCHANGED <<output, output_sem, output_m, n, status, queued, written>>

Writeable ==                        \* sem_trywait fails: nothing to write
  /\ \/ output_sem = 0 /\ Goto("ws", "poll", "ask")
     \/ output_sem > 0 /\ Goto("ws", "poll", "lock")
  /\ primary # NoConn
  /\ asked
  /\ asked' = FALSE
  /\ output_sem' = IF output_sem = 0 THEN 0 ELSE output_sem - 1
  /\ UNCHANGED <<output, output_m, primary, n, status, queued, written>>

WriteLock ==
  /\ Goto("ws", "lock", "write")
  /\ output_m = "none"
  /\ output_m' = "ws"
  /\ UNCHANGED <<output, output_sem, primary, asked, n, status, queued, written>>

Write ==                            \* fails, or takes a part, or all of it
  /\ Goto("ws", "write", "compare")
  /\ \E k \in -1 .. output.size : n' = [len |-> k, all |-> k = output.size]
  /\ written' = output.msg
  /\ output_m' = "none"
  /\ UNCHANGED <<output, output_sem, primary, asked, status, queued>>

CompareDrains ==
  /\ Goto("ws", "compare", "ask")
  /\ status' = IF n.len < output.size THEN -1 ELSE 0
  /\ n' = NoResult
  /\ output_sem' = 0
  /\ UNCHANGED <<output, output_m, primary, asked, queued, written>>

Compare ==                          \* with output_size, the mutex released
  /\ Goto("ws", "compare", "ask")
  /\ status' = IF n.len < output.size THEN -1 ELSE 0
  /\ n' = NoResult                     \* the local is used again by Ask
  /\ UNCHANGED <<output, output_sem, output_m, primary, asked, queued, written>>

AskNever ==
  /\ \/ status = 0  /\ Goto("ws", "ask", "poll")
     \/ status = -1 /\ Goto("ws", "ask", "close")
  /\ UNCHANGED <<output, output_sem, output_m, primary, asked, n, status,
                 queued, written>>

Ask ==                              \* the tail of the callback, and return
  /\ \/ status = 0  /\ Goto("ws", "ask", "poll")
     \/ status = -1 /\ Goto("ws", "ask", "close")
  /\ asked' = (asked \/ (primary # NoConn /\ output_sem > 0))
  /\ UNCHANGED <<output, output_sem, output_m, primary, n, status, queued,
                 written>>

Close ==                            \* libwebsockets: the callback returned -1
  /\ Goto("ws", "close", "poll")
  /\ primary' = NoConn
  /\ asked' = FALSE
  /\ status' = 0
  /\ UNCHANGED <<output, output_sem, output_m, n, queued, written>>

-----------------------------------------------------------------------------
Main == SendLock \/ SendCopy \/ SendGetValue \/ SendPost
Turn == WriteLock \/ Write \/ Compare \/ Ask \/ Close
Ws   == Established \/ OtherCallback \/ Closed \/ Writeable \/ Turn

Next == Main \/ Ws

Spec == Init /\ [][Next]_vars

(***************************************************************************)
(* libwebsocket_service polls every 50 ms at the latest, serves every      *)
(* descriptor that is ready on each turn, and a connection that stays open *)
(* is writable again and again; the thread gets output_m, which main holds *)
(* for the time of a memcpy.  main keeps running inside websocket_send,    *)
(* but nothing makes it call it, and nothing makes browsers come or go.    *)
(***************************************************************************)
Fairness ==
  /\ WF_vars(SendCopy \/ SendGetValue \/ SendPost)
  /\ WF_vars(OtherCallback)
  /\ SF_vars(Writeable)
  /\ SF_vars(WriteLock)
  /\ WF_vars(Write \/ Compare \/ Ask \/ Close)

FairSpec == Spec /\ Fairness

-----------------------------------------------------------------------------
(* Properties.                                                             *)

Messages == 0 .. MaxMessages

\* Type invariant.  The semaphore is binary: websocket_send reads its value
\* and posts in two steps, while the other thread takes it.
TypeOK ==
  /\ output \in [msg : Messages, size : Sizes \cup {0}]
  /\ output_sem \in {0, 1}
  /\ output_m \in {"none", "main", "ws"}
  /\ primary \in Conns \cup {NoConn}
  /\ asked \in BOOLEAN
  /\ pc \in [{"main", "ws"} -> {"idle", "copy", "getValue", "post", "poll",
                                "lock", "write", "compare", "ask", "close"}]
  /\ pc["main"] \in {"idle", "copy", "getValue", "post"}
  /\ pc["ws"] \in {"poll", "lock", "write", "compare", "ask", "close"}
  /\ n \in [len : Int, all : BOOLEAN]
  /\ status \in {0, -1}
  /\ queued \in Messages
  /\ written \in Messages

\* No message is forgotten: one that is in the buffer and was not written
\* is announced by the semaphore, or websocket_send is about to post it, or
\* the thread has taken the semaphore and is about to write it, although
\* websocket_send tests the semaphore and posts it in two steps.
NothingForgotten ==
  output.msg # written =>
    output_sem = 1 \/ pc["main"] \in {"getValue", "post"}
                   \/ pc["ws"] \in {"lock", "write"}

\* The message is not replaced while libwebsocket_write sends it, and not
\* read while it is half copied.
OutputStable ==
  [][ /\ pc["ws"] = "write" => UNCHANGED output
      /\ pc["main"] = "copy" => UNCHANGED written ]_vars

\* The output buffer implements LatestBlock: what is written to the browser
\* was sent, in order; messages are skipped and repeated, never swapped.
Feed == INSTANCE LatestBlock
          WITH arrived <- queued, delivered <- written, MaxBlocks <- MaxMessages
FeedSpec == Feed!Spec

\* A browser that stays gets every message or a later one.
Served ==
  \A c \in Conns : \A k \in 1 .. MaxMessages :
    (primary = c /\ output.msg >= k) ~> (written >= k \/ primary # c)

\* "partial write": the connection is given up only if libwebsocket_write
\* failed or did not take all of the message.
GivenUpForCause ==
  [][pc["ws"] = "compare" /\ status' = -1 => ~n.all]_vars
=============================================================================
