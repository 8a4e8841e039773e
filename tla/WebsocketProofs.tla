-------------------------- MODULE WebsocketProofs --------------------------
(***************************************************************************)
(* Theorems about module Websocket, for every set of connections, every    *)
(* set of message sizes and every bound on the message numbers.            *)
(***************************************************************************)
EXTENDS Websocket, TLAPS

USE DEF Goto

\* Who holds output_m, and that only websocket_send raises the semaphore,
\* when it has found it at 0.
SemInv ==
  /\ output_m = "main" <=> pc["main"] = "copy"
  /\ output_m = "ws" <=> pc["ws"] = "write"
  /\ pc["main"] = "post" => output_sem = 0

\* The numbers that are handed on never overtake each other.
Order ==
  /\ written <= output.msg
  /\ output.msg <= queued

IInv == TypeOK /\ SemInv /\ Order /\ NothingForgotten

\* A message number that is saturated stays within the bound, and no message
\* is numbered below the one before it.
LEMMA SaturateFacts ==
  ASSUME NEW k \in Messages
  PROVE  Saturate(k + 1) \in Messages /\ k <= Saturate(k + 1)
<1>1. MaxMessages \in Nat
  BY ConstantsAssumption
<1>. QED
  BY <1>1 DEF Saturate, Messages

LEMMA InitIInv == Init => IInv
<1> SUFFICES ASSUME Init PROVE IInv
  OBVIOUS
<1> USE ConstantsAssumption DEF Init, Messages
<1>1. TypeOK
  <2>1. output \in [msg : Messages, size : Sizes \cup {0}]
    OBVIOUS
  <2>2. n \in [len : Int, all : BOOLEAN]
    BY DEF NoResult
  <2>3. queued \in Messages /\ written \in Messages
    OBVIOUS
  <2>. QED
    BY <2>1, <2>2, <2>3 DEF TypeOK
<1>2. SemInv /\ Order /\ NothingForgotten
  BY DEF SemInv, Order, NothingForgotten
<1>. QED
  BY <1>1, <1>2 DEF IInv

LEMMA NextIInv == IInv /\ [Next]_vars => IInv'
<1> SUFFICES ASSUME IInv, [Next]_vars PROVE IInv'
  OBVIOUS
<1> USE ConstantsAssumption
    DEF IInv, TypeOK, SemInv, Order, NothingForgotten
<1>0. /\ Messages \subseteq Nat
      /\ Sizes \subseteq Nat
  BY DEF Messages
<1>1. CASE SendLock
  <2>1. queued' \in Messages /\ queued <= queued' /\ UNCHANGED <<output, written>>
    BY <1>1, SaturateFacts DEF SendLock
  <2>2. Order'
    <3>1. /\ queued \in Nat /\ queued' \in Nat
          /\ output.msg \in Nat
      BY <1>0, <2>1
    <3>. QED
      BY <2>1, <3>1
  <2>. QED
    BY <1>1, <2>1, <2>2 DEF SendLock
<1>2. CASE SendCopy
  <2>1. PICK size \in Sizes : output' = [msg |-> queued, size |-> size]
    BY <1>2 DEF SendCopy
  <2>2. output' \in [msg : Messages, size : Sizes \cup {0}]
    BY <2>1
  <2>3. Order'
    <3>1. queued \in Nat /\ output.msg \in Nat /\ written \in Nat
      BY <1>0
    <3>. QED
      BY <1>2, <2>1, <3>1 DEF SendCopy
  <2>. QED
    BY <1>2, <2>1, <2>2, <2>3 DEF SendCopy
<1>3. CASE SendGetValue
  BY <1>3 DEF SendGetValue
<1>4. CASE SendPost
  BY <1>4 DEF SendPost
<1>5. CASE Established
  BY <1>5 DEF Established
<1>6. CASE OtherCallback
  BY <1>6 DEF OtherCallback
<1>7. CASE Closed
  BY <1>7 DEF Closed
<1>8. CASE Writeable
  <2>1. output_sem' = 0
    BY <1>8 DEF Writeable
  <2>. QED
    BY <1>8, <2>1 DEF Writeable
<1>9. CASE WriteLock
  BY <1>9 DEF WriteLock
<1>10. CASE Write
  BY <1>0, <1>10 DEF Write
<1>11. CASE Compare
  BY <1>11 DEF Compare, NoResult
<1>12. CASE Ask
  BY <1>12 DEF Ask
<1>13. CASE Close
  BY <1>13 DEF Close
<1>14. CASE UNCHANGED vars
  BY <1>14 DEF vars
<1>. QED
  BY <1>1, <1>2, <1>3, <1>4, <1>5, <1>6, <1>7, <1>8, <1>9, <1>10, <1>11,
     <1>12, <1>13, <1>14 DEF Next, Main, Ws, Turn

\* Every variable keeps to its type; in particular the semaphore stays
\* binary, which is what lets websocket_send test and post it in two steps.
THEOREM TypeCorrect == Spec => []TypeOK
<1>1. IInv => TypeOK
  BY DEF IInv
<1>. QED
  BY <1>1, InitIInv, NextIInv, PTL DEF Spec

\* A message is announced until it is written: no wakeup is lost.
THEOREM NoneForgotten == Spec => []NothingForgotten
<1>1. IInv => NothingForgotten
  BY DEF IInv
<1>. QED
  BY <1>1, InitIInv, NextIInv, PTL DEF Spec

\* A message is neither replaced while it is written nor written while it
\* is half copied.
THEOREM NoTornMessages == Spec => OutputStable
<1>1. IInv /\ [Next]_vars
        => [ /\ pc["ws"] = "write" => UNCHANGED output
             /\ pc["main"] = "copy" => UNCHANGED written ]_vars
  BY DEF IInv, TypeOK, SemInv, Next, Main, Ws, Turn, vars, SendLock, SendCopy,
         SendGetValue, SendPost, Established, OtherCallback, Closed,
         Writeable, WriteLock, Write, Compare, Ask, Close
<1>. QED
  BY <1>1, InitIInv, NextIInv, PTL DEF Spec, OutputStable

\* The buffer, its mutex and its semaphore do what LatestBlock does in two
\* steps: messages reach the browser in order, skipped or repeated at most.
THEOREM FeedImplements == Spec => FeedSpec
<1>1. Init => Feed!Init
  BY DEF Init, Feed!Init
<1>2. IInv /\ [Next]_vars => [Feed!Next]_<<queued, written>>
  <2> SUFFICES ASSUME IInv, [Next]_vars, ~UNCHANGED <<queued, written>>
               PROVE  Feed!Next
    OBVIOUS
  <2>1. CASE SendLock
    BY <2>1 DEF SendLock, Saturate, Feed!Next, Feed!Arrive, Feed!Saturate
  <2>2. CASE Write
    <3>1. written \in Nat /\ output.msg \in Nat /\ queued \in Nat
      BY ConstantsAssumption DEF IInv, TypeOK, Messages
    <3>2. output.msg \in written .. queued
      BY <3>1 DEF IInv, Order
    <3>. QED
      BY <2>2, <3>2 DEF Write, Feed!Next, Feed!Deliver
  <2>. QED
    BY <2>1, <2>2
       DEF Next, Main, Ws, Turn, vars, SendCopy, SendGetValue, SendPost,
           Established, OtherCallback, Closed, Writeable, WriteLock, Compare,
           Ask, Close
<1>. QED
  BY <1>1, <1>2, InitIInv, NextIInv, PTL
     DEF Spec, FeedSpec, Feed!Spec, Feed!vars
=============================================================================
