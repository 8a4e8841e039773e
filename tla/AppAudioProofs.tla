--------------------------- MODULE AppAudioProofs ---------------------------
(***************************************************************************)
(* Theorems about module AppAudio, for buffers and messages of any size.   *)
(***************************************************************************)
EXTENDS AppAudio, TLAPS

Inv == TypeOK /\ QueueInOrder

\* What onaudioprocess takes starts with the sample after the last one it
\* had, and the newest sample in it is as many further as it has samples.
LEMMA HeadFacts ==
  ASSUME Inv, buffers # <<>>,
         NEW m, m = IF Len(buffers) > 1 THEN BufferSize ELSE cursor
  PROVE  /\ m \in 0 .. BufferSize
         /\ Head(buffers) \in Buffer
         /\ \A j \in 1 .. BufferSize :
              Head(buffers)[j] = IF j <= m THEN heard + j ELSE 0
         /\ Newest(Head(buffers), heard) = heard + m
<1>0. BufferSize \in Nat \ {0}
  BY ConstantsAssumption
<1>1. /\ buffers \in Seq(Buffer) /\ Len(buffers) \in Nat \ {0}
      /\ Head(buffers) = buffers[1] /\ buffers[1] \in Buffer
      /\ heard \in Nat /\ cursor \in 0 .. BufferSize
  BY DEF Inv, TypeOK
<1>2. m \in 0 .. BufferSize
  BY <1>0, <1>1
<1>3. ASSUME NEW j \in 1 .. BufferSize
      PROVE  Head(buffers)[j] = IF j <= m THEN heard + j ELSE 0
  <2>1. buffers[1][j] = IF Queued(1, j) THEN heard + (1 - 1) * BufferSize + j
                                        ELSE 0
    BY <1>1, <1>3 DEF Inv, QueueInOrder
  <2>2. (1 - 1) * BufferSize = 0
    BY <1>0
  <2>. QED
    BY <1>0, <1>1, <2>1, <2>2 DEF Queued
<1>4. Newest(Head(buffers), heard) = heard + m
  <2> DEFINE b == Head(buffers)
             S == {b[j] : j \in 1 .. BufferSize} \cup {heard}
             Good(s) == s >= heard /\ \A j \in 1 .. BufferSize : b[j] <= s
  <2>0. b \in Buffer
    BY <1>1
  <2>1. heard + m \in S /\ Good(heard + m)
    <3>1. heard + m \in S
      <4>1. CASE m = 0
        BY <1>1, <4>1
      <4>2. CASE m # 0
        <5>1. m \in 1 .. BufferSize /\ b[m] = heard + m
          BY <1>0, <1>2, <1>3, <4>2
        <5>. QED
          BY <5>1
      <4>. QED
        BY <4>1, <4>2
    <3>. QED
      BY <1>0, <1>1, <1>2, <1>3, <3>1
  <2>2. ASSUME NEW s \in S, Good(s) PROVE s = heard + m
    <3>1. s >= heard + m
      <4>1. CASE m = 0
        BY <1>1, <2>2, <4>1
      <4>2. CASE m # 0
        <5>1. m \in 1 .. BufferSize /\ b[m] = heard + m
          BY <1>0, <1>2, <1>3, <4>2
        <5>. QED
          BY <2>2, <5>1
      <4>. QED
        BY <4>1, <4>2
    <3>2. s <= heard + m
      BY <1>0, <1>1, <1>2, <1>3, <2>2
    <3>3. s \in Nat
      BY <1>1, <2>0, <2>2 DEF Buffer
    <3>. QED
      BY <1>1, <1>2, <3>1, <3>2, <3>3
  <2>3. Newest(b, heard) = CHOOSE s \in S : Good(s)
    BY DEF Newest
  <2> HIDE DEF S, Good
  <2>. QED
    BY <2>1, <2>2, <2>3
<1>. QED
  BY <1>1, <1>2, <1>3, <1>4

LEMMA InitInv == Init => Inv
  BY ConstantsAssumption DEF Init, Inv, TypeOK, QueueInOrder, Silence, Buffer

LEMMA NextInv == Inv /\ [Next]_vars => Inv'
<1> SUFFICES ASSUME Inv, [Next]_vars PROVE Inv'
  OBVIOUS
<1>0. BufferSize \in Nat \ {0} /\ MaxMessage \in Nat
  BY ConstantsAssumption
<1> USE <1>0 DEF Inv, TypeOK
<1>1. CASE OnMessage
  BY <1>1 DEF OnMessage, QueueInOrder, Queued
<1>2. CASE PushBuffer
  <2> DEFINE b == [Silence EXCEPT ![1] = received + 1]
  <2>1. b \in Buffer /\ \A j \in 1 .. BufferSize :
                          b[j] = IF j = 1 THEN received + 1 ELSE 0
    BY DEF Silence, Buffer
  <2>2. /\ buffers' = Append(buffers, b) /\ cursor' = 1 /\ heard' = heard
        /\ semaphore' = semaphore + 1 /\ received' = received + 1
        /\ left' = left - 1 /\ left > 0 /\ out' = out
        /\ buffers = <<>> \/ cursor = BufferSize
    BY <1>2 DEF PushBuffer, NeedsBuffer
  <2> HIDE DEF b
  <2>3. TypeOK'
    BY <2>1, <2>2
  <2>4. received = heard + Len(buffers) * BufferSize
    <3>1. CASE buffers = <<>>
      BY <3>1 DEF QueueInOrder
    <3>2. CASE buffers # <<>>
      BY <2>2, <3>2 DEF QueueInOrder
    <3>. QED
      BY <3>1, <3>2
  <2>5. ASSUME NEW i \in 1 .. Len(buffers'), NEW j \in 1 .. BufferSize
        PROVE  buffers'[i][j] =
                 IF Queued(i, j)' THEN heard + (i - 1) * BufferSize + j ELSE 0
    <3>1. CASE i = Len(buffers) + 1
      <4>1. buffers'[i] = b /\ (i - 1) * BufferSize = Len(buffers) * BufferSize
        BY <2>2, <3>1
      <4>2. Queued(i, j)' <=> j = 1
        BY <2>2, <3>1 DEF Queued
      <4>. QED
        BY <2>1, <2>4, <4>1, <4>2
    <3>2. CASE i \in 1 .. Len(buffers)
      <4>1. buffers'[i] = buffers[i]
        BY <2>1, <2>2, <3>2
      <4>2. Queued(i, j) /\ Queued(i, j)'
        BY <2>1, <2>2, <3>2 DEF Queued
      <4>. QED
        BY <3>2, <4>1, <4>2 DEF QueueInOrder
    <3>. QED
      BY <2>1, <2>2, <3>1, <3>2
  <2>6. received' = heard' + (Len(buffers') - 1) * BufferSize + cursor'
    <3>1. Len(buffers') - 1 = Len(buffers)
      BY <2>1, <2>2
    <3>. QED
      BY <2>2, <2>4, <3>1
  <2>7. buffers' # <<>>
    BY <2>1, <2>2
  <2>. QED
    BY <2>2, <2>3, <2>5, <2>6, <2>7 DEF QueueInOrder
<1>3. CASE ReadSample
  <2> DEFINE n == Len(buffers)
             b == [buffers[n] EXCEPT ![cursor + 1] = received + 1]
  <2>1. /\ n \in Nat \ {0} /\ buffers # <<>> /\ buffers[n] \in Buffer
        /\ cursor + 1 \in 1 .. BufferSize
    BY <1>3 DEF ReadSample, NeedsBuffer
  <2>2. /\ buffers' = [buffers EXCEPT ![n] = b] /\ cursor' = cursor + 1
        /\ heard' = heard /\ semaphore' = semaphore /\ left' = left - 1
        /\ received' = received + 1 /\ left > 0 /\ out' = out
    BY <1>3 DEF ReadSample
  <2>3. b \in Buffer /\ \A j \in 1 .. BufferSize :
               b[j] = IF j = cursor + 1 THEN received + 1 ELSE buffers[n][j]
    <3> DEFINE old == buffers[n]
    <3>1. old \in Buffer /\ received + 1 \in Nat /\ cursor + 1 \in 1 .. BufferSize
      BY <2>1
    <3> HIDE DEF old
    <3>2. [old EXCEPT ![cursor + 1] = received + 1] \in Buffer
      BY <3>1 DEF Buffer
    <3>3. \A j \in 1 .. BufferSize :
            [old EXCEPT ![cursor + 1] = received + 1][j] =
              IF j = cursor + 1 THEN received + 1 ELSE old[j]
      BY <3>1 DEF Buffer
    <3>. QED
      BY <3>2, <3>3 DEF old
  <2> HIDE DEF b
  <2>4. /\ buffers' \in Seq(Buffer) /\ Len(buffers') = n
        /\ \A i \in 1 .. n : buffers'[i] = IF i = n THEN b ELSE buffers[i]
    BY <2>1, <2>2, <2>3
  <2>5. TypeOK'
    BY <2>1, <2>2, <2>4
  <2>6. received = heard + (n - 1) * BufferSize + cursor
    BY <2>1 DEF QueueInOrder
  <2>7. ASSUME NEW i \in 1 .. n, NEW j \in 1 .. BufferSize
        PROVE  buffers'[i][j] =
                 IF Queued(i, j)' THEN heard + (i - 1) * BufferSize + j ELSE 0
    <3>1. buffers[i][j] =
            IF Queued(i, j) THEN heard + (i - 1) * BufferSize + j ELSE 0
      BY <2>7 DEF QueueInOrder
    <3>2. CASE i # n
      BY <2>2, <2>4, <3>1, <3>2 DEF Queued
    <3>3. CASE i = n /\ j = cursor + 1
      BY <2>2, <2>3, <2>4, <2>6, <3>3 DEF Queued
    <3>4. CASE i = n /\ j # cursor + 1
      BY <2>2, <2>3, <2>4, <3>1, <3>4 DEF Queued
    <3>. QED
      BY <3>2, <3>3, <3>4
  <2>8. received' = heard' + (Len(buffers') - 1) * BufferSize + cursor'
    BY <2>1, <2>2, <2>4, <2>6
  <2>9. buffers' # <<>>
    BY <2>1, <2>4
  <2>. QED
    BY <2>2, <2>4, <2>5, <2>7, <2>8, <2>9 DEF QueueInOrder
<1>4. CASE Play
  <2> DEFINE n == Len(buffers)
             m == IF n > 1 THEN BufferSize ELSE cursor
  <2>1. n \in Nat \ {0} /\ buffers # <<>>
    BY <1>4 DEF Play
  <2>2. /\ m \in 0 .. BufferSize
        /\ Head(buffers) \in Buffer /\ Newest(Head(buffers), heard) = heard + m
    BY <2>1, HeadFacts
  <2>3. /\ buffers' = Tail(buffers) /\ cursor' = cursor /\ left' = left
        /\ semaphore' = semaphore - 1 /\ received' = received
        /\ out' = Head(buffers) /\ heard' = heard + m
    BY <1>4, <2>2 DEF Play
  <2>4. /\ buffers' \in Seq(Buffer) /\ Len(buffers') = n - 1
        /\ \A i \in 1 .. n - 1 : buffers'[i] = buffers[i + 1]
    BY <2>1, <2>3
  <2>5. TypeOK'
    BY <2>1, <2>2, <2>3, <2>4
  <2>6. received = heard + (n - 1) * BufferSize + cursor
    BY <2>1 DEF QueueInOrder
  <2>7. ASSUME NEW i \in 1 .. n - 1, NEW j \in 1 .. BufferSize
        PROVE  buffers'[i][j] =
                 IF Queued(i, j)' THEN heard' + (i - 1) * BufferSize + j ELSE 0
    <3>1. i + 1 \in 1 .. n /\ n > 1
      BY <2>1, <2>7
    <3>2. buffers[i + 1][j] =
            IF Queued(i + 1, j) THEN heard + (i + 1 - 1) * BufferSize + j ELSE 0
      BY <2>7, <3>1 DEF QueueInOrder
    <3>3. Queued(i, j)' <=> Queued(i + 1, j)
      BY <2>1, <2>3, <2>4, <2>7 DEF Queued
    <3>4. heard' + (i - 1) * BufferSize + j = heard + (i + 1 - 1) * BufferSize + j
      BY <2>3, <2>7, <3>1
    <3>. QED
      BY <2>4, <2>7, <3>2, <3>3, <3>4
  <2>8. received' = IF buffers' = <<>> THEN heard'
                    ELSE heard' + (Len(buffers') - 1) * BufferSize + cursor'
    <3>1. CASE n = 1
      BY <2>3, <2>4, <2>6, <3>1
    <3>2. CASE n > 1
      <4>1. buffers' # <<>> /\ Len(buffers') - 1 = n - 2
        BY <2>1, <2>4, <3>2
      <4>2. (n - 1) * BufferSize = (n - 2) * BufferSize + BufferSize
        BY <2>1
      <4>. QED
        BY <2>1, <2>3, <2>6, <3>2, <4>1, <4>2
    <3>. QED
      BY <2>1, <3>1, <3>2
  <2>. QED
    BY <2>4, <2>5, <2>7, <2>8 DEF QueueInOrder
<1>5. CASE PlaySilence
  BY <1>5 DEF PlaySilence, QueueInOrder, Queued, Silence, Buffer
<1>6. CASE UNCHANGED vars
  BY <1>6 DEF vars, QueueInOrder, Queued
<1>. QED
  BY <1>1, <1>2, <1>3, <1>4, <1>5, <1>6 DEF Next

LEMMA Invariance == Spec => []Inv
  BY InitInv, NextInv, PTL DEF Spec

\* Every variable keeps to its type, and the semaphore counts the buffers.
THEOREM TypeCorrect == Spec => []TypeOK
<1>1. Inv => TypeOK
  BY DEF Inv
<1>. QED
  BY <1>1, Invariance, PTL

\* Whatever has arrived and was not played is queued, once and in order.
THEOREM NothingLost == Spec => []QueueInOrder
<1>1. Inv => QueueInOrder
  BY DEF Inv
<1>. QED
  BY <1>1, Invariance, PTL

\* The sound card is given the samples that follow those it had, however the
\* two callbacks of app.jsx alternate.
THEOREM HeardInOrder == Spec => PlayedInOrder
<1> DEFINE InOrder ==
      out' # out =>
        \A j \in 1 .. BufferSize :
          out'[j] = IF heard + j <= heard' THEN heard + j ELSE 0
<1>1. ASSUME Inv, [Next]_vars PROVE InOrder
  <2>0. BufferSize \in Nat \ {0} /\ heard \in Nat
    BY <1>1, ConstantsAssumption DEF Inv, TypeOK
  <2>1. CASE Play
    <3> DEFINE m == IF Len(buffers) > 1 THEN BufferSize ELSE cursor
    <3>1. buffers # <<>>
      BY <1>1, <2>1 DEF Play, Inv, TypeOK
    <3>2. /\ m \in 0 .. BufferSize /\ Newest(Head(buffers), heard) = heard + m
          /\ \A j \in 1 .. BufferSize :
               Head(buffers)[j] = IF j <= m THEN heard + j ELSE 0
      BY <1>1, <3>1, HeadFacts
    <3> HIDE DEF m
    <3>3. out' = Head(buffers) /\ heard' = heard + m
      BY <2>1, <3>2 DEF Play
    <3>. QED
      BY <2>0, <3>2, <3>3
  <2>2. CASE PlaySilence
    BY <2>0, <2>2 DEF PlaySilence, Silence
  <2>3. CASE OnMessage \/ PushBuffer \/ ReadSample \/ UNCHANGED vars
    BY <2>3 DEF OnMessage, PushBuffer, ReadSample, vars
  <2>. QED
    BY <1>1, <2>1, <2>2, <2>3 DEF Next
<1>2. Inv /\ [Next]_vars => [InOrder]_vars
  BY <1>1
<1>. QED
  BY <1>2, Invariance, PTL DEF Spec, PlayedInOrder
=============================================================================
