------------------------------ MODULE AppAudio ------------------------------
(***************************************************************************)
(* The queue between the two callbacks of app.jsx: onMessage cuts the      *)
(* samples of a message into buffers of the size the sound card asks for,  *)
(* onaudioprocess hands it the oldest one.  They share buffers, cursor and *)
(* semaphore.  JavaScript runs a callback to its end, so the loop of       *)
(* onMessage is one step per sample, and nothing else until it is through. *)
(*                                                                         *)
(* A sample is the number of its arrival, 0 is silence.                    *)
(***************************************************************************)
EXTENDS Naturals, Sequences

CONSTANTS
  BufferSize,   \* samples the sound card asks for at a time
  MaxMessage,   \* the most samples in a message
  MaxSamples    \* bound: no message begins beyond this sample

ASSUME ConstantsAssumption ==
  BufferSize \in Nat \ {0} /\ MaxMessage \in Nat /\ MaxSamples \in Nat

VARIABLES
  buffers,      \* the queue; its last buffer is the one that is filled
  cursor,       \* how many samples the last buffer has
  semaphore,    \* how many buffers onaudioprocess may take
  left,         \* onMessage: how many samples are still to be read
  received,     \* the last sample received
  out,          \* the buffer handed to the sound card last
  heard         \* the last sample in any buffer handed to the sound card

vars == <<buffers, cursor, semaphore, left, received, out, heard>>

Silence == [j \in 1 .. BufferSize |-> 0]

Init ==
  /\ buffers = <<>>
  /\ cursor = 0 /\ semaphore = 0
  /\ left = 0 /\ received = 0
  /\ out = Silence /\ heard = 0

\* A message begins.  One that has no samples, or a header that throws (not
\* JSON: an SNR of nan or inf; or the view cannot be rendered), changes none
\* of this and is left out.
OnMessage ==
  /\ left = 0
  /\ received < MaxSamples
  /\ left' \in 1 .. MaxMessage
  /\ UNCHANGED <<buffers, cursor, semaphore, received, out, heard>>

NeedsBufferLate == buffers = <<>> \/ cursor > BufferSize

\* "buf == null || this.cursor >= this.bufferSize"
NeedsBuffer == buffers = <<>> \/ cursor >= BufferSize

PushUncounted ==
  /\ left > 0 /\ NeedsBuffer
  /\ buffers' = Append(buffers, [Silence EXCEPT ![1] = received + 1])
  /\ cursor' = 1
  /\ left' = left - 1 /\ received' = received + 1
  /\ UNCHANGED <<semaphore, out, heard>>

PushBuffer ==                          \* the next sample starts a buffer
  /\ left > 0 /\ NeedsBuffer
  /\ buffers' = Append(buffers, [Silence EXCEPT ![1] = received + 1])
  /\ cursor' = 1
  /\ semaphore' = semaphore + 1
  /\ left' = left - 1 /\ received' = received + 1
  /\ UNCHANGED <<out, heard>>

ReadSample ==                          \* ... or goes on with the last
  /\ left > 0 /\ ~NeedsBuffer
  /\ buffers' = [buffers EXCEPT ![Len(buffers)] =
                   [@ EXCEPT ![cursor + 1] = received + 1]]
  /\ cursor' = cursor + 1
  /\ left' = left - 1 /\ received' = received + 1
  /\ UNCHANGED <<semaphore, out, heard>>

\* The newest of the samples of b, if it is newer than h.
Newest(b, h) ==
  CHOOSE s \in {b[j] : j \in 1 .. BufferSize} \cup {h} :
    s >= h /\ \A j \in 1 .. BufferSize : b[j] <= s

PlayNewest ==
  /\ left = 0 /\ semaphore > 0
  /\ out' = buffers[Len(buffers)]
  /\ buffers' = SubSeq(buffers, 1, Len(buffers) - 1)
  /\ semaphore' = semaphore - 1
  /\ heard' = Newest(out', heard)
  /\ UNCHANGED <<cursor, left, received>>

PlayOnlyFull ==
  /\ left = 0 /\ semaphore > 1
  /\ out' = Head(buffers)
  /\ buffers' = Tail(buffers)
  /\ semaphore' = semaphore - 1
  /\ heard' = Newest(out', heard)
  /\ UNCHANGED <<cursor, left, received>>

Play ==                                \* onaudioprocess, buffers.shift()
  /\ left = 0 /\ semaphore > 0
  /\ out' = Head(buffers)
  /\ buffers' = Tail(buffers)
  /\ semaphore' = semaphore - 1
  /\ heard' = Newest(out', heard)
  /\ UNCHANGED <<cursor, left, received>>

PlaySilence ==                         \* onaudioprocess, nothing there
  /\ left = 0 /\ semaphore = 0
  /\ out' = Silence
  /\ UNCHANGED <<buffers, cursor, semaphore, left, received, heard>>

Next == OnMessage \/ PushBuffer \/ ReadSample \/ Play \/ PlaySilence

Spec == Init /\ [][Next]_vars

\* The browser ends what it has begun, and the sound card keeps asking.
FairSpec == Spec /\ WF_vars(PushBuffer \/ ReadSample) /\ WF_vars(Play)

-----------------------------------------------------------------------------
Buffer == [1 .. BufferSize -> Nat]

\* Type invariant; the semaphore counts the buffers, the one that is being
\* filled too, so that shift never comes back empty-handed.
TypeOK ==
  /\ buffers \in Seq(Buffer)
  /\ cursor \in 0 .. BufferSize
  /\ semaphore = Len(buffers)
  /\ left \in Nat /\ received \in Nat /\ heard \in Nat
  /\ out \in Buffer

\* What has arrived and was not played is in the queue, each sample once and
\* in its order, whenever onaudioprocess takes a buffer that is half full
\* and leaves onMessage with a cursor into it; behind the cursor is silence.
Queued(i, j) == i < Len(buffers) \/ j <= cursor
QueueInOrder ==
  /\ \A i \in 1 .. Len(buffers) : \A j \in 1 .. BufferSize :
       buffers[i][j] = IF Queued(i, j) THEN heard + (i - 1) * BufferSize + j
                                       ELSE 0
  /\ received = IF buffers = <<>> THEN heard
                ELSE heard + (Len(buffers) - 1) * BufferSize + cursor

\* The sound card goes on where it stopped: it is given the samples that
\* follow those it had, none twice and none left out, then silence.
PlayedInOrder ==
  [][ out' # out =>
        \A j \in 1 .. BufferSize :
          out'[j] = IF heard + j <= heard' THEN heard + j ELSE 0 ]_vars

\* Every sample onMessage has read is played, although the buffer it is in
\* may never be filled.
Played ==
  \A k \in 1 .. MaxSamples : received >= k ~> heard >= k
=============================================================================
