---------------------------- MODULE LatestBlock ----------------------------
(***************************************************************************)
(* What the receive pipeline promises its listener, with no threads, locks *)
(* or buffers: sample blocks are numbered in the order they arrive from    *)
(* the dongle, and the listener is handed blocks that have arrived, never  *)
(* one older than it already had.  Blocks may be skipped (the pipeline     *)
(* keeps only the latest) and the last one may be handed out again.        *)
(*                                                                         *)
(* demod.c implements it: see Pipe in module Demod.                        *)
(***************************************************************************)
EXTENDS Naturals

CONSTANT MaxBlocks   \* numbers saturate here: later blocks are "the last one"

VARIABLES
  arrived,    \* the latest block that has arrived, 0 for none
  delivered   \* the block the listener was handed last, 0 for none

vars == <<arrived, delivered>>

Saturate(n) == IF n < MaxBlocks THEN n ELSE MaxBlocks

Init == arrived = 0 /\ delivered = 0

Arrive ==
  /\ arrived' = Saturate(arrived + 1)
  /\ UNCHANGED delivered

Deliver ==
  /\ delivered' \in delivered .. arrived
  /\ UNCHANGED arrived

Next == Arrive \/ Deliver

Spec == Init /\ [][Next]_vars
=============================================================================
