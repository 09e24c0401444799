------------------------------- MODULE BlockRing -------------------------------
(***************************************************************************)
(* What the descriptor chain of a DMA channel promises: the blocks of the  *)
(* buffer are filled in order, each once a round, and a second round is    *)
(* begun only in cyclic mode.  SGList is shown to implement it; the FPGA   *)
(* of PexDma fills its blocks in this order.                               *)
(***************************************************************************)
EXTENDS Integers

VARIABLES
  count,    \* blocks of the buffer
  cycling,  \* cyclic mode
  on,       \* a transfer was started and not stopped
  last      \* the block filled last, -1 at the start

vars == <<count, cycling, on, last>>

Init ==
  /\ count \in Nat /\ cycling \in BOOLEAN
  /\ on = FALSE /\ last = -1

(* Another buffer, between two transfers. *)
Allocate ==
  /\ ~on
  /\ count' \in Nat /\ last' = -1
  /\ UNCHANGED <<cycling, on>>

Start ==
  /\ ~on
  /\ on' = TRUE /\ last' = -1
  /\ cycling' \in BOOLEAN
  /\ UNCHANGED count

BlockEnd ==
  /\ on
  /\ last # count - 1 \/ cycling
  /\ last' = (last + 1) % count
  /\ UNCHANGED <<count, cycling, on>>

Stop ==
  /\ on' = FALSE
  /\ UNCHANGED <<count, cycling, last>>

Next == Allocate \/ Start \/ BlockEnd \/ Stop

Spec == Init /\ [][Next]_vars
===============================================================================
