------------------------------- MODULE EotCount -------------------------------
(***************************************************************************)
(* What the end-of-transfer (EOT) handshake of a DMA channel promises the  *)
(* driver: every block the channel finishes while it runs is announced     *)
(* once, every acknowledgement takes back exactly one announcement, and a  *)
(* channel with two announcements outstanding finishes no further block    *)
(* until both are acknowledged.  The channels of PexDma behave like it.    *)
(* EotFlags implements it but for one step, Merge: an acknowledgement that *)
(* meets the end of a block.                                               *)
(***************************************************************************)
EXTENDS Naturals

VARIABLES
  running,  \* the channel is started (DMA_CTRL bit 0)
  pending,  \* blocks finished and not yet acknowledged
  blocked   \* the channel waits for its acknowledgements

vars == <<running, pending, blocked>>

Init ==
  /\ running = FALSE
  /\ pending = 0
  /\ blocked = FALSE

(* The channel finishes a block. *)
BlockEnd ==
  /\ running
  /\ ~blocked
  /\ pending' = pending + 1
  /\ blocked' = (pending' = 2)

(* The driver acknowledges one block. *)
Ack ==
  /\ pending > 0
  /\ pending' = pending - 1
  /\ blocked' = IF pending' = 0 THEN FALSE ELSE blocked

(* A channel forgets what it announced when it is stopped, in the step that *)
(* stops it or later.                                                       *)
Discard ==
  /\ ~running \/ ~running'
  /\ pending' = 0
  /\ blocked' = FALSE

(* An acknowledgement meets the end of a block: the new announcement is     *)
(* lost, the one outstanding is taken back, and the channel is held as if   *)
(* there were two.                                                          *)
Merge ==
  /\ running
  /\ ~blocked
  /\ running' \in BOOLEAN
  /\ pending' = 0
  /\ blocked' = (pending = 1)

(* The start bit may be written in the same clock as any of these. *)
Next ==
  /\ running' \in BOOLEAN
  /\ BlockEnd \/ Ack \/ Discard \/ UNCHANGED <<pending, blocked>>

Spec == Init /\ [][Next]_vars
===============================================================================
