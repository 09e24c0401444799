---------------------------- MODULE EotFlags_proof ----------------------------
(***************************************************************************)
(* Proofs about EotFlags, for any host: FLAG_CLR may meet the end of a     *)
(* block, and a channel may be started again while its page is in flight.  *)
(***************************************************************************)
EXTENDS EotFlags, TLAPS

(* The registers keep their types whatever the host does. *)
LEMMA TypeStep ==
  ASSUME TypeOK, [Next]_vars
  PROVE  TypeOK'
<1>1. CASE UNCHANGED vars
  BY <1>1 DEF TypeOK, vars
<1>2. CASE Next
  <2>1. /\ PrState /\ PrDmaEot /\ PrDmaWaitEot /\ PrDmaCtrl
        /\ fresh' = (Starting \/ (fresh /\ ~Granting))
        /\ carried' = IF Starting THEN stp' # "s0" ELSE carried
        /\ merged' = (ctrl /\ (merged \/ (Meet /\ eot)))
    BY <1>2 DEF Next, Clock
  <2>2. /\ stp' \in {"s0", "st1", "st2", "sc0"}
        /\ eot_set' \in BOOLEAN /\ sg_eot_set' \in BOOLEAN
    BY <2>1 DEF TypeOK, PrState, S0, St1, St2, Sc0
  <2>3. /\ ctrl' \in BOOLEAN /\ eot_clr' \in BOOLEAN
        /\ host' \in {"idle", "ack"}
    BY <2>1 DEF TypeOK, PrDmaCtrl, HostQuiet, HostRead, HostAck, HostStop,
                HostStart
  <2>4. /\ eot' \in BOOLEAN /\ sg_eot' \in BOOLEAN
        /\ wait_eot' \in BOOLEAN /\ wait_eot2' \in BOOLEAN
        /\ fresh' \in BOOLEAN /\ merged' \in BOOLEAN
    BY <2>1, Zenon DEF TypeOK, PrDmaEot, PrDmaWaitEot
  <2>5. carried' \in BOOLEAN
    BY <2>1 DEF TypeOK
  <2> QED
    BY <2>2, <2>3, <2>4, <2>5 DEF TypeOK
<1> QED
  BY <1>1, <1>2

(* Type correctness, whatever the host does. *)
LEMMA TypeCorrect == Spec => []TypeOK
<1>1. Init => TypeOK
  BY DEF Init, TypeOK
<1> QED
  BY <1>1, TypeStep, PTL DEF Spec

-----------------------------------------------------------------------------
(* HeldIsQuiet needs one more fact: the pulse that ends a block is up only  *)
(* in the state after st2, from which no page is in flight.                 *)
HeldInv == HeldIsQuiet /\ (eot_set => stp = "sc0")

(* A channel with two unacknowledged blocks transfers nothing, whatever     *)
(* the host writes and however the pulses meet (ctrl_main.vhd, pr_chn).     *)
THEOREM HeldIsQuietAlways == Spec => []HeldIsQuiet
<1>1. Init => HeldInv
  BY DEF Init, HeldInv, HeldIsQuiet
<1>2. TypeOK /\ HeldInv /\ [Next]_vars => HeldInv'
  <2> SUFFICES ASSUME TypeOK, HeldInv, [Next]_vars PROVE HeldInv'
    OBVIOUS
  <2>1. CASE UNCHANGED vars
    BY <2>1 DEF HeldInv, HeldIsQuiet, vars
  <2>2. CASE Next
    <3>1. PrState /\ PrDmaWaitEot
      BY <2>2 DEF Next, Clock
    <3>2. CASE S0
      BY <3>1, <3>2 DEF S0, Grantable, PrDmaWaitEot, HeldInv, HeldIsQuiet,
                        TypeOK
    <3>3. CASE St1
      BY <3>1, <3>3 DEF St1, PrDmaWaitEot, HeldInv, HeldIsQuiet, TypeOK
    <3>4. CASE St2
      BY <3>1, <3>4 DEF St2, PrDmaWaitEot, HeldInv, HeldIsQuiet, TypeOK
    <3>5. CASE Sc0
      BY <3>1, <3>5 DEF Sc0, PrDmaWaitEot, HeldInv, HeldIsQuiet, TypeOK
    <3> QED
      BY <3>1, <3>2, <3>3, <3>4, <3>5 DEF PrState
  <2> QED
    BY <2>1, <2>2
<1>3. HeldInv => HeldIsQuiet
  BY DEF HeldInv
<1> QED
  BY <1>1, <1>2, <1>3, TypeCorrect, PTL DEF Spec

-----------------------------------------------------------------------------
(* The strengthening that makes the invariants inductive: the first block   *)
(* acknowledged of two leaves wait_eot2 in the place of eot; and a page     *)
(* carried over into a run is the only one until another is granted.        *)
EotInv ==
  /\ TypeOK
  /\ WaitIsPending
  /\ HeldIsQuiet
  /\ EotMeansBlock
  /\ ~(eot /\ wait_eot2)
  /\ wait_eot2 => wait_eot
  /\ eot_set => stp = "sc0"
  /\ fresh => /\ carried \/ stp = "s0"
              /\ Status4 => stp \notin {"st1", "st2"} /\ ~eot_set

LEMMA EotInvStep ==
  ASSUME EotInv, [Next]_vars
  PROVE  EotInv'
<1>1. CASE UNCHANGED vars
  BY <1>1 DEF EotInv, TypeOK, WaitIsPending, HeldIsQuiet, EotMeansBlock,
              Status4, vars
<1>2. CASE Next
  <2>1. /\ PrState /\ PrDmaEot /\ PrDmaWaitEot /\ PrDmaCtrl
        /\ fresh' = (Starting \/ (fresh /\ ~Granting))
        /\ carried' = IF Starting THEN stp' # "s0" ELSE carried
        /\ merged' = (ctrl /\ (merged \/ (Meet /\ eot)))
    BY <1>2 DEF Next, Clock
  <2>2. TypeOK'
    BY TypeStep, <1>2 DEF EotInv
  <2>3. ~(eot /\ wait_eot2)' /\ (wait_eot2 => wait_eot)'
    BY <2>1 DEF EotInv, TypeOK, HeldIsQuiet, PrDmaEot, PrDmaWaitEot
  <2>4. (wait_eot /\ ~Status4)' <=> merged'
    <3>1. CASE ~ctrl
      BY <2>1, <3>1 DEF PrDmaEot, PrDmaWaitEot, Status4
    <3>2. CASE ctrl /\ eot_clr
      BY <2>1, <2>2, <3>2 DEF EotInv, TypeOK, WaitIsPending, HeldIsQuiet,
         Status4, Meet, PrDmaEot, PrDmaWaitEot
    <3>3. CASE ctrl /\ ~eot_clr
      BY <2>1, <2>2, <3>3 DEF EotInv, TypeOK, WaitIsPending, HeldIsQuiet,
         Status4, Meet, PrDmaEot, PrDmaWaitEot
    <3> QED
      BY <3>1, <3>2, <3>3
  <2>5. HeldIsQuiet' /\ (eot_set => stp = "sc0")'
    BY <2>1 DEF EotInv, TypeOK, HeldIsQuiet, PrState, S0, St1, St2, Sc0,
                Grantable, PrDmaWaitEot
  <2>6. fresh' => /\ ~wait_eot' /\ (Status4' => carried')
                  /\ carried' \/ stp' = "s0"
                  /\ Status4' => stp' \notin {"st1", "st2"} /\ ~eot_set'
    <3>1. CASE Starting
      BY <2>1, <3>1 DEF Starting, PrDmaEot, PrDmaWaitEot, Status4
    <3>2. CASE ~Starting /\ fresh /\ ~Granting
      <4>1. carried' = carried
        BY <2>1, <3>2
      <4>2. (stp = "s0" => stp' = "s0") /\ (carried \/ stp = "s0")
        BY <2>1, <3>2 DEF EotInv, PrState, S0, St1, St2, Sc0, Granting
      <4>3. ~wait_eot /\ ~wait_eot2
        BY <3>2 DEF EotInv, EotMeansBlock
      <4>4. eot => stp \in {"s0", "sc0"} /\ ~eot_set
        BY <2>1, <3>2 DEF EotInv, Status4, PrState, S0, St1, St2, Sc0
      <4>5. ~wait_eot' /\ ~wait_eot2'
        BY <2>1, <4>3, <4>4 DEF PrDmaWaitEot
      <4>6. eot' => stp \in {"s0", "sc0"} /\ (eot \/ eot_set)
        BY <2>1, <4>4 DEF PrDmaEot, EotInv
      <4>7. eot' => stp' \notin {"st1", "st2"} /\ ~eot_set'
        BY <2>1, <3>2, <4>6 DEF PrState, S0, St1, St2, Sc0, Granting
      <4>8. eot' => carried
        BY <3>2, <4>2, <4>6 DEF EotInv, EotMeansBlock, Status4
      <4> QED
        BY <4>1, <4>2, <4>5, <4>7, <4>8 DEF Status4
    <3> QED
      BY <2>1, <3>1, <3>2
  <2> QED
    BY <2>2, <2>3, <2>4, <2>5, <2>6 DEF EotInv, WaitIsPending, EotMeansBlock
<1> QED
  BY <1>1, <1>2

LEMMA EotInvariant == Spec => []EotInv
<1>1. Init => EotInv
  BY DEF Init, EotInv, TypeOK, WaitIsPending, HeldIsQuiet, EotMeansBlock,
         Status4
<1> QED
  BY <1>1, EotInvStep, PTL DEF Spec

(* A channel held by wait_eot shows DMA_EOT, so that the interrupt which    *)
(* leads to its release is requested, and the clock in which a FLAG_CLR     *)
(* meets the end of a second block is the only way to a channel that is     *)
(* held and shows nothing (ctrl_main.vhd, pr_dma_eot, pr_dma0_wait_eot).    *)
THEOREM WaitIsPendingAlways == Spec => []WaitIsPending
<1>1. EotInv => WaitIsPending
  BY DEF EotInv
<1> QED
  BY <1>1, EotInvariant, PTL

(* A run in which no page was granted yet shows no DMA_EOT, unless the page *)
(* of the run before was in flight when the channel was started, and of     *)
(* that page it shows one at most (ctrl_main.vhd, pr_dma_eot, pr_state).    *)
THEOREM EotMeansBlockAlways == Spec => []EotMeansBlock
<1>1. EotInv => EotMeansBlock
  BY DEF EotInv
<1> QED
  BY <1>1, EotInvariant, PTL

-----------------------------------------------------------------------------
(* The flags implement the counter, whatever the host does: initially       *)
(* nothing is pending, and each clock is a block end, an acknowledgement,   *)
(* the discard of a stopped channel, or a stutter of EotCount; but for the  *)
(* clock in which FLAG_CLR meets a block end, which is a Merge.             *)
THEOREM EotRefinement == Spec => EotCountSpec
<1>1. Init => Count!Init
  BY DEF Init, Count!Init, Pending
<1>2. EotInv /\ [Next]_vars => [IF Meet THEN Count!Merge ELSE Count!Next]_(Count!vars)
  <2> SUFFICES ASSUME EotInv, [Next]_vars
               PROVE  [IF Meet THEN Count!Merge ELSE Count!Next]_(Count!vars)
    OBVIOUS
  <2>1. CASE UNCHANGED vars
    BY <2>1 DEF vars, Count!vars, Pending
  <2>2. CASE Next
    <3>1. PrDmaEot /\ PrDmaWaitEot /\ PrDmaCtrl
      BY <2>2 DEF Next, Clock
    <3>2. ctrl' \in BOOLEAN
      BY EotInvStep, <2>2 DEF EotInv, TypeOK
    <3> USE DEF Pending
    <3>t. EotInv'
      BY EotInvStep
    <3>m. CASE Meet
      <4>1. ~wait_eot /\ ~wait_eot2
        BY <3>m DEF EotInv, HeldIsQuiet, Meet
      <4>2. ~eot' /\ ~wait_eot2' /\ (wait_eot' <=> eot)
        BY <3>1, <3>m, <4>1 DEF PrDmaEot, PrDmaWaitEot, Meet
      <4>3. Pending' = 0 /\ (Pending = 1 <=> eot)
        BY <4>1, <4>2
      <4>4. wait_eot' = (Pending = 1)
        BY <4>2, <4>3, <3>t, Zenon DEF EotInv, TypeOK
      <4> QED
        BY <3>m, <3>2, <4>1, <4>3, <4>4 DEF Count!Merge, Meet
    <3>3. CASE ~ctrl
      <4>1. ~eot' /\ ~wait_eot' /\ ~wait_eot2'
        BY <3>1, <3>3 DEF PrDmaEot, PrDmaWaitEot
      <4>2. Count!Discard
        BY <4>1, <3>3, <3>t DEF Count!Discard, EotInv, TypeOK
      <4> QED
        BY <4>2, <3>2, <3>3 DEF Count!Next, Meet
    <3>4. CASE ctrl /\ eot_clr /\ ~eot_set /\ eot /\ wait_eot
      <4>1. ~wait_eot2 /\ ~eot' /\ wait_eot' /\ wait_eot2'
        BY <3>1, <3>4 DEF PrDmaEot, PrDmaWaitEot, EotInv
      <4>2. Pending = 2 /\ Pending' = 1
        BY <4>1, <3>4
      <4>3. wait_eot' = wait_eot
        BY <4>1, <3>4, <3>t, Zenon DEF EotInv, TypeOK
      <4>4. Pending' = Pending - 1 /\ Pending > 0 /\ Pending' # 0
        BY <4>2
      <4>5. Count!Ack
        BY <4>3, <4>4 DEF Count!Ack
      <4> QED
        BY <4>5, <3>2, <3>4 DEF Count!Next, Meet
    <3>5. CASE ctrl /\ eot_clr /\ ~eot_set /\ ~(eot /\ wait_eot) /\ (eot \/ wait_eot2)
      <4>1. (~eot /\ wait_eot2) \/ (eot /\ ~wait_eot /\ ~wait_eot2)
        BY <3>5 DEF EotInv
      <4>2. ~eot' /\ ~wait_eot' /\ ~wait_eot2'
        BY <4>1, <3>1, <3>5 DEF PrDmaEot, PrDmaWaitEot, EotInv
      <4>3. Pending = 1 /\ Pending' = 0
        BY <4>2, <3>5
      <4>4. wait_eot' = FALSE
        BY <4>2, <3>t, Zenon DEF EotInv, TypeOK
      <4>5. Pending > 0 /\ Pending' = Pending - 1 /\ Pending' = 0
        BY <4>3
      <4>6. wait_eot' = IF Pending' = 0 THEN FALSE ELSE wait_eot
        BY <4>4, <4>5, Zenon
      <4>7. Count!Ack
        BY <4>5, <4>6, Zenon DEF Count!Ack
      <4> QED
        BY <4>7, <3>2, <3>5 DEF Count!Next, Meet
    <3>6. CASE ctrl /\ eot_clr /\ ~eot_set /\ ~eot /\ ~wait_eot2
      <4>1. ~eot' /\ ~wait_eot2' /\ (wait_eot' <=> wait_eot)
        BY <3>1, <3>6 DEF PrDmaEot, PrDmaWaitEot
      <4>2. wait_eot' = wait_eot
        BY <4>1, <3>t DEF EotInv, TypeOK
      <4>3. UNCHANGED <<Pending, wait_eot>>
        BY <4>1, <4>2, <3>6
      <4> QED
        BY <4>3, <3>2, <3>6 DEF Count!Next, Meet
    <3>7. CASE ctrl /\ ~eot_clr /\ eot_set
      <4>1. ~wait_eot /\ ~wait_eot2
        BY <3>7 DEF EotInv, HeldIsQuiet
      <4>2. eot' /\ ~wait_eot2' /\ (wait_eot' <=> eot)
        BY <4>1, <3>1, <3>7 DEF PrDmaEot, PrDmaWaitEot
      <4>3. Count!BlockEnd
        BY <4>1, <4>2, <3>7, <3>t DEF Count!BlockEnd, EotInv, TypeOK
      <4> QED
        BY <4>3, <3>2, <3>7 DEF Count!Next, Meet
    <3>8. CASE ctrl /\ ~eot_clr /\ ~eot_set
      <4>1. UNCHANGED <<eot, wait_eot, wait_eot2>>
        BY <3>1, <3>8, <3>t, Zenon DEF PrDmaEot, PrDmaWaitEot, EotInv, TypeOK
      <4> QED
        BY <4>1, <3>2, <3>8 DEF Count!Next, Meet
    <3> QED
      BY <3>m, <3>3, <3>4, <3>5, <3>6, <3>7, <3>8 DEF EotInv, TypeOK, Meet
  <2> QED
    BY <2>1, <2>2
<1> QED
  BY <1>1, <1>2, EotInvariant, PTL DEF Spec, EotCountSpec, Count!Spec
===============================================================================
