------------------------------- MODULE EotFlags -------------------------------
(***************************************************************************)
(* The end-of-transfer flags of one DMA channel of the FPGA core           *)
(* (ctrl_main.vhd), clock by clock.  The clocked VHDL processes are the    *)
(* conjuncts of Clock, each computing its registers from the values before *)
(* the edge; the host reads STATUS and writes DMA_CTRL and FLAG_CLR.       *)
(***************************************************************************)
EXTENDS Naturals

VARIABLES
  ctrl,        \* dma0_ctrl(0), the DMA_START bit
  eot,         \* dma0_eot
  sg_eot,      \* dma0_sg_eot
  wait_eot,    \* dma0_wait_eot
  wait_eot2,   \* dma0_wait_eot2
  eot_set,     \* dma_eot_set with dma_chni = 0, a pulse of one clock
  sg_eot_set,  \* dma_sg_eot_set with dma_chni = 0
  eot_clr,     \* dma0_eot_clr, a pulse of one clock
  stp,         \* state of the transfer machine
  host,        \* "ack": STATUS was read with INT_REQ set, FLAG_CLR follows
  fresh,       \* history: no page was granted since the last start
  carried,     \* history: at the last start a page of the run before was in flight
  merged       \* history: in this run a FLAG_CLR met the end of a second block

vars == <<ctrl, eot, sg_eot, wait_eot, wait_eot2, eot_set, sg_eot_set,
          eot_clr, stp, host, fresh, carried, merged>>

(* STATUS bit 4, and bit 7 when interrupts are enabled. *)
Status4 == eot \/ wait_eot2

Init ==
  /\ ctrl = FALSE
  /\ eot = FALSE /\ sg_eot = FALSE
  /\ wait_eot = FALSE /\ wait_eot2 = FALSE
  /\ eot_set = FALSE /\ sg_eot_set = FALSE /\ eot_clr = FALSE
  /\ stp = "s0"
  /\ host = "idle"
  /\ fresh = TRUE /\ carried = FALSE /\ merged = FALSE

-----------------------------------------------------------------------------
(* Mutant: dma0_eot survives the stop of the channel. *)
PrDmaEotKept ==
  /\ eot' = (~eot_clr /\ (eot \/ eot_set))
  /\ sg_eot' = (ctrl /\ (sg_eot \/ sg_eot_set))

(* pr_dma_eot *)
PrDmaEot ==
  /\ eot' = (ctrl /\ ~eot_clr /\ (eot \/ eot_set))
  /\ sg_eot' = (ctrl /\ (sg_eot \/ sg_eot_set))

(* Mutant: the first FLAG_CLR is not handed over to wait_eot2. *)
PrDmaWaitEotLost ==
  /\ wait_eot' = (/\ ctrl
                  /\ ~(eot_clr /\ wait_eot2)
                  /\ wait_eot \/ (eot_set /\ eot))
  /\ wait_eot2' = FALSE

(* Mutant: the first FLAG_CLR releases the channel. *)
PrDmaWaitEotShort ==
  /\ wait_eot' = (ctrl /\ ~eot_clr /\ (wait_eot \/ (eot_set /\ eot)))
  /\ wait_eot2' = FALSE

(* pr_dma0_wait_eot *)
PrDmaWaitEot ==
  /\ wait_eot' = (/\ ctrl
                  /\ ~(eot_clr /\ wait_eot2)
                  /\ wait_eot \/ (eot_set /\ eot))
  /\ wait_eot2' = (ctrl /\ IF eot_clr THEN eot /\ wait_eot ELSE wait_eot2)

(* Mutant: the arbiter ignores wait_eot. *)
GrantableHeld == ctrl /\ ~sg_eot

(* The arbiter may grant the channel a page: transfer_rdy needs DMA_START. *)
Grantable == ctrl /\ ~sg_eot /\ ~wait_eot

(* s0, pr_chn: wait for the grant of a page. *)
S0 ==
  /\ stp = "s0"
  /\ eot_set' = FALSE
  /\ sg_eot_set' = FALSE
  /\ \/ stp' = "s0"
     \/ Grantable /\ stp' = "st1"

(* st1: the page is in flight; then stop, page done or block done. *)
St1 ==
  /\ stp = "st1"
  /\ UNCHANGED <<eot_set, sg_eot_set>>
  /\ \/ stp' \in {"st1", "s0"}
     \/ ctrl /\ stp' = "st2"

(* st2: the descriptor is exhausted; its command asks for EOT or ends the
   chain. *)
St2 ==
  /\ stp = "st2"
  /\ eot_set' \in BOOLEAN
  /\ sg_eot_set' \in BOOLEAN
  /\ stp' = "sc0"

(* sc0 .. sc4, sr0 ..: the next descriptor is prepared. *)
Sc0 ==
  /\ stp = "sc0"
  /\ eot_set' = FALSE
  /\ UNCHANGED sg_eot_set
  /\ stp' = "s0"

(* pr_state *)
PrState == S0 \/ St1 \/ St2 \/ Sc0

-----------------------------------------------------------------------------
(* The register bus, pr_dma_ctrl: at most one host access per clock. *)

(* No access, or one that touches neither register. *)
HostQuiet ==
  /\ eot_clr' = FALSE
  /\ UNCHANGED <<ctrl, host>>

(* The ISR reads STATUS and finds INT_REQ; earlier writes have arrived. *)
HostRead ==
  /\ host = "idle"
  /\ Status4 /\ ~eot_clr
  /\ host' = "ack"
  /\ eot_clr' = FALSE
  /\ UNCHANGED ctrl

(* The ISR writes FLAG_CLR with bit 4 set. *)
HostAck ==
  /\ host = "ack"
  /\ host' = "idle"
  /\ eot_clr' = TRUE
  /\ UNCHANGED ctrl

(* DMA_CTRL is written with 0, possibly between an ISR's read and write. *)
HostStop ==
  /\ ctrl
  /\ ctrl' = FALSE
  /\ eot_clr' = FALSE
  /\ UNCHANGED host

(* DMA_CTRL is written with DMA_START, whatever the machine is doing. *)
HostStart ==
  /\ ~ctrl
  /\ ctrl' = TRUE
  /\ eot_clr' = FALSE
  /\ UNCHANGED host

(* pr_dma_ctrl *)
PrDmaCtrl == HostQuiet \/ HostRead \/ HostAck \/ HostStop \/ HostStart

-----------------------------------------------------------------------------
Starting == ~ctrl /\ ctrl'

Granting == stp = "s0" /\ stp' = "st1"

(* The pulse of FLAG_CLR and the pulse that ends a block of a running
   channel are up together. *)
Meet == ctrl /\ eot_set /\ eot_clr

(* One rising edge of clk. *)
Clock(HostAccess) ==
  /\ HostAccess
  /\ PrState
  /\ PrDmaEot
  /\ PrDmaWaitEot
  /\ fresh' = (Starting \/ (fresh /\ ~Granting))
  /\ carried' = IF Starting THEN stp' # "s0" ELSE carried
  /\ merged' = (ctrl /\ (merged \/ (Meet /\ eot)))

Next == Clock(PrDmaCtrl)

Spec == Init /\ [][Next]_vars

(* The clock runs and the ISR, once INT_REQ is up, reads and acknowledges;
   nothing obliges the host to start or to stop the channel. *)
FairSpec ==
  /\ Spec
  /\ WF_vars(Clock(HostQuiet))
  /\ WF_vars(Clock(HostRead))
  /\ WF_vars(Clock(HostAck))

-----------------------------------------------------------------------------
TypeOK ==
  /\ ctrl \in BOOLEAN
  /\ eot \in BOOLEAN /\ sg_eot \in BOOLEAN
  /\ wait_eot \in BOOLEAN /\ wait_eot2 \in BOOLEAN
  /\ eot_set \in BOOLEAN /\ sg_eot_set \in BOOLEAN /\ eot_clr \in BOOLEAN
  /\ fresh \in BOOLEAN /\ carried \in BOOLEAN /\ merged \in BOOLEAN
  /\ stp \in {"s0", "st1", "st2", "sc0"}
  /\ host \in {"idle", "ack"}

(* wait_eot is documented as "waiting for the reset of dma_eot": a channel  *)
(* held by it shows DMA_EOT in STATUS, so that the interrupt request that   *)
(* leads to the reset is up.  The one exception is the channel whose second *)
(* block ended in the clock of a FLAG_CLR: it is held and shows nothing,    *)
(* whatever is written, until it is stopped.                                *)
WaitIsPending == (wait_eot /\ ~Status4) <=> merged

(* DMA_EOT is "completion of the transfer of a data block": a run in which  *)
(* no page was granted yet shows none, or that of the one page which was in *)
(* flight when the channel was switched off and on, and never two.          *)
EotMeansBlock == fresh => ~wait_eot /\ (Status4 => carried)

(* A channel held by wait_eot has no page in flight and ends no block, so   *)
(* a third block end can never be merged with the two outstanding ones.     *)
HeldIsQuiet == wait_eot => stp \notin {"st1", "st2"} /\ ~eot_set

(* Two outstanding block ends, one, or none. *)
Pending ==
  IF eot /\ wait_eot THEN 2 ELSE IF eot \/ wait_eot2 THEN 1 ELSE 0

Count == INSTANCE EotCount
           WITH running <- ctrl, pending <- Pending, blocked <- wait_eot

(* Every block end is announced once and every FLAG_CLR takes back one,     *)
(* however often the channel is stopped and started, except in the clock in *)
(* which the two meet, and what that clock does is Merge.                   *)
EotCountSpec ==
  /\ Count!Init
  /\ [][IF Meet THEN Count!Merge ELSE Count!Next]_(Count!vars)

(* A channel held with its request up is released: the ISR finds the        *)
(* request and acknowledges, twice.                                         *)
HeldIsReleased == wait_eot /\ ~merged ~> ~wait_eot
===============================================================================
