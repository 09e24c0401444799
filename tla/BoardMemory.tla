------------------------------ MODULE BoardMemory ------------------------------
(***************************************************************************)
(* Who owns what from insmod to rmmod: the resources probe takes and its   *)
(* error paths and remove give back, the memory of a DMA channel           *)
(* (RequestMemory, ReleaseMemory), the single blocks of memory.c, and one  *)
(* program after another that opens the board, sets up its stream through  *)
(* pex_board, runs it and ends, perhaps without freeing anything: closing  *)
(* the file frees nothing either.  An allocation is a region; the words    *)
(* in it matter only where they point to other regions.                    *)
(***************************************************************************)
EXTENDS Naturals, FiniteSets, Sequences, Functions

CONSTANTS
  BlockCnt,    \* blocks of a stream
  NumRegions,  \* bound: regions of memory
  MaxProgs,    \* bound: programs run one after the other
  MaxProbes    \* bound: times the board is probed

Regions == 1 .. NumRegions
Blocks == 1 .. BlockCnt

ASSUME BoardMemoryAssumption ==
  /\ BlockCnt \in Nat \ {0} /\ NumRegions \in Nat
  /\ MaxProgs \in Nat /\ MaxProbes \in Nat

VARIABLES
  board,   \* "unloaded", "unbound", "hollow", "cdev", "mask" or "bound"
  held,    \* the resources module and probe hold
  live,    \* the regions allocated
  dma,     \* struct CDmaChannel: m_UseCount, m_pBufDscr, m_StubDscr,
           \* m_SGTableDscr, m_pScatterGatherTableExt, the stub's state
  list,    \* m_MemList
  hw,      \* the channel of the FPGA: its table, the blocks it will fill
  prog,    \* the program: pc, m_Descr, what it has mapped
  oops,    \* the kernel has used a NULL or stale pointer, or freed one
  stubs,   \* history: the stubs allocated
  faulty,  \* history: memory for a channel, the class or the device was refused,
           \* a mapping failed, or a program was killed
  early,   \* history: the board was opened before probe was done
  progs, probes  \* history: how many there have been

kernelVars == <<board, held, list>>
history == <<stubs, faulty, early, progs, probes>>
vars == <<kernelVars, live, dma, hw, prog, oops, history>>

NoBlocks == [b \in Blocks |-> 0]
NewDma == [use |-> 0, dscr |-> 0, blocks |-> NoBlocks, stub |-> 0, sg |-> 0,
           table |-> 0, chain |-> NoBlocks, state |-> "STOP"]
Off == [on |-> FALSE, sg |-> 0, chain |-> NoBlocks]
NoDescr == [blocks |-> NoBlocks, stub |-> 0]
NoProg == [pc |-> "none", descr |-> NoDescr, map |-> {}]

Init ==
  /\ board = "unloaded" /\ held = {} /\ live = {} /\ list = {}
  /\ dma = NewDma /\ hw = Off /\ prog = NoProg /\ oops = FALSE
  /\ stubs = {} /\ faulty = FALSE /\ early = FALSE /\ progs = 0 /\ probes = 0


-----------------------------------------------------------------------------
(* Module and probe.  A goto chain: a failure jumps to a label and falls    *)
(* through the rest.                                                        *)
ModuleSteps == <<"chrdev", "class", "driver">>
ModuleUndo == [chrdev |-> <<>>, class |-> <<"chrdev">>, driver |-> <<"class", "chrdev">>]
ProbeSteps == <<"brd", "enable", "dma_mask", "bar0", "bar1", "irq", "cdev", "device">>
Chain == <<"cdev", "irq", "bar1", "bar0", "enable", "brd">>
Label == [brd |-> 7, enable |-> 6, dma_mask |-> 5, bar0 |-> 5, bar1 |-> 4, irq |-> 3,
          cdev |-> 2, device |-> 1]
(* class_create and device_create return an error pointer and not the NULL  *)
(* that is tested for: a failure goes unnoticed, and label 1 is not reached. *)
Unnoticed == {"class", "device"}

(* Mutant: the label before is used. *)
ProbeUndoShort(s) == SubSeq(Chain, Label[s] + 1, Len(Chain))
ProbeUndo(s) == SubSeq(Chain, Label[s], Len(Chain))

(* What is held when step i of steps fails. *)
HeldAfter(steps, i, undo) ==
  (held \cup {steps[j] : j \in 1 .. i - 1}) \ (Range(undo) \cup {"dma_mask"})

pex_module_init ==
  /\ board = "unloaded"
  /\ \/ \E lost \in SUBSET {"class"} :
          /\ held' = Range(ModuleSteps) \ lost /\ board' = "unbound"
          /\ faulty' = (faulty \/ lost # {})
     \/ \E i \in DOMAIN ModuleSteps :
          /\ ModuleSteps[i] \notin Unnoticed
          /\ held' = HeldAfter(ModuleSteps, i, ModuleUndo[ModuleSteps[i]])
          /\ UNCHANGED <<board, faulty>>
  /\ UNCHANGED <<list, live, dma, hw, prog, oops, stubs, early, progs, probes>>

(* A failure to set the DMA mask leaves error at 0: the board is bound, and *)
(* nothing more.  Without the class there is no device.                     *)
Probe ==
  /\ board = "unbound" /\ probes < MaxProbes /\ probes' = probes + 1
  /\ \/ \E lost \in SUBSET {"device"} :
          /\ "class" \notin held => lost # {}
          /\ held' = held \cup (Range(ProbeSteps) \ ({"dma_mask"} \cup lost))
          /\ board' = "cdev"
          /\ faulty' = (faulty \/ lost # {})
     \/ \E i \in DOMAIN ProbeSteps :
          /\ ProbeSteps[i] \notin Unnoticed
          /\ held' = HeldAfter(ProbeSteps, i, ProbeUndo(ProbeSteps[i]))
          /\ board' = IF ProbeSteps[i] = "dma_mask" THEN "hollow" ELSE "unbound"
          /\ UNCHANGED faulty
  /\ UNCHANGED <<list, live, dma, hw, prog, oops, stubs, early, progs>>

(* The device file is there, but m_DmaChanMask is still 0 ...               *)
InitializeBoard ==
  /\ board = "cdev" /\ board' = "mask"
  /\ UNCHANGED <<held, list, live, dma, hw, prog, oops, history>>

(* ... and then m_DmaChannel still NULL; it stays NULL, and probe goes on,  *)
(* when kzalloc has no memory for the channel.                              *)
CDmaChannelCreate ==
  /\ board = "mask" /\ board' = "bound"
  /\ dma' = NewDma
  /\ \/ held' = held \cup {"chan", "list"} /\ UNCHANGED faulty
     \/ held' = held \cup {"list"} /\ faulty' = TRUE
  /\ UNCHANGED <<list, live, hw, prog, oops, stubs, early, progs, probes>>

free_memory == live' = live \ list /\ list' = {}

(* pex_device_remove, which finds the board in device_list.  The memory of  *)
(* the channel is not released, nor the channel stopped; device_destroy     *)
(* follows pex_class, be it an error pointer.                               *)
Remove ==
  /\ board \in {"bound", "hollow"} /\ prog.pc = "none" /\ ~oops
  /\ free_memory
  /\ IF board = "bound" /\ "class" \notin held
     THEN oops' = TRUE /\ held' = held \ {"irq", "chan"} /\ UNCHANGED board
     ELSE /\ board' = "unbound" /\ UNCHANGED oops
          /\ held' = IF board = "bound" THEN Range(ModuleSteps) ELSE held
  /\ UNCHANGED <<dma, hw, prog, history>>

pex_module_cleanup ==
  /\ board = "unbound" /\ board' = "unloaded" /\ held' = held \ Range(ModuleSteps)
  /\ UNCHANGED <<list, live, dma, hw, prog, oops, history>>

-----------------------------------------------------------------------------
(* The memory of a channel.  Region k of those still free: *)
Free(k) == CHOOSE r \in Regions \ live :
             Cardinality({q \in Regions \ live : q < r}) = k - 1

(* RequestMemory allocates, in this order, the block descriptors, the stub, *)
(* the blocks and the descriptor table; allocation number fail, if any,     *)
(* fails.  A failure of the last is not noticed.                            *)
Allocations == BlockCnt + 3
NewStub == Free(2)
NewBlocks == [b \in Blocks |-> Free(b + 2)]
NewTable(fail) == IF fail = 0 THEN Free(Allocations) ELSE 0

(* The stub goes only with the last user's memory. *)
ReleaseStub(d) == IF d.use = 0 THEN [d EXCEPT !.stub = 0] ELSE d

(* The blocks allocated before one that fails stay. *)
RequestFailed(fail) ==
  /\ live' = live \cup {Free(b + 2) : b \in 1 .. fail - 3}
  /\ dma' = IF fail <= 2 THEN dma ELSE ReleaseStub(dma)
  /\ UNCHANGED stubs

RequestFirst(fail) ==
  LET sg == NewTable(fail) IN
  /\ live' = live \cup {Free(k) : k \in 1 .. Allocations - 1}
                  \cup (IF sg = 0 THEN {} ELSE {sg})
  /\ dma' = [dma EXCEPT !.use = 1, !.dscr = Free(1), !.stub = NewStub,
               !.blocks = NewBlocks, !.sg = sg, !.state = "STOP",
               !.table = IF sg = 0 THEN @ ELSE sg,
               !.chain = IF sg = 0 THEN @ ELSE NewBlocks]
  /\ stubs' = stubs \cup {NewStub}

(* Memory in use is not mapped again, as the comment in RequestMemory says, *)
(* but allocated again, and the table still leads to the old blocks.        *)
RequestAgain(fail) ==
  /\ UNCHANGED stubs
  /\ IF fail = 0
     THEN /\ live' = live \cup {Free(b + 2) : b \in Blocks}
          /\ dma' = [dma EXCEPT !.use = @ + 1, !.blocks = NewBlocks]
     ELSE /\ live' = (live \cup {Free(b + 2) : b \in 1 .. fail - 3}) \ {dma.dscr}
          /\ dma' = [dma EXCEPT !.dscr = 0, !.blocks = NoBlocks]

(* The first request with a memory type other than system memory.           *)
RequestUser == dma' = ReleaseStub(dma) /\ UNCHANGED <<live, stubs>>

RequestMemory(sys, fail) ==
  \/ dma.use > 0 /\ fail \in {0} \cup 3 .. Allocations - 1 /\ RequestAgain(fail)
  \/ dma.use = 0 /\ ~sys /\ fail = 0 /\ RequestUser
  \/ /\ dma.use = 0 /\ sys
     /\ IF fail \in 1 .. Allocations - 1 THEN RequestFailed(fail) ELSE RequestFirst(fail)

SysBuf == Range(dma.blocks)
SGList == {dma.sg}
Owned == {dma.dscr} \cup SGList \cup SysBuf

(* Mutant: m_UseCount is not decremented. *)
ReleaseMemoryCounted ==
  IF dma.use = 0 THEN UNCHANGED <<live, dma, oops>>
  ELSE /\ oops' = ~(Owned \subseteq live)
       /\ live' = live \ Owned
       /\ dma' = [dma EXCEPT !.dscr = 0, !.sg = 0, !.blocks = NoBlocks]

(* ReleaseMemory: ReleaseStub does nothing while m_UseCount is not 0.       *)
ReleaseMemory ==
  IF dma.use = 0 THEN UNCHANGED <<live, dma, oops>>
  ELSE /\ oops' = ~(Owned \subseteq live)
       /\ live' = live \ Owned
       /\ dma' = [ReleaseStub(dma) EXCEPT !.use = @ - 1, !.dscr = 0, !.sg = 0, !.blocks = NoBlocks]

-----------------------------------------------------------------------------
(* The program.  Goto keeps what it has mapped.                             *)
At(pc) == prog.pc = pc /\ ~oops
Goto(pc) == prog' = [prog EXCEPT !.pc = pc]

(* core_open: the device file exists from device_create on.                 *)
Open ==
  /\ At("none") /\ "device" \in held /\ progs < MaxProgs
  /\ Goto("open") /\ progs' = progs + 1
  /\ early' = (early \/ board # "bound")
  /\ UNCHANGED <<kernelVars, live, dma, hw, oops, stubs, faulty, probes>>

Descr(d) == [blocks |-> d.blocks, stub |-> d.stub]

(* StreamInit, core_alloc: IOCTL_AMB_SET_MEMIO.  An error is thrown, and    *)
(* ends the program.                                                        *)
SetMem(sys, fail) ==
  /\ At("open") /\ Cardinality(Regions \ live) >= Allocations
  /\ faulty' = (faulty \/ fail # 0)
  /\ IF board = "cdev" THEN prog' = NoProg /\ UNCHANGED <<live, dma, oops, stubs>>
     ELSE IF "chan" \notin held \/ (dma.use > 0 /\ dma.dscr = 0)
     THEN oops' = TRUE /\ UNCHANGED <<live, dma, prog, stubs>>
     ELSE /\ UNCHANGED oops
          /\ RequestMemory(sys, fail)
          /\ prog' = IF dma'.use > dma.use
                     THEN [prog EXCEPT !.pc = "set", !.descr = Descr(dma')] ELSE NoProg
  /\ UNCHANGED <<kernelVars, hw, early, progs, probes>>

(* core_alloc: the blocks and the stub are mapped; or that fails.           *)
Map ==
  /\ At("set")
  /\ \/ /\ prog' = [prog EXCEPT !.pc = "mapped",
                      !.map = Range(prog.descr.blocks) \cup {prog.descr.stub}]
        /\ UNCHANGED faulty
     \/ prog' = NoProg /\ faulty' = TRUE
  /\ UNCHANGED <<kernelVars, live, dma, hw, oops, stubs, early, progs, probes>>

(* core_stop_dma *)
Stopped(d) == IF d.state = "RUN" THEN [d EXCEPT !.state = "STOP"] ELSE d

(* The rest of StreamInit: dma_stop, and dma_reset_fifo, which writes 0 to  *)
(* DMA_CTRL.                                                                *)
Prepare ==
  /\ At("mapped") /\ Goto("ready")
  /\ dma' = Stopped(dma) /\ hw' = Off
  /\ UNCHANGED <<kernelVars, live, oops, history>>

(* StreamStart: StartDmaTransfer writes to the table, and the channel reads *)
(* it from the address in m_SGTableDscr.                                    *)
Start ==
  /\ At("ready") /\ Goto("run")
  /\ IF dma.table = 0 \/ dma.table # dma.sg
     THEN oops' = TRUE /\ UNCHANGED <<dma, hw>>
     ELSE /\ dma' = [dma EXCEPT !.state = "RUN"]
          /\ hw' = [on |-> TRUE, sg |-> dma.sg, chain |-> dma.chain]
          /\ UNCHANGED oops
  /\ UNCHANGED <<kernelVars, live, history>>

Stop ==
  /\ At("run") /\ Goto("ready")
  /\ dma' = Stopped(dma) /\ hw' = Off
  /\ UNCHANGED <<kernelVars, live, oops, history>>

(* Mutant: the memory is freed before the channel is stopped. *)
StreamDestroyRunning ==
  /\ At("run") /\ prog' = [prog EXCEPT !.pc = "open", !.descr = NoDescr, !.map = {}]
  /\ ReleaseMemory
  /\ UNCHANGED <<kernelVars, hw, history>>

(* Mutant: IOCTL_AMB_FREE_MEMIO is not called. *)
StreamDestroyUnmap ==
  /\ At("ready") /\ prog' = [prog EXCEPT !.pc = "open", !.descr = NoDescr, !.map = {}]
  /\ UNCHANGED <<kernelVars, live, dma, oops, hw, history>>

(* StreamDestroy, core_free_memory: the mappings go first.                  *)
StreamDestroy ==
  /\ At("ready") /\ prog' = [prog EXCEPT !.pc = "open", !.descr = NoDescr, !.map = {}]
  /\ ReleaseMemory
  /\ UNCHANGED <<kernelVars, hw, history>>

(* The program ends, or is killed: core_close, or the system, unmaps.       *)
Exit ==
  /\ prog.pc # "none" /\ ~oops /\ prog' = NoProg
  /\ faulty' = (faulty \/ prog.pc # "open")
  /\ UNCHANGED <<kernelVars, live, dma, hw, oops, stubs, early, progs, probes>>

(* A single pass has ended: HwCompleteDmaTransfer in the tasklet.           *)
HwDone ==
  /\ hw.on /\ "chan" \in held /\ hw' = Off
  /\ dma' = [dma EXCEPT !.state = "STOP"]
  /\ UNCHANGED <<kernelVars, live, prog, oops, history>>

(* The blocks of memory.c, one at a time.  A failure leaves nothing.        *)
allocate_memory_block ==
  \/ list' = list \cup {Free(1)} /\ live' = live \cup {Free(1)}
  \/ UNCHANGED <<list, live>>

(* Mutant: without list_del. *)
free_memory_blockKeep(r) == list' = list /\ live' = live \ {r}
free_memory_block(r) == list' = list \ {r} /\ live' = live \ {r}

MemoryAlloc ==
  /\ At("open") /\ list = {} /\ Cardinality(Regions \ live) > Allocations
  /\ allocate_memory_block
  /\ UNCHANGED <<board, held, dma, hw, prog, oops, history>>

MemoryFree ==
  /\ At("open") /\ \E r \in list : free_memory_block(r)
  /\ UNCHANGED <<board, held, dma, hw, prog, oops, history>>

-----------------------------------------------------------------------------
Driver == pex_module_init \/ Probe \/ InitializeBoard \/ CDmaChannelCreate
          \/ Remove \/ pex_module_cleanup
Program ==
  \/ Open \/ Map \/ Prepare \/ Start \/ Stop \/ StreamDestroy \/ Exit
  \/ \E sys \in BOOLEAN, fail \in 0 .. Allocations : SetMem(sys, fail)
  \/ MemoryAlloc \/ MemoryFree

Next == Driver \/ Program \/ HwDone
Spec == Init /\ [][Next]_vars

-----------------------------------------------------------------------------
Ptr == {0} \cup Regions

TypeOK ==
  /\ board \in {"unloaded", "unbound", "hollow", "cdev", "mask", "bound"}
  /\ held \subseteq Range(ModuleSteps) \cup Range(ProbeSteps) \cup {"chan", "list"}
  /\ live \subseteq Regions /\ list \subseteq live /\ stubs \subseteq Regions
  /\ dma \in [use : 0 .. MaxProgs, dscr : Ptr, blocks : [Blocks -> Ptr], stub : Ptr,
              sg : Ptr, table : Ptr, chain : [Blocks -> Ptr], state : {"RUN", "STOP"}]
  /\ hw \in [on : BOOLEAN, sg : Ptr, chain : [Blocks -> Ptr]]
  /\ prog.pc \in {"none", "open", "set", "mapped", "ready", "run"}
  /\ prog.map \subseteq Regions
  /\ oops \in BOOLEAN /\ faulty \in BOOLEAN /\ early \in BOOLEAN

(* Every error path of module_init and probe gives back all it has taken,   *)
(* and so does remove, with a class or, unnoticed, without; and when no     *)
(* program failed or was killed, of the memory only stubs are left.         *)
NothingHeld ==
  /\ board = "unloaded" => held = {}
  /\ board \in {"unbound", "hollow"} => held \cup {"class"} = Range(ModuleSteps)
  /\ board \in {"unloaded", "unbound", "hollow"} /\ ~faulty => live \subseteq stubs

(* Whatever failed before: what a program has mapped, what the channel      *)
(* reads and fills, and the stub the handler writes, is allocated memory.   *)
InUseIsLive ==
  ~oops => /\ prog.map \subseteq live
           /\ hw.on => Range(hw.chain) \cup {hw.sg} \subseteq live
           /\ hw.on /\ board = "bound" /\ dma.use > 0 => dma.stub \in live

(* The channel fills the blocks that the program has mapped, unless an      *)
(* earlier program left its memory behind; and the program reads the stub   *)
(* that the handler writes, always.                                         *)
OwnBlocks ==
  /\ prog.pc = "run" /\ hw.on /\ ~faulty => hw.chain = prog.descr.blocks
  /\ prog.pc \in {"mapped", "ready", "run"} => prog.descr.stub = dma.stub

(* The kernel is brought to follow a NULL, stale or error pointer only      *)
(* after memory, the class or the device was refused or a program ended     *)
(* without StreamDestroy, or by one that opened the board while probe was   *)
(* still busy.                                                              *)
OopsExplained == oops => faulty \/ early
===============================================================================
