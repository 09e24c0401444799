# Verification of pcie_ds_dma

`pcie_ds_dma` is a PCI Express DMA core for FPGAs (`src/core`), a Linux driver
for boards that carry it (`src/soft/linux/driver/pexdrv`) and a user library
with test programs (`src/soft/linux/common`, `.../application`).  The core moves
blocks of data between a FIFO and the memory of the host without the host's
help; the driver builds the chain of descriptors, counts the blocks from an
interrupt handler and wakes the clients that wait for them.

This directory holds TLA+ modules of the parts that have to agree while data is
moving, the TLC configurations that check them on small instances, and, in the
modules named `*_proof`, TLAPS proofs of what they check for every instance.

## 1. Inventory

| part | state it keeps | operations | talks to | what is hard | what makes it correct |
|---|---|---|---|---|---|
| EOT handshake (`ctrl_main.vhd:601-689`, `block_pe_fifo_ext.vhd:356-397`) | `dmaN_eot`, `dmaN_wait_eot`, `dmaN_wait_eot2`, `dmaN_sg_eot`, DMA_CTRL | block end, FLAG_CLR, start, stop | transfer machine, register bus | pulses of one clock that meet; a stop with a page in flight | every block end is announced once, every acknowledgement takes one back, a held channel ends no block and is released |
| transfer machine (`ctrl_main.vhd:231-572`, `ctrl_dma_ext_cmd.vhd`) | `stp`, `dma_chni`, descriptor command | grant, page, next descriptor, next table | page buffers, address registers | two channels share one machine | one channel at a time; chains are followed to their end |
| page buffers (`ctrl_ram_cmd.vhd`) | full flags of two pages, transfer request | fill, empty, flush | both clock domains | ping-pong between two clocks | no page is sent before it is full or refilled before it is sent |
| interrupt unit (`core64_interrupt.vhd`) | state, hold-off counter | assert, deassert | PCIe core | request that changes during the hold-off | a pending request is asserted again |
| channel bookkeeping (`dmachan.c`) | `struct CDmaChannel`, the stub shared with the user | Start, Next, SetDoneBlock, GetState, Complete | handler, tasklet, ioctl calls | three contexts write it with one lock | `lastBlock` names the last block filled; a transfer is completed exactly when it is full |
| interrupt handler (`pexmodule.c:303-407`) | `m_primChan`, `m_DmaIrqEnbl` | scan, count, FLAG_CLR | all channels | one interrupt line, no lock | every channel is served |
| tasklet (`dmachan.c:910-930`) | `m_State`, events | copy, signal, complete | handler, clients | late, merged with a second run | no block end is lost |
| ioctl calls (`ioctlrw.c`, `hardware.c`) | `m_BoardMutex`, `m_DmaChanEnbl` | START, STOP, STATE, WAIT, DONE, RESET_FIFO, SET_MEM, FREE_MEM, registers | everything above | preempted at any point | a stopped channel stays off; interrupts of others stay enabled |
| events (`event.c`) | `m_flag`, wait queue | Set, Grab, Wait | tasklet, clients | wake-up, timeout and signal race | a signalled event is seen |
| memory of a channel (`dmachan.c:72-185, 373-578`) | `m_UseCount`, buffers, stub, table | Request, Release | clients | failures half way, repeated calls | what is allocated is released once |
| scatter/gather table (`dmachan.c:189-359`) | descriptors in tables of 63 | build, close | FPGA | table boundaries | the FPGA visits every block once a round |
| agreed mode (`dmachan.c:699-759`, `cl_wbpex.cpp:307-326`) | `m_DoneBlock`, `m_DoneFlag`, `m_preBlockCount1..3` | Next, DONE, Adjust | reader | boundary of small buffers, DONE against the handler | no block is overwritten before DONE, if the channel obeys the flag |
| single memory blocks (`memory.c`) | list of blocks | alloc, free | clients | failures | list and allocations agree |
| bring-up and register access (`hardware.c:188-415`, `pex_board.cpp`, `pex_test.cpp`) | BRD_MODE, `m_PldStatus`, command registers of a tetrad, a timer | InitializeBoard, core_init, board_init, peek, poke, SET_DRQ | board | three writers of one register without a lock; timeout against readiness | an access reaches the register it names; the board comes up whoever was last |
| stream class (`cl_wbpex.cpp`, `cl_ambpex.cpp`) | `indexPc`, `indexDma` | Init, Start, GetBuf, GetBufDone, Stop, Destroy | stub | reader lapped by the writer | blocks are read once and in order |
| probe and removal (`pexmodule.c:453-741`) | board list, IRQ, BARs | module_init, probe, remove, cleanup | kernel | error paths, a device file that is live too early | what was acquired is released |
| test programs (`wb_test`, `adm_test`) | fields of the test objects, `exit_flag` | main loop, SIGINT, receive, send, file thread | stream class | threads that share fields without a lock; shutdown | threads are gone before their objects; nothing runs on after exit |
| test data (`tf_testbufm2.cpp`) | block type, counter, shift registers at both ends | buf_set, buf_check, buf_check_psd, buf_check_inv | test programs, FPGA | both ends run on for hours | what is reported is what happened on the way |
| vendor cores, transaction engines, wishbone crossbar, ADM blocks, board projects, proc file, parameter files, console tables | | | | | not modelled, see section 8 |

`PROJECT.json` lists every component with its status, and every hazard with the
line where it bites and the properties that guard it.

## 2. Plan

Written in this order, the most important behaviour first:

1. `EotCount`, `EotFlags` - the handshake between the FPGA and the handler.
2. `DmaChan`, `PexDma` - handler, tasklets and ioctl calls over that handshake.
3. `BlockRing`, `SGList` - the descriptor tables and their walk by the FPGA.
4. `StreamRing` - the agreed mode, and the reader of `cl_wbpex.cpp` against stub,
   handler and channel.
5. `TestProg`, `TestBuf` - the threads of the test programs; the data they send and
   check.
6. `BoardMemory` - memory of a channel, single blocks, probe and removal, over the
   life of several programs.
7. `Registers` - bring-up and indirect register access.
8. `CtrlMain` - two channels of the FPGA, arbitration, page buffers; `Interrupt` -
   assertion and hold-off (open).

1 to 7 are done and proved (section 6).  Open is 8: `CtrlMain` with the theorem that two
channels never share the transfer machine, and `Interrupt`.

The modules compose as follows.

```
  EotCount   <-- refined by --  EotFlags        (ctrl_main.vhd, clock by clock)
     |  WriteFlagClr, HwBlockEnd of PexDma are EotCount!Ack, BlockEnd
     v
  DmaChan  <-- EXTENDS --  PexDma               (driver, over the handshake)
     |                       |  hw[c].pos moves as BlockRing!BlockEnd
     |                       v
     |      BlockRing  <-- refined by --  SGList  (tables and their walk)
     |
     +------ EXTENDS --  StreamRing             (a stream's reader over the driver)

  TestProg      threads of the programs; of a stream only: open, running
  TestBuf       contents of the blocks that StreamRing passes
  BoardMemory   life of board, memory and programs
  Registers     life of the board's registers
```

`PexDma` sees the FPGA through the two abstract specifications: a block end there
is one `EotCount!BlockEnd` and one `BlockRing!BlockEnd`; that the core delivers both
is what `EotFlags` and `SGList` are checked for, and that no step of the driver makes a
channel of `PexDma` anything but an `EotCount` is proved (`ChannelsImplementEotCount`).
`EotFlags` has one step that `PexDma` has not, `Merge`: a FLAG_CLR in the clock of a block
end.  `PexDma` says what the driver does while that does not happen.  `StreamRing` uses the operators of
`DmaChan` as `PexDma` does, takes the handler, the tasklet and a call as one step
each, and cuts the filling of a block in two instead, because what a reader sees
is a block half written.  The last four modules share no state with the others:
where one of them needs a stream or a channel it has the few fields that matter
to it, and the rest of its behaviour is left open.

## 3. Module and code

### EotCount, EotFlags

`EotFlags` is one channel of `ctrl_main.vhd`.  All its registers share one clock,
so there is one action, `Clock`, and each VHDL process is a conjunct of it that
computes its registers from the values before the edge: `PrDmaEot`
(`pr_dma_eot`), `PrDmaWaitEot` (`pr_dma0_wait_eot`), `PrState` (`pr_state`) and
`PrDmaCtrl` (`pr_dma_ctrl`, the register bus, at most one host access a clock).
`stp` keeps the states that set or read the EOT flags: `s0` waits for a grant,
`st1` moves a page, `st2` evaluates the descriptor, `sc0` stands for `sc0..sc4` and
`sr0..sr5_01`.  What the descriptor says and when a page is done are left open.

The host is the driver as far as one channel sees it: the handler reads STATUS
(`HostRead`) and later writes FLAG_CLR (`HostAck`); DMA_CTRL may be written at any
time, between these two as well: a FLAG_CLR pulse may meet the pulse that ends a
block, and a channel may be started again while its last page is in flight, as
`HwStartDmaTransfer` does, which writes DMA_CTRL 0 and then the start bit without a
pause.  Three history variables say what has happened: `fresh`, no page was granted
in this run; `carried`, a page of the run before was in flight at the last start;
`merged`, in this run a FLAG_CLR met the end of a second block.

`EotCount` says what the driver may rely on - one number, 0 to 2, and a flag - and,
as an action of its own, `Merge`, what is left when the two pulses meet: the channel
has nothing announced, and is held if one block was outstanding.
The refinement mapping is in `EotFlags`: `Pending` is 2 when `eot` and `wait_eot` are
up, 1 when `eot` or `wait_eot2` is, else 0.

### DmaChan, PexDma

`DmaChan` holds the arithmetic of `dmachan.c` as operators on two records, so
that `PexDma` says who calls them when.

| state of `PexDma` | in the code |
|---|---|
| `stub[c]`, `state[c]` | `*m_pStub` (`lastBlock`, `state`), and `m_State`, its copy for GetState |
| `run[c]` | `m_DmaCycling`, `m_CurBlockNum`, `m_BlocksRemaining` |
| `BlockEnd`, `BufferEnd` | `m_flag` of `m_BlockEndEvent`, `m_BufferEndEvent` |
| `ChanEnbl`, `IrqEnbl`, `primChan` | `m_DmaChanEnbl`, `m_DmaIrqEnbl`, `m_primChan` |
| `hw[c]` | DMA_CTRL start, DMA_MODE interrupt enable, the EOT count, place in the chain |
| `sched[c]` | `m_Dpc` is scheduled |
| `isr`, `dpc[c]`, `op` | program counters of the handler, of each tasklet, of the ioctl call |
| `unseen[c]` | history: `m_State` was copied and not yet returned to a client |

| actions | in the code |
|---|---|
| `IsrScan`, `IsrNext`, `IsrWrap`, `IsrClear` | `pex_device_isr`: scan, `NextDmaTransfer` before and after `tasklet_hi_schedule`, FLAG_CLR |
| `DpcCopy` .. `DpcBuffer` | `DmaDpcForIsr` with `HwCompleteDmaTransfer` in it |
| `StartCall`, `StartOff`, `StartEnable`, `StartOn` | `ioctl_start_mem`: `StartDmaTransfer`, `HwStartDmaTransfer` |
| `StateCall`, `Grab`, `Wakeup`, `Timeout`, `Clear` | the waits of STOP, STATE, WAIT_DMA_BLOCK, WAIT_DMA_BUFFER (`event.c`) |
| `StopCtrl`, `StopEnbl`, `StopIrq` | `HwCompleteDmaTransfer` from `ioctl_stop_mem` |
| `GetBlock`, `GetTotal` | `GetState` |
| `DoneCall`, `DoneRead`, `DoneWrite` | `ioctl_done`, `Done` |
| `ResetCall` | `ioctl_reset_fifo`, `ResetFifo` |
| `HwBlockEnd` | the FPGA |

A routine is cut where another actor can see or change what it works on;
`HwCompleteDmaTransfer`, for example, in three: registers, `m_DmaChanEnbl` and its
scan, `m_DmaIrqEnbl` and the stub.  Who may act between two steps is the guard
`CpuForIsr`, `CpuForDpc`, `CpuForOp`: with `SMP = FALSE` an ioctl call stands still
while a handler or tasklet is active, a tasklet does not start inside the
handler, and the handler does not preempt a tasklet (it holds a lock taken with
`spin_lock_irqsave`); with `SMP = TRUE` they interleave freely, except that the
tasklet of a channel runs on one CPU at a time and the board mutex admits one
ioctl call.  `StopFirst` is what the library does: `CL_WBPEX::StreamStart` stops
before it starts.

### BlockRing, SGList

`SGList` builds `m_pScatterGatherTableExt` as `SetScatterGatherListExt` does - a
descriptor a block, a link in every 64th entry, the closing of the last table,
a CRC for each - and marks the last descriptor at each start
(`StartDmaTransfer`).  The FPGA loads a table, checks signature and CRC (`Load`) and
follows the commands (`BlockEnd`, `After`).  A descriptor and a link are the same
record, because the FPGA does not tell them apart either; the signature of a
link contains bits that mean commands in a descriptor.  An address is the block
or table it belongs to; memory past the list is taken to hold no table.  The CRC
is the contents it was computed for: driver and FPGA are taken to use the same
polynomial.  `BlockRing` is what a client expects of the chain: blocks in order,
a second round in cyclic mode only.

### StreamRing

One stream in receive direction.  `FillBegin` and `FillEnd` are the FPGA, `Isr` the
handler with its `NextDmaTransfer` and the check of the agreed mode (`DropFlag`),
`Dpc` the tasklet; `StreamStart`, `StreamStop`, `StreamGetBuf` are the library's, with
the ioctl calls they make.  `StreamGetBuf` in agreed mode ends in the ioctl that
runs `SetDoneBlock`, which is cut in two (`SetDoneBlock`, `RaiseFlag`): the handler
may come between its test of the flag and its raising it.  `ring[b]` is what block
`b` holds: data number `seq` of run `run`, `whole` once filled.

The handler never pauses a channel, whatever the flag says: the code that would
is behind `if( 0 )` (`pexmodule.c:385`).  So `lapped` (a block was overwritten before
it was given back) can become true, and the properties say what a reader has
left when it does, and what the flag would give if it were obeyed (`ignored`).
`StreamRingAssumption` asks for four blocks: below that `m_preBlockCount3` starts
past the last block and never wraps.

### TestProg

`main` of `wb_test` and `adm_test` (`Prepare`, `Start`, `Poll`, `StopTerminate`,
`StopStatus`, `Complete`, the steps of the display, the results, `Delete`), `SIGINT`, a
`Worker` for each test (`Execute`, `ReceiveData` or `SendData`, one buffer a step) and
`ExecuteIsvi`, the thread of `adm_test` that hands frames to the viewer through two
files.  A thread is cut at each access to a field another one writes:
`Terminate`, `lc_status`, `IsviStatus` (read and write of `IsviStatus++` apart),
`isDmaStart`, `m_streamParam`.  A received block is right or wrong at will.
`CL_AMBPEX` is allocated with `new` and does not set `status`: `Init` takes either
value.  `WriteFlagSinc` and `ReadFlagSinc` repeat a failing open for ever and never
look at `Terminate`: `OpenFails` is a flag file that never opens, and leaves the
thread where it is; one that opens later is a delay, which every step may have.

### TestBuf

`TF_TestBufM2` at both ends of a stream: `buf_set` computes the words of a block and
leaves its running values (`Advance`), `buf_check` computes the same words again
and compares.  The text of the two is the same twice in the source and is one
operator here, `Word`.  `Generate` is the shift register of the FPGA, `pr_reg` of
`cl_test0_v4.vhd`, whose two streams are checked by `buf_check_psd` and
`buf_check_inv`.  `Damage` and `Lose` are what may
happen on the way.  Words have `W` bits instead of 64; the taps of the shift
register are at `W-1`, `W-2`, `W-4`, `W-5`, as at 63, 62, 60, 59.  `Size` is even, as
an odd number of 64-bit words would let types 2, 3, 6, 7 write one word too many.

### BoardMemory

| state | in the code |
|---|---|
| `board`, `held` | how far module_init and probe have come, and what they hold |
| `dma` | `struct CDmaChannel`: counts, block addresses, stub, table |
| `live`, `list` | what is allocated; `m_MemList` |
| `hw` | where the FPGA reads descriptors and writes data |
| `prog` | the program that has the board open |
| `oops` | a NULL, stale or error pointer was followed |

`pex_module_init` and `Probe` take one failing step or none and undo along the
chain of labels (`HeldAfter`).  Three failures are not noticed: `class_create` and
`device_create` return an error pointer and not NULL (`lost`), and of a channel for
which `kzalloc` has no memory NULL is kept.  Then `SetMem` follows that NULL, and
`Remove` the error pointer (what `device_destroy` does with it is the kernel's).  The
device file is there from `device_create` on, before `InitializeBoard` and
`CDmaChannelCreate`, so that `Open` is possible in between.
`SetMem` is SET_MEM with `RequestMemory` for system or user blocks; `fail` is the
number of the allocation that fails, if any.  `Exit` ends a program anywhere
without a further call, as a kill does, and `pex_device_close` frees nothing.
Memory is a set of regions, and the lowest free one is taken, so that what was
freed is soon used by somebody else.

### Registers

Each of three agents takes the ADM PLD out of reset by its own copy of the
sequence: InitializeBoard of the driver, `core_init` of the library, `board_init` of
the exam program (`Begin` .. `FlagsOff`; the locals of an agent are `init[a]`).  A write
that clears bit 3 resets the tetrad.  An access to a tetrad writes CMD_ADR, waits
for CMD_RDY and accesses CMD_DATA.  The library and the exam program poll and
give up silently (`SetAddress` .. `Poke`); the driver, for IOCTL_AMB_SET_DRQ, takes
`m_BoardSem` and sets a timer (`Down` .. `WriteRegData`, `Expire`,
`TimeoutTimerCallback`; `late` is a callback that runs but has not yet written
`m_IsTimeout` - `del_timer` does not wait for it).  `ghost` is what the registers
would be if each access were atomic; `raced` marks an access that another one or
a reset has disturbed.

## 4. Runs

Runs that pass:

| run | question | instance |
|---|---|---|
| `eot_flags` | Is every block end announced once and every acknowledgement worth one, and is a held channel released? | the registers themselves, no bound |
| `pex_dma` | Do the driver's counters follow the descriptor chain, under every order of block ends, handler, tasklet and calls? Is no block end lost, is a transfer completed only when full? | one channel, 2 blocks, single pass and cyclic, calls with and without waiting |
| `pex_dma_two` | What can disable the interrupt a running channel needs, on several CPUs? | two channels, 1 block, START, DONE; 194 thousand states |
| `pex_dma_live` | Is a channel that waits for its acknowledgements served while the other one is busy? Does a single pass end? | two channels, 1 block, single pass and cyclic, fairness |
| `pex_dma_smp` | Handler, tasklet and client on different CPUs: is a block end lost, and what can leave a stopped channel on? | one channel, 1 block, START, STOP, WAIT, DONE; 970 thousand states |
| `sg_list` | Does the walk over the tables fill every block in order, and end or go round as the mode says? | tables of 4 entries, 1, 2, 4, 5, 7, 8 blocks |
| `stream_ring` | Does a reader of any speed get the blocks of its run, whole and in order? Would the agreed mode protect them? Is a single pass received to its end? | 5 blocks, two runs of up to 12 blocks, the three kinds of stream; 140 thousand states |
| `test_program` | Are all threads gone when main deletes the tests? Does the program end after SIGINT, and with every channel stopped? Is a frame whole when it is written? | five command lines: one test of each class, two tests on one stream and on two; 209 thousand states |
| `test_buffers` | Are the damaged words those reported, for each type of block, for as long as a test runs? | words of 5 bits, blocks of 6 words, 13 blocks, two faults; 615 thousand states |
| `board_memory` | Is everything given back on every error path? Is what channel, handler and program use allocated, and theirs? | three programs, two probes, 2 blocks, every allocation of channel and board failing; 3.0 million states |
| `registers` | Do indirect accesses reach their register and end, and does the board come up, whoever initialises it? | two programs, one of which may be early and the other the exam program, two accesses; 440 thousand states |

The run that ends in a counterexample, and is the finding of `PROJECT.json`:

| run | what the code does |
|---|---|
| `test_program_verdict` | GetResult of both programs prints "All data is correct. No error" from a copy of the error count that Step made; a block found wrong after the last Step is not in it.  (The trace is one of wb_test.) |

### Known divergences

Five further configurations lie beside the modules and are not among the runs
above.  Each states a property that one expects and ends in a counterexample
(`tlc -config <cfg> <module>`).  Of the cases of `PexDmaSmpIrq.cfg` and `PexDmaDone.cfg`
the passing runs say that nothing else leads there; the others are left out of them by
their constants.

| configuration | module | what the code does |
|---|---|---|
| `PexDmaSmpCycle.cfg` | `MCPexDma` | On several CPUs the tasklet tests `m_CurBlockNum` after the handler counted the last block of a round and before it wraps; a cyclic transfer is switched off. |
| `PexDmaSmpIrq.cfg` | `MCPexDma` | On several CPUs a tasklet that completes an old run stores 0 in `m_DmaIrqEnbl` after a START has set it; the handler then ignores the board. |
| `PexDmaDone.cfg` | `MCPexDma` | DONE reads DMA_CTRL, the tasklet completes the transfer, DONE writes the start bit back. |
| `PexDmaState.cfg` | `MCPexDma` | After a finished pass STATE goes on returning 1 (start): the tasklet copies the stub before it completes the transfer. |
| `SGListFull.cfg` | `MCSGList` | With a last table that is full (a multiple of 63 blocks) the entry that leads back to the first table is not written; a cyclic transfer ends after one round. |

The two about several CPUs need real parallelism.  They are statements about the
code, not reports of observed failures.  Other behaviour of the code appears in the models as a
history variable or a predicate that a property names: `merged`, `carried` (`EotFlags`),
`StartInCompletion`, `StartInScan`, `DoneOvertaken` (`PexDma`), `lapped`, `ignored`, `raced` (`StreamRing`),
`faulty`, `early` (`BoardMemory`), `raced`, `mixed` (`Registers`), `Lost` (`TestProg`).
For some of them it is worth knowing what they hide:

* A FLAG_CLR in the clock of a second block end leaves the channel waiting for a reset
  of DMA_EOT while DMA_EOT is down: `pr_dma_eot` lets the acknowledgement win,
  `pr_dma0_wait_eot` counts the block end.  The channel stands until it is stopped
  (`merged`).
* A channel that is stopped and started while a page is in flight announces that page
  in the new run, if it ended a block (`carried`).
* An ioctl on a board whose probe is not done follows a NULL `m_DmaChannel`
  (`early`), and so does one on a board that had no memory for the channel (`faulty`).
* If the class could not be created, removal of a board follows the error pointer
  (`faulty`).
* FREE_MEM leaves the stub (`ReleaseStub` is called while `m_UseCount` is not 0), so
  that one stub is lost for each program; after a program that was killed the
  next one is given new blocks while the table still leads to the old ones, and
  the third finds no descriptor of its buffer at all.  A failing allocation of
  the table is ignored, and START then follows a stale one (`faulty`).
* A failing DMA mask makes probe return 0: the driver is bound to a board it
  holds nothing of (`board = "hollow"`).  Removal stops no channel.
* A second program's constructor takes the ADM PLD through its reset under the
  first one's feet; two tests of one program poke registers of tetrads without a
  lock (`raced`, `mixed`).
* A callback of the timer that was late for one access makes the next one fail at
  once; a poll that gives up drops the write, or reads 0xFFFF.
* After a lost block the types in turn, the counter and the noise report every
  following block as wrong; a fixed type 0 to 3 costs one error a block, and only
  the pseudo-random stream of the FPGA finds its step again.

### Bounds, and why they are enough

* `EotFlags` has none: 372 states are all there are.
* `Word`, the modulus of u32, is `BlockCount + 2`, the least value for which the
  assumption of `DmaChan` holds: `lastBlock` starts at `Word - 1`, and that value must
  be different from every block number and from `BlockCount`.  A smaller modulus
  makes wrapping more frequent, not less.
* `BlockCount` is 2 where a block in the middle of a round differs from the last
  one (`RingAgreement`, `FilledLast`, `CompletedInFull`), else 1.  The FPGA can be two
  blocks ahead of the driver, so that with 2 blocks it gets a whole round ahead,
  the extreme case of a larger buffer.
* Two channels show everything one channel does to another, as no step looks at
  more than one other channel; `NumChan = 2` also when the board has one, so that
  the scan passes over a missing channel.
* Tables of 4 entries hold 3 blocks; 1 to 8 blocks give one, two and three tables
  with each possible filling of the last one.  Multiples of 3 are the case that
  fails, and are left out of `sg_list` (`Partial`) and checked in `SGListFull.cfg`.

* `StreamRing`: five blocks are one more than the assumption asks for, as with
  four the flag stays down once it fell.  Two runs are what a block left over from
  an earlier run needs; twelve blocks are two rounds and two blocks more, enough to
  lap the reader.
* `TestProg`: `Burst`, the buffers taken in one call, is 2 instead of 16: the loop
  is entered, repeated and left.  `BlockRd` stops at `RingSize + 1`, past the last
  value the code compares it with.  Two tests are what a stream can be shared by.
* `TestBuf`: five bits are the least for which the four taps are different bits;
  six words show pairs, a marked word (`NumMask = 4`) and one after it.  Thirteen
  blocks pass through the ten types and wrap.  `MaxErrors = 1` fills `word_error`
  with the second damaged word.  A fault adds 1 or 16: the low bit, or the bit that
  is shifted out.
* `BoardMemory`: three programs, as the third is the first to find what the second
  did with the leftovers of a killed one; two probes, so that what the first left
  meets the second; two blocks, one that is allocated before another fails.
  Sixteen regions are never all taken.
* `Registers`: two programs and the driver give each pair of the three sequences;
  one tetrad, as nothing is shared between tetrads, with MODE0 and one register
  more.  A poll gives up after one read that was not ready (`PollLimit = 0`), the exam of the
  clock takes two tries instead of ten.

### Fairness

* The clock of the FPGA runs (`WF` of `Clock` with no host access) and the handler,
  once it may read or acknowledge, does (`WF` of `HostRead`, `HostAck`).  Nothing
  obliges a host to start or to stop a channel.
* In `PexDma` the FPGA goes on (`WF` of `HwBlockEnd`: data keep coming), a pending
  interrupt is handled (`WF` of `Isr`), a scheduled tasklet runs even if interrupts
  keep coming (`SF`: softirqs run when an interrupt is left, and ksoftirqd runs
  them otherwise), and an ioctl call goes on when it gets the CPU again and again
  (`SF`; its waits are left by a wake-up or by the timeout).  No client is obliged
  to make a call.
* In `SGList` the FPGA loads tables and fills blocks (`WF`).
* In `StreamRing` data keep coming, interrupts and tasklets are served and the
  program polls (`WF` of each): a program that stopped polling would receive
  nothing by its own choice.
* In `TestProg` the scheduler runs every thread (`WF` of `main`, of each worker and
  of each file thread); nobody is obliged to press Ctrl-C.
* In `Registers` the scheduler runs every program (`WF`; a semaphore is granted in
  turn), a timer that is set expires and its callback runs.

## 5. Properties

* Handshake: `WaitIsPending`, `HeldIsQuiet`, `EotMeansBlock`, the refinement
  `EotCountSpec`, `HeldIsReleased`.
* Counting: `RingAgreement` ties `m_CurBlockNum` to the place of the FPGA in the
  chain through the announced blocks; `FilledLast` says what the user reads from
  the shared stub; `CompletedInFull` that a tasklet ends a transfer only at its end.
* Control: `OffUnlessOvertaken` and `IrqUnlessOvertaken` say that a stopped channel is off
  and a needed interrupt is on (`StoppedIsOff`, `IrqEnabled`) unless one of three named
  races happened, on any number of CPUs; `EotServed`, `SinglePassEnds`.
* Clients: `NoLostWakeup`; `StateReported` fails (`PexDmaState.cfg`).
* Tables: `WalkInList`, `EndsWhenFull`, the refinement `RingSpec`, `AllFilled`.

* Streams: `HandedInOrder`, `FilledThisRun`, `FlagProtects`, `AllReceived`.
* Programs: `DeleteQuiet` (no thread uses an object that is deleted), `WholeFrames`,
  `ExitStopped`, `ExitOrLost`: after SIGINT a program ends unless one of five named
  things has happened, of which two are races of threads over a status and one is a
  flag file that never opens.
* Data: `ReportsDamage`.
* Life of the board: `NothingHeld`, `InUseIsLive`, `OwnBlocks`, `OopsExplained`.
* Registers: `AtomicRegisters`, `BroughtUp`, `CallsEnd`.

Each property of a passing run comes with a mutant, an operator next to the one
it changes, which the same run rejects.

## 6. Proofs

TLAPS proves the following for every value of the constants that satisfies the
named assumptions of the modules: any number of channels, blocks, programs, tables,
registers and regions, rings and counters of any size.  Every property of a
passing run is a theorem except the liveness properties (section 7).  Hypotheses beyond the assumptions are stated in the theorems:

| theorems | hypothesis | without it |
|---|---|---|
| `RingInvariant`, `CountersAgree`, `LastBlockIsFilledLast`, `NothingIsCutOff` | `OneCpu`, that is `~SMP /\ StopFirst`, and `Ops` without DONE | `PexDmaDone.cfg`, `PexDmaSmpCycle.cfg` |
| all of `SGList_proof` | `PartlyFilled`: the last table of a buffer is not full | `SGListFull.cfg`; there the walk also leaves the list (`WalkInList`) |

The others need none.  Some properties except behaviour themselves: `IrqUnlessOvertaken`
and `OffUnlessOvertaken` the runs in which a named race happened, `AtomicRegisters` and `BroughtUp` speak of accesses
and of a board that nobody disturbed (`raced`, `mixed`), `OwnBlocks` and the second
half of `NothingHeld` of programs that ended as they should (`faulty`).

`EotFlags_proof`: nothing is assumed of the host.  `WaitIsPending` is
not inductive: it needs that `wait_eot2` and `eot` are never up together, that
`wait_eot2` implies `wait_eot`, and that a pulse of `dma_eot_set` comes only from
`st2`; `EotInv` collects this.  The refinement is a case distinction on the two pulses:
one of them, neither, or both, which is `Merge`.

`PexDma_proof`, in three layers:

1. `TypeCorrect`: `TypeOK`, with no assumption on CPUs or clients.  The count of a
   channel stays within 0..2 only because a channel with two outstanding blocks
   is held, so `HeldAtTwo` is carried along.  One lemma for each actor (FPGA,
   handler, tasklet, calls), one step for each of its actions.
2. `IrqAlwaysEnabled` and `StopMeansOff`, for any CPUs and clients.  `EnblInv` says that
   `m_DmaIrqEnbl` is up while some `m_DmaChanEnbl` is, and that a completion about to
   clear it has found none and nobody has set one since; `HaltInv` that a channel is off
   from the first write of its completion until a START, which has set its stub to RUN,
   switches it on.  A step keeps `EnblInv` if neither `StartInCompletion` nor `StartInScan`
   holds where it begins (`EnblInTime`), and `HaltInv` if neither `StartInCompletion` nor
   `DoneOvertaken` does (`HaltInTime`); so both hold in every run in which the races
   never come about, which is what the two properties say.
3. One CPU.  `StartInv` says that a START finds its channel quiet: a stub that is not
   RUN, or a completion under way, means that the interrupt is disabled; from the
   call until the channel is switched on nothing is counted, so the tasklet of the
   old run, if it is still to come, does not complete the new one.  From it neither
   race with a START can come about (`InTimeOnOneCpu`), so that `IrqEnabled` holds
   outright (`IrqOnOneCpu`); and without DONE so does `StoppedIsOff` (`OneCpuInv`).

`ChannelsImplementEotCount` joins the two sides of the handshake: `PexDma` writes a
channel's registers from handler, tasklets and calls, on any number of CPUs, and each
of these writes is a step of `EotCount` or none, because of `HeldAtTwo`: the second of
two acknowledgements, and no other, releases the channel.  `EotRefinement` says
that the flags of the FPGA are an `EotCount` too, but for `Merge`, which no step of
`PexDma` is.

The rest of the module is about waiting and counting.  `NoWakeupIsLost` is inductive with `TypeOK` alone
and holds on any number of CPUs: a tasklet that has copied the stub is about to put
the event up, and only a call that goes on to read `m_State` takes it down.  `RingInvariant` ties the driver's counters to each other (`Counted`:
`m_CurBlockNum` and `m_BlocksRemaining` add up to the buffer, `lastBlock` is the block
before, and a cyclic channel is inside the buffer except while its handler is
about to wrap it) and to the place in the chain (`Placed`: the FPGA is ahead by the
announced blocks, less the one the handler has counted and not acknowledged, and
has wrapped up to two times in cyclic mode).  `Placed` has no product or remainder in it, so
that each step is linear arithmetic; only `CountersAgree` and `LastBlockIsFilledLast`
meet the `%` of the properties.  `NothingIsCutOff` is the action property
`CompletedInFull`.

`SGList_proof` numbers blocks and entries by table and place: block `B(t, i)` is
described in entry `E(t, i)`, and the two differ by the number of tables before.  Four
lemmas say how these numbers are ordered and what comes next; after them no product is
expanded.  `SGInv` says that in the loop everything before the entry at hand is
written (`Prefix`), that the finished list is closed (`Chain`: the last descriptor,
marked or not, and the link back to table 0) with a CRC of what is there, and that the
FPGA is at a descriptor of a block and has filled all blocks before it (`WalkInv`).
`WalkStaysInList` and `ChainEndsWhenFull` follow, and `ListIsARing` proves the
refinement of `BlockRing` step by step.

`StreamRing_proof` counts blocks without rounds: `filled` by the FPGA, `Counted` by the
handler, `taken` by the program, and `Reported` done.  `At(k)` is the place of number
`k` in the ring; every index in driver and library is the place of one of these
numbers.  `Inv` says so, that the ring holds the last `BlockCount` numbers begun
(`RingInv`), that a program that was not lapped is less than a round behind
(`ReaderInv`), and that while `m_DoneFlag` is up the channel is so far behind the block
reported last that one more interrupt does not bring it there (`AgreeInv`) - the
reason why three numbers `m_preBlockCount` are kept, and the place where a ring
smaller than four blocks fails.  `StreamInOrder`, `StreamThisRun` and
`StreamFlagProtects` follow from it.

`TestProg_proof`: the threads share fields without a lock, and the argument is that each
field tells how far the thread that wrote it last has come.  `HandInv` is the hand-over
of `bufIsvi`: the receiving thread copies only while `IsviStatus` is 1, 4 or 100, the
ISVI thread writes only while it is 2 or 5, and a thread that has seen its turn keeps
it although reading and writing `IsviStatus` are two steps.  `TetradInv` and `StreamInv`
say who will switch off what is on, `PhaseInv` which threads are left in each part of
`main`.  What each kind of step changes is stated once (`WorkerEffects`,
`StreamEffects`) and used for every part of the invariant.

`Registers_proof` has two independent halves.  For accesses: as long as nothing is
`raced`, at most one access is between CMD_ADR and CMD_DATA, CMD_ADR holds its
address, and what `SetDrqFlag` has read is still in MODE0 (`AccessInv`).  For the
bring-up: as long as nothing is `mixed`, who may be at the board together (`Alone`),
what the one who tests the clock and the flags has written (`Tracked`), and what is
left when all have finished (`Settled`).

`BoardMemory_proof`: what the channel owns is allocated and nobody else's (`DmaInv`),
what the FPGA uses is allocated and nothing that a failing request gives back, and it
is off whenever ReleaseMemory runs (`HwInv`); a program between SET_MEM and
FREE_MEM has the descriptor that the channel has (`ProgInv`); and while nothing failed
the channel has memory only for the program that set it up (`CleanInv`).  The
allocator takes the lowest free regions: `FreeRegions` says that the k-th of them
exists, is free and differs from the others, if there are as many, which is an
induction in disguise; it is proved with the minimum of a well-founded relation
(the least k that fails) instead.  `ModuleUndone` and `ProbeUndone` compute what each
error label of probe leaves.

`TestBuf_proof` follows one block at a time.  `EndsInStep` is the inductive invariant
`IInv`: `Chronological`, `Sends` and `Counted` say what the history of faults and the
counters have to do with each other, `Reported` how each checker's `word_error` comes
from it; before the first loss (`Follows`) the checker holds the values of the
sender, and the block under way is the block sent but for the damaged words
(`UnderWay`).  Three things need more than a case distinction:

* The running values of a block are a recursive function of the word's number.
  That it exists, and is typed, is shown by the least word for which it would not
  (`Least`, `RunValues`), as induction is out of reach.
* `word_error` lists wrong words in order.  `IncreasingIsInOrder` says that an
  increasing sequence is the only such list of its elements (again by a least
  counterexample), so that a list that grows at its end is the list of the larger
  set (`InOrderUnion`).
* `buf_check_psd` takes its next expected word from the word it received.  What it
  reports of a block is a subset of the damaged words, the words after them, and
  word 0 if it was out of step; the bound of `ReportsDamage` adds up their numbers.

That `2^i` is twice `2^(i-1)` and a positive number is part of `TestBufAssumption`,
because the provers know nothing of powers; it is true for every `W`.

TLC checks each property before it is proved; the inductive invariants were checked on
the same instances.

## 7. Only model-checked

* Liveness (`HeldIsReleased`, `EotServed`, `SinglePassEnds`, `AllFilled`, `AllReceived`,
  `ExitOrLost`, `CallsEnd`) is out of the prover's reach.
* On several CPUs `TypeOK`, `NoLostWakeup`, `IrqUnlessOvertaken` and `OffUnlessOvertaken` are
  proved; what fails there is listed under "Known divergences".
* That the named races do happen on several CPUs, and with DONE on one, is seen from the
  configurations listed there, not proved.
* `VerdictCurrent` is violated, see section 4.

## 8. Not modelled

* In `DmaChan`: `totalCounter` and `m_CycleNum`, which the driver only counts, and
  the stub's `offset`, always 0.
* In `EotFlags`: `dma_eot_set` of the other channel, the arbiter, the page buffers,
  the descriptor registers (planned as `CtrlMain`).  In `PexDma` an interrupt can be
  taken whenever a channel requests one; the hold-off of `core64_interrupt` is
  planned as `Interrupt`.
* In `SGList`: the arithmetic of physical addresses and of the CRC.
* In `StreamRing`: the sending direction (the program fills instead of reading;
  `TestProg` has its control), and the interleavings of handler, tasklet and calls
  that `PexDma` has, the write of `Done` to DMA_CTRL among them.
* In `TestProg`: parameter files, the display, the contents of blocks.  Display and
  results use only what they are shown with here.
* In `TestBuf`: that `buf_check_start` clears more of `word_error` than there is (it
  runs on into the text buffer behind it), and the text of the report.
* In `BoardMemory`: more than one channel, two programs at a time, and interrupts of
  a channel that was left running after removal.
* In `Registers`: registers of other tetrads, direct accesses (one bus access each),
  and the reading of the board's identity.
* Left out for good: the vendors' PCIe cores, the packing of TLPs around them, the
  third-party wishbone crossbar, ADM blocks, test blocks and board projects, the
  proc file, parameter files and console tables: data paths, generated code or
  text, with no state that the rest depends on beyond what is modelled above.
