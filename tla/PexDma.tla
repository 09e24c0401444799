-------------------------------- MODULE PexDma --------------------------------
(***************************************************************************)
(* The DMA path of the pexdrv driver at run time: the channels of the FPGA *)
(* (their EOT handshake as EotCount specifies it), the interrupt handler,  *)
(* one tasklet (DPC) per channel, and the ioctl calls of the clients, of   *)
(* which the board mutex lets one run at a time.                           *)
(***************************************************************************)
EXTENDS DmaChan

CONSTANTS
  NumChan,      \* MAX_NUMBER_OF_DMACHANNELS
  DmaChanMask,  \* the channels the board has, m_DmaChanMask as a set
  SMP,          \* several CPUs?  On one, contexts nest instead of interleaving
  StopFirst,    \* do clients start only a channel whose stub is not RUN?
  Ops,          \* the ioctl calls clients make
  Modes,        \* the values of IsCycling they start with
  Timeouts      \* do STOP and STATE calls wait (Timeout # 0)?

ASSUME PexDmaAssumption ==
  /\ NumChan \in Nat \ {0}
  /\ DmaChanMask \subseteq 0 .. NumChan - 1
  /\ SMP \in BOOLEAN /\ StopFirst \in BOOLEAN
  /\ Modes \subseteq BOOLEAN /\ Timeouts \subseteq BOOLEAN

VARIABLES
  stub, state, run,           \* the channels' bookkeeping, see DmaChan
  BlockEnd, BufferEnd,        \* m_flag of m_BlockEndEvent, m_BufferEndEvent
  ChanEnbl, IrqEnbl,          \* m_DmaChanEnbl, m_DmaIrqEnbl
  primChan,                   \* m_primChan
  hw,                         \* the channels of the FPGA
  sched,                      \* tasklets scheduled
  isr, dpc, op,               \* where handler, tasklets and ioctl call are
  unseen                      \* history: m_State not yet returned to a client

chanVars == <<stub, state, run>>
eventVars == <<BlockEnd, BufferEnd>>
irqVars == <<ChanEnbl, IrqEnbl>>
vars == <<chanVars, eventVars, irqVars, primChan, hw, sched, isr, dpc, op,
          unseen>>

(* start, intEnbl: DMA_START of DMA_CTRL, INT_ENBL of DMA_MODE; pending,    *)
(* held: the EOT handshake; pos: the next block of the descriptor chain.    *)
Hw == [start : BOOLEAN, intEnbl : BOOLEAN, pending : 0 .. 2, held : BOOLEAN,
       pos : 0 .. BlockCount]
NewHw == [start |-> FALSE, intEnbl |-> FALSE, pending |-> 0, held |-> FALSE,
          pos |-> 0]

NoOp == [name |-> "none", pc |-> "idle", chan |-> 0, val |-> FALSE]

Init ==
  /\ stub = [c \in DmaChanMask |-> NewStub]
  /\ state = [c \in DmaChanMask |-> NewState]
  /\ run = [c \in DmaChanMask |-> NewRun]
  /\ BlockEnd = [c \in DmaChanMask |-> FALSE]
  /\ BufferEnd = [c \in DmaChanMask |-> FALSE]
  /\ ChanEnbl = [c \in DmaChanMask |-> FALSE]
  /\ IrqEnbl = FALSE
  /\ primChan = 0
  /\ hw = [c \in DmaChanMask |-> NewHw]
  /\ sched = [c \in DmaChanMask |-> FALSE]
  /\ isr = [pc |-> "idle", chan |-> 0]
  /\ dpc = [c \in DmaChanMask |-> [pc |-> "idle", enbl |-> FALSE]]
  /\ op = NoOp
  /\ unseen = [c \in DmaChanMask |-> FALSE]

-----------------------------------------------------------------------------
(* Scheduling.  On one CPU the handler preempts ioctl calls but not the     *)
(* tasklets, which hold a lock taken with spin_lock_irqsave; tasklets       *)
(* preempt ioctl calls.  On several CPUs nothing excludes anything here:    *)
(* the handler takes no lock and m_DmaLock is per channel.                  *)
IsrIdle == isr.pc = "idle"
DpcIdle == \A c \in DmaChanMask : dpc[c].pc = "idle"

CpuForIsr == SMP \/ DpcIdle
CpuForDpc(c) == SMP \/ (IsrIdle /\ \A d \in DmaChanMask \ {c} : dpc[d].pc = "idle")
CpuForOp == SMP \/ (IsrIdle /\ DpcIdle)

-----------------------------------------------------------------------------
(* The FPGA: DMA_CTRL written with start on or off, DMA_MODE.  A channel    *)
(* that is off has no EOT flags; one switched on begins at the first        *)
(* descriptor.                                                              *)
WriteCtrl(h, start) ==
  IF ~start
  THEN [h EXCEPT !.start = FALSE, !.pending = 0, !.held = FALSE]
  ELSE [h EXCEPT !.start = TRUE, !.pos = IF h.start THEN @ ELSE 0]

WriteMode(h, intEnbl) == [h EXCEPT !.intEnbl = intEnbl]

(* Mutant: FLAG_CLR counts below zero. *)
WriteFlagClrAlways(h) == [h EXCEPT !.pending = @ - 1, !.held = FALSE]

(* FLAG_CLR, as EotCount!Ack *)
WriteFlagClr(h) ==
  IF h.pending = 0 THEN h
  ELSE [h EXCEPT !.pending = @ - 1, !.held = @ /\ h.pending > 1]

(* INT_REQ of STATUS *)
IntRql(c) == hw[c].intEnbl /\ hw[c].pending > 0

(* Channel c fills a block, as EotCount!BlockEnd; after the last one it     *)
(* starts again or ends, as the last descriptor says.                       *)
HwBlockEnd(c) ==
  LET h == hw[c] IN
  /\ h.start /\ ~h.held /\ h.pos < BlockCount
  /\ hw' = [hw EXCEPT ![c].pending = @ + 1,
                      ![c].held = (h.pending = 1),
                      ![c].pos = IF @ + 1 = BlockCount /\ run[c].DmaCycling
                                 THEN 0 ELSE @ + 1]
  /\ UNCHANGED <<chanVars, eventVars, irqVars, primChan, sched, isr, dpc, op,
                 unseen>>

-----------------------------------------------------------------------------
(* pex_device_isr *)

(* The channels in the order the handler scans them. *)
Scan(i) == (primChan + i) % NumChan

(* Mutant: every scan starts at the same channel. *)
IsrScanFixed ==
  /\ IsrIdle /\ CpuForIsr
  /\ IrqEnbl
  /\ \E i \in 0 .. NumChan - 1 :
       /\ Scan(i) \in DmaChanMask /\ IntRql(Scan(i))
       /\ \A j \in 0 .. i - 1 : ~(Scan(j) \in DmaChanMask /\ IntRql(Scan(j)))
       /\ isr' = [pc |-> "next", chan |-> Scan(i)]
  /\ UNCHANGED <<chanVars, eventVars, irqVars, primChan, hw, sched, dpc, op,
                 unseen>>

(* The first channel at or after m_primChan that requests an interrupt. *)
IsrScan ==
  /\ IsrIdle /\ CpuForIsr
  /\ IrqEnbl
  /\ \E i \in 0 .. NumChan - 1 :
       /\ Scan(i) \in DmaChanMask /\ IntRql(Scan(i))
       /\ \A j \in 0 .. i - 1 : ~(Scan(j) \in DmaChanMask /\ IntRql(Scan(j)))
       /\ isr' = [pc |-> "next", chan |-> Scan(i)]
  /\ primChan' = (primChan + 1) % NumChan
  /\ UNCHANGED <<chanVars, eventVars, irqVars, hw, sched, dpc, op, unseen>>

(* NextDmaTransfer up to tasklet_hi_schedule *)
IsrNext ==
  LET c == isr.chan IN
  /\ isr.pc = "next" /\ CpuForIsr
  /\ stub' = [stub EXCEPT ![c] = NextStub(@)]
  /\ run' = [run EXCEPT ![c] = NextRun(@)]
  /\ sched' = [sched EXCEPT ![c] = TRUE]
  /\ isr' = [isr EXCEPT !.pc = "wrap"]
  /\ UNCHANGED <<state, eventVars, irqVars, primChan, hw, dpc, op,
                 unseen>>

(* NextDmaTransfer after it; what it returns is not used ("if( 0 )"). *)
IsrWrap ==
  LET c == isr.chan IN
  /\ isr.pc = "wrap" /\ CpuForIsr
  /\ run' = [run EXCEPT ![c] = WrapRun(@)]
  /\ isr' = [isr EXCEPT !.pc = "clear"]
  /\ UNCHANGED <<stub, state, eventVars, irqVars, primChan, hw, sched, dpc, op,
                 unseen>>

IsrClear ==
  LET c == isr.chan IN
  /\ isr.pc = "clear" /\ CpuForIsr
  /\ hw' = [hw EXCEPT ![c] = WriteFlagClr(@)]
  /\ isr' = [pc |-> "idle", chan |-> 0]
  /\ UNCHANGED <<chanVars, eventVars, irqVars, primChan, sched, dpc, op, unseen>>

Isr == IsrScan \/ IsrNext \/ IsrWrap \/ IsrClear

-----------------------------------------------------------------------------
(* Mutant: DMA_CTRL is left alone. *)
CompleteModeOnly(c) == hw' = [hw EXCEPT ![c] = WriteMode(@, FALSE)]

(* HwCompleteDmaTransfer, in three parts: stop the channel ...              *)
CompleteCtrl(c) == hw' = [hw EXCEPT ![c] = WriteMode(WriteCtrl(@, FALSE), FALSE)]

(* ... look whether another channel is enabled ...                          *)
CompleteEnbl(c) == ChanEnbl' = [ChanEnbl EXCEPT ![c] = FALSE]
OtherEnblNone(c) == FALSE  \* Mutant: the scan is forgotten.
OtherEnbl(c) == \E d \in DmaChanMask \ {c} : ChanEnbl[d]

(* ... and act on it.                                                       *)
CompleteIrq(c, enbl) ==
  /\ IrqEnbl' = enbl
  /\ stub' = [stub EXCEPT ![c] = CompleteStub(@)]

-----------------------------------------------------------------------------
(* DmaDpcForIsr: the stub is copied ...                                     *)
DpcCopy(c) ==
  /\ sched[c] /\ dpc[c].pc = "idle" /\ CpuForDpc(c)
  /\ sched' = [sched EXCEPT ![c] = FALSE]
  /\ state' = [state EXCEPT ![c] = stub[c]]
  /\ unseen' = [unseen EXCEPT ![c] = TRUE]
  /\ dpc' = [dpc EXCEPT ![c].pc = "event"]
  /\ UNCHANGED <<stub, run, eventVars, irqVars, primChan, hw, isr, op>>

(* ... the block end is signalled ...                                       *)
DpcEvent(c) ==
  /\ dpc[c].pc = "event" /\ CpuForDpc(c)
  /\ BlockEnd' = [BlockEnd EXCEPT ![c] = TRUE]
  /\ dpc' = [dpc EXCEPT ![c].pc = "test"]
  /\ UNCHANGED <<chanVars, BufferEnd, irqVars, primChan, hw, sched, isr, op,
                 unseen>>

(* Mutant: one block too early. *)
DpcTestEarly(c) ==
  /\ dpc[c].pc = "test" /\ CpuForDpc(c)
  /\ dpc' = [dpc EXCEPT ![c].pc =
               IF run[c].CurBlockNum + 1 >= BlockCount THEN "ctrl" ELSE "idle"]
  /\ UNCHANGED <<chanVars, eventVars, irqVars, primChan, hw, sched, isr, op,
                 unseen>>

(* Mutant: one block too late. *)
DpcTestLate(c) ==
  /\ dpc[c].pc = "test" /\ CpuForDpc(c)
  /\ dpc' = [dpc EXCEPT ![c].pc =
               IF run[c].CurBlockNum > BlockCount THEN "ctrl" ELSE "idle"]
  /\ UNCHANGED <<chanVars, eventVars, irqVars, primChan, hw, sched, isr, op,
                 unseen>>

(* ... and after the last block of a single pass the channel is completed.  *)
DpcTest(c) ==
  /\ dpc[c].pc = "test" /\ CpuForDpc(c)
  /\ dpc' = [dpc EXCEPT ![c].pc =
               IF run[c].CurBlockNum >= BlockCount THEN "ctrl" ELSE "idle"]
  /\ UNCHANGED <<chanVars, eventVars, irqVars, primChan, hw, sched, isr, op,
                 unseen>>

DpcCtrl(c) ==
  /\ dpc[c].pc = "ctrl" /\ CpuForDpc(c)
  /\ CompleteCtrl(c)
  /\ dpc' = [dpc EXCEPT ![c].pc = "enbl"]
  /\ UNCHANGED <<chanVars, eventVars, irqVars, primChan, sched, isr, op, unseen>>

DpcEnbl(c) ==
  /\ dpc[c].pc = "enbl" /\ CpuForDpc(c)
  /\ CompleteEnbl(c)
  /\ dpc' = [dpc EXCEPT ![c] = [pc |-> "irq", enbl |-> OtherEnbl(c)]]
  /\ UNCHANGED <<chanVars, eventVars, IrqEnbl, primChan, hw, sched, isr, op,
                 unseen>>

DpcIrq(c) ==
  /\ dpc[c].pc = "irq" /\ CpuForDpc(c)
  /\ CompleteIrq(c, dpc[c].enbl)
  /\ dpc' = [dpc EXCEPT ![c] = [pc |-> "buffer", enbl |-> FALSE]]
  /\ UNCHANGED <<state, run, eventVars, ChanEnbl, primChan, hw, sched,
                 isr, op, unseen>>

DpcBuffer(c) ==
  /\ dpc[c].pc = "buffer" /\ CpuForDpc(c)
  /\ BufferEnd' = [BufferEnd EXCEPT ![c] = TRUE]
  /\ dpc' = [dpc EXCEPT ![c].pc = "idle"]
  /\ UNCHANGED <<chanVars, BlockEnd, irqVars, primChan, hw, sched, isr, op,
                 unseen>>

Dpc(c) == \/ DpcCopy(c) \/ DpcEvent(c) \/ DpcTest(c) \/ DpcCtrl(c)
          \/ DpcEnbl(c) \/ DpcIrq(c) \/ DpcBuffer(c)

-----------------------------------------------------------------------------
(* The ioctl calls.  Call takes the board mutex, Return gives it back.      *)
Call(name, c, pc) ==
  /\ op.pc = "idle" /\ CpuForOp /\ name \in Ops
  /\ op' = [NoOp EXCEPT !.name = name, !.chan = c, !.pc = pc]

At(pc) == op.pc = pc /\ CpuForOp
Goto(pc) == op' = [op EXCEPT !.pc = pc]
Return == op' = NoOp

(* ioctl_start_mem: StartDmaTransfer ...                                    *)
StartCall(c, cycling) ==
  /\ Call("start", c, "off")
  /\ StopFirst => stub[c].state # "RUN"
  /\ stub' = [stub EXCEPT ![c] = StartStub]
  /\ run' = [run EXCEPT ![c] = StartRun(cycling)]
  /\ UNCHANGED <<state, eventVars, irqVars, primChan, hw, sched, isr, dpc,
                 unseen>>

(* ... and HwStartDmaTransfer: the channel is switched off, FLAG_CLR ...    *)
StartOff ==
  LET c == op.chan IN
  /\ At("off") /\ Goto("enable")
  /\ hw' = [hw EXCEPT ![c] = WriteFlagClr(WriteMode(WriteCtrl(@, FALSE), FALSE))]
  /\ UNCHANGED <<chanVars, eventVars, irqVars, primChan, sched, isr, dpc, unseen>>

(* ... its interrupt is enabled ...                                         *)
StartEnable ==
  /\ At("enable") /\ Goto("on")
  /\ ChanEnbl' = [ChanEnbl EXCEPT ![op.chan] = TRUE]
  /\ IrqEnbl' = TRUE
  /\ UNCHANGED <<chanVars, eventVars, primChan, hw, sched, isr, dpc, unseen>>

(* ... and it is switched on.                                               *)
StartOn ==
  LET c == op.chan IN
  /\ At("on") /\ Return
  /\ hw' = [hw EXCEPT ![c] = WriteCtrl(WriteMode(@, TRUE), TRUE)]
  /\ UNCHANGED <<chanVars, eventVars, irqVars, primChan, sched, isr, dpc, unseen>>

(* ioctl_stop_mem, ioctl_state_mem, ioctl_wait_dma_block and _buffer: with  *)
(* a Timeout (always, for the last two) they wait first.                    *)
Waiting(name, timeout) ==
  IF timeout \/ name \in {"waitblock", "waitbuffer"} THEN "grab"
  ELSE IF name = "stop" THEN "stop" ELSE "get"

StateCall(name, c, timeout) ==
  /\ name \in {"stop", "state", "waitblock", "waitbuffer"}
  /\ Call(name, c, Waiting(name, timeout))
  /\ UNCHANGED <<chanVars, eventVars, irqVars, primChan, hw, sched, isr, dpc,
                 unseen>>

(* The event the call waits for, and setting its flag to v.                 *)
Flag == IF op.name = "waitbuffer" THEN BufferEnd[op.chan] ELSE BlockEnd[op.chan]
SetFlag(v) ==
  IF op.name = "waitbuffer"
  THEN BufferEnd' = [BufferEnd EXCEPT ![op.chan] = v] /\ UNCHANGED BlockEnd
  ELSE BlockEnd' = [BlockEnd EXCEPT ![op.chan] = v] /\ UNCHANGED BufferEnd

AfterWait == IF op.name = "stop" THEN "stop" ELSE "get"

(* GrabEvent: CheckEventFlag *)
Grab ==
  /\ At("grab") /\ Goto(IF Flag THEN "clear" ELSE "wait")
  /\ UNCHANGED <<chanVars, eventVars, irqVars, primChan, hw, sched, isr, dpc,
                 unseen>>

(* WaitEvent: woken with the flag up, or by a signal; both end in success.  *)
Wakeup ==
  /\ At("wait") /\ Goto("clear")
  /\ UNCHANGED <<chanVars, eventVars, irqVars, primChan, hw, sched, isr, dpc,
                 unseen>>

(* WaitEvent: the timeout, with the flag down. *)
Timeout ==
  /\ At("wait") /\ ~Flag /\ Goto(AfterWait)
  /\ UNCHANGED <<chanVars, eventVars, irqVars, primChan, hw, sched, isr, dpc,
                 unseen>>

(* The flag is cleared, in GrabEvent or in WaitEvent. *)
Clear ==
  /\ At("clear") /\ Goto(AfterWait)
  /\ SetFlag(FALSE)
  /\ UNCHANGED <<chanVars, irqVars, primChan, hw, sched, isr, dpc, unseen>>

(* ioctl_stop_mem: HwCompleteDmaTransfer *)
StopCtrl ==
  /\ At("stop") /\ Goto("enbl")
  /\ CompleteCtrl(op.chan)
  /\ UNCHANGED <<chanVars, eventVars, irqVars, primChan, sched, isr, dpc, unseen>>

StopEnbl ==
  /\ At("enbl") /\ op' = [op EXCEPT !.pc = "irq", !.val = OtherEnbl(op.chan)]
  /\ CompleteEnbl(op.chan)
  /\ UNCHANGED <<chanVars, eventVars, IrqEnbl, primChan, hw, sched, isr, dpc,
                 unseen>>

StopIrq ==
  /\ At("irq") /\ Goto("get")
  /\ CompleteIrq(op.chan, op.val)
  /\ UNCHANGED <<state, run, eventVars, ChanEnbl, primChan, hw, sched,
                 isr, dpc, unseen>>

(* GetState reads BlockNum first ... *)
GetBlock ==
  /\ At("get") /\ Goto("total")
  /\ unseen' = [unseen EXCEPT ![op.chan] = FALSE]
  /\ UNCHANGED <<chanVars, eventVars, irqVars, primChan, hw, sched, isr, dpc>>

(* Mutant: the event is cleared once the state is read. *)
GetTotalClear ==
  /\ At("total") /\ Return
  /\ SetFlag(FALSE)
  /\ UNCHANGED <<chanVars, irqVars, primChan, hw, sched, isr, dpc, unseen>>

(* ... then BlockCntTotal and DmaChanState, and the call returns. *)
GetTotal ==
  /\ At("total") /\ Return
  /\ UNCHANGED <<chanVars, eventVars, irqVars, primChan, hw, sched, isr, dpc,
                 unseen>>

(* ioctl_done: Done, if SetDoneBlock says so; m_DoneFlag, which belongs to  *)
(* the agreed mode, is left open here.                                      *)
DoneCall(c) ==
  /\ Call("done", c, "read")
  /\ UNCHANGED <<chanVars, eventVars, irqVars, primChan, hw, sched, isr, dpc,
                 unseen>>

(* Done reads DMA_CTRL ... *)
DoneRead ==
  /\ At("read") /\ op' = [op EXCEPT !.pc = "write", !.val = hw[op.chan].start]
  /\ UNCHANGED <<chanVars, eventVars, irqVars, primChan, hw, sched, isr, dpc,
                 unseen>>

(* ... and writes it back without the Pause bit. *)
DoneWrite ==
  /\ At("write") /\ Return
  /\ hw' = [hw EXCEPT ![op.chan] = WriteCtrl(@, op.val)]
  /\ UNCHANGED <<chanVars, eventVars, irqVars, primChan, sched, isr, dpc, unseen>>

(* ioctl_reset_fifo: DMA_CTRL is written with 0, RESET_FIFO, 0. *)
ResetCall(c) ==
  /\ "reset" \in Ops /\ op.pc = "idle" /\ CpuForOp
  /\ hw' = [hw EXCEPT ![c] = WriteCtrl(@, FALSE)]
  /\ UNCHANGED <<chanVars, eventVars, irqVars, primChan, sched, isr, dpc, op,
                 unseen>>

Calls == \E c \in DmaChanMask :
  \/ \E cycling \in Modes : StartCall(c, cycling)
  \/ \E name \in Ops, timeout \in Timeouts : StateCall(name, c, timeout)
  \/ DoneCall(c)
  \/ ResetCall(c)

CallSteps ==
  \/ StartOff \/ StartEnable \/ StartOn
  \/ Grab \/ Wakeup \/ Timeout \/ Clear
  \/ StopCtrl \/ StopEnbl \/ StopIrq
  \/ GetBlock \/ GetTotal
  \/ DoneRead \/ DoneWrite

-----------------------------------------------------------------------------
Next ==
  \/ \E c \in DmaChanMask : HwBlockEnd(c) \/ Dpc(c)
  \/ Isr
  \/ Calls
  \/ CallSteps

Spec == Init /\ [][Next]_vars

(* The FPGA goes on, interrupts are handled, a scheduled tasklet gets to    *)
(* run even if interrupts keep coming, and an ioctl call goes on.           *)
Fairness ==
  /\ \A c \in DmaChanMask : WF_vars(HwBlockEnd(c)) /\ SF_vars(Dpc(c))
  /\ WF_vars(Isr)
  /\ SF_vars(CallSteps)

FairSpec == Spec /\ Fairness

-----------------------------------------------------------------------------
TypeOK ==
  /\ stub \in [DmaChanMask -> Stub] /\ state \in [DmaChanMask -> Stub]
  /\ run \in [DmaChanMask -> Run]
  /\ BlockEnd \in [DmaChanMask -> BOOLEAN]
  /\ BufferEnd \in [DmaChanMask -> BOOLEAN]
  /\ ChanEnbl \in [DmaChanMask -> BOOLEAN] /\ IrqEnbl \in BOOLEAN
  /\ primChan \in 0 .. NumChan - 1
  /\ hw \in [DmaChanMask -> Hw]
  /\ sched \in [DmaChanMask -> BOOLEAN]
  /\ \/ isr = [pc |-> "idle", chan |-> 0]
     \/ isr \in [pc : {"next", "wrap", "clear"}, chan : DmaChanMask]
  /\ dpc \in [DmaChanMask -> [pc : {"idle", "event", "test", "ctrl", "enbl",
                                    "irq", "buffer"}, enbl : BOOLEAN]]
  /\ \/ op = NoOp
     \/ op \in [name : Ops, chan : DmaChanMask, val : BOOLEAN,
                pc : {"off", "enable", "on", "grab", "wait", "clear", "stop",
                      "enbl", "irq", "get", "total", "read", "write"}]
  /\ unseen \in [DmaChanMask -> BOOLEAN]

(* Blocks the handler has counted and not yet acknowledged.                 *)
Taken(c) == IF isr.chan = c /\ isr.pc \in {"wrap", "clear"} THEN 1 ELSE 0

(* The driver's m_CurBlockNum and the FPGA's place in the descriptor chain  *)
(* differ by exactly the announced blocks, whole rounds apart, and only a   *)
(* cyclic transfer makes rounds.                                            *)
RingAgreement == \A c \in DmaChanMask :
  hw[c].start => \E k \in 0 .. 2 :
    /\ hw[c].pos + k * BlockCount + Taken(c) = run[c].CurBlockNum + hw[c].pending
    /\ k = 0 \/ run[c].DmaCycling

(* "Number of Block which was filled last Time": once the announced blocks  *)
(* are handled, lastBlock in the shared stub names the block the FPGA has   *)
(* filled last, or none.                                                    *)
FilledLast == \A c \in DmaChanMask :
  hw[c].start /\ hw[c].pending = 0 =>
    \/ stub[c].lastBlock = MinusOne /\ hw[c].pos = 0
    \/ stub[c].lastBlock = (hw[c].pos + BlockCount - 1) % BlockCount

(* What a call may do to a tasklet's completion, and it to the call, on     *)
(* several CPUs: a START comes while the last transfer of its channel is    *)
(* being completed; a START sets the interrupt enables now that a tasklet,  *)
(* which has found none set, is about to clear; and the channel has been    *)
(* switched off since DONE has read DMA_CTRL.                               *)
StartInCompletion ==
  /\ op.pc \in {"off", "enable", "on"}
  /\ dpc[op.chan].pc \in {"enbl", "irq"}
StartInScan ==
  /\ At("enable")
  /\ \E c \in DmaChanMask : dpc[c].pc = "irq" /\ ~dpc[c].enbl
DoneOvertaken == op.pc = "write" /\ op.val /\ ~hw[op.chan].start

(* A channel whose stub says STOP does not write to memory ...              *)
StoppedIsOff == \A c \in DmaChanMask : stub[c].state = "STOP" => ~hw[c].start

(* ... unless a START or a DONE met the completion of its channel.          *)
OffUnlessOvertaken ==
  []~(StartInCompletion \/ DoneOvertaken) => []StoppedIsOff

(* The handler never turns its back on a channel that will request it ...   *)
IrqEnabled == \A c \in DmaChanMask :
  hw[c].start /\ hw[c].intEnbl => ChanEnbl[c] /\ IrqEnbl

(* ... unless a START met a completion.                                     *)
IrqUnlessOvertaken ==
  []~(StartInCompletion \/ StartInScan) => []IrqEnabled

(* A block end reported to nobody has its event up, or the call that took   *)
(* the event has still to read the state it returns.                        *)
NoLostWakeup == \A c \in DmaChanMask :
  unseen[c] => \/ BlockEnd[c]
               \/ dpc[c].pc = "event"
               \/ op.chan = c /\ op.pc \in {"stop", "enbl", "irq", "get"}

(* A tasklet switches off a running channel only at the end of a single     *)
(* pass, with every block filled and handled.                               *)
CompletedInFull == [][\A c \in DmaChanMask :
  DpcCtrl(c) /\ hw[c].start =>
    ~run[c].DmaCycling /\ hw[c].pos = BlockCount /\ hw[c].pending = 0]_vars

(* DmaChanState is the "State of CBuf (1-start, 2-stop, 3-destroied)": a    *)
(* call that finds the channel stopped, with no tasklet left to run, does   *)
(* not return RUN.                                                          *)
StateReported == [][\A c \in DmaChanMask :
  /\ GetTotal /\ op.chan = c
  /\ stub[c].state = "STOP" /\ ~sched[c] /\ dpc[c].pc = "idle"
  => state[c].state # "RUN"]_vars

(* A channel that waits for its acknowledgements gets them, whatever the    *)
(* other channels do.                                                       *)
EotServed == \A c \in DmaChanMask : hw[c].pending = 2 ~> hw[c].pending = 0

(* A single pass ends and the channel is switched off.                      *)
SinglePassEnds == \A c \in DmaChanMask :
  hw[c].start /\ ~run[c].DmaCycling ~> ~hw[c].start
===============================================================================
