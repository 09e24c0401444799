------------------------------ MODULE StreamRing ------------------------------
(***************************************************************************)
(* One stream of CL_WBPEX / CL_AMBPEX from the FPGA to the program: the    *)
(* channel fills the blocks of the ring, the interrupt handler counts them *)
(* in the stub, the program takes them with StreamGetBuf and, in agreed    *)
(* mode, reports each with StreamGetBufDone.  Nothing but indices is       *)
(* passed, and nothing stops the channel from lapping the program.         *)
(* The handler, the tasklet and an ioctl call are one step each, save that *)
(* the handler may interrupt SetDoneBlock; PexDma has their other          *)
(* interleavings.                                                          *)
(***************************************************************************)
EXTENDS DmaChan

CONSTANTS
  Configs,    \* cycle and agree_mode of StreamInit
  MaxRuns,    \* bound: runs of the stream
  MaxBlocks   \* bound: blocks the channel fills in a run

(* With fewer than four blocks m_preBlockCount3 starts beyond the last one. *)
ASSUME StreamRingAssumption ==
  /\ BlockCount >= 4
  /\ Configs \subseteq [cycle : BOOLEAN, agree : BOOLEAN]
  /\ MaxRuns \in Nat /\ MaxBlocks \in Nat

VARIABLES
  cfg,        \* the stream's configuration
  hw,         \* the channel: [start, filling, pending, held, pos]
  ring,       \* what each block holds: data number seq of a run
  stub, run, sched,  \* the driver: stub and counters of DmaChan, tasklet
  done,       \* the agreed mode: m_DoneBlock, m_DoneFlag, m_preBlockCount1..3
  strm,       \* m_streamParam: indexDma, indexPc
  pc,         \* where the program is
  runs, filled, taken, released,  \* history: runs, blocks filled, handed
                                  \* out and given back in this run
  lapped,     \* history: a block was overwritten before it was given back
  ignored,    \* history: a block was begun with the flag down
  raced       \* history: SetDoneBlock was interrupted before its last step

hwVars == <<hw, ring, filled, lapped, ignored>>
drvVars == <<stub, run, sched, done>>
userVars == <<strm, pc, taken, released>>
vars == <<cfg, hwVars, drvVars, userVars, runs, raced>>

Blocks == 0 .. BlockCount - 1
Off == [start |-> FALSE, filling |-> FALSE, pending |-> 0, held |-> FALSE, pos |-> 0]
NewDone == [DoneBlock |-> MinusOne, DoneFlag |-> TRUE, pre |-> <<1, 2, 3>>]
NoIndex == [indexDma |-> MinusOne, indexPc |-> MinusOne]

(* After StreamInit. *)
Init ==
  /\ cfg \in Configs
  /\ hw = Off
  /\ ring = [b \in Blocks |-> [run |-> 0, seq |-> 0, whole |-> TRUE]]
  /\ stub = NewStub /\ run = NewRun /\ sched = FALSE
  /\ done = NewDone
  /\ strm = NoIndex
  /\ pc = "stopped"
  /\ runs = 0 /\ filled = 0 /\ taken = 0 /\ released = 0
  /\ lapped = FALSE /\ ignored = FALSE /\ raced = FALSE

-----------------------------------------------------------------------------
(* The channel, as in PexDma, with a block no longer filled in one step.    *)
FillBegin ==
  /\ hw.start /\ ~hw.filling /\ ~hw.held /\ hw.pos < BlockCount
  /\ filled < MaxBlocks
  /\ hw' = [hw EXCEPT !.filling = TRUE]
  /\ ring' = [ring EXCEPT ![hw.pos] = [run |-> runs, seq |-> filled, whole |-> FALSE]]
  /\ lapped' = (lapped \/ filled >= released + BlockCount)
  /\ ignored' = (ignored \/ ~done.DoneFlag)
  /\ UNCHANGED <<cfg, filled, drvVars, userVars, runs, raced>>

FillEnd ==
  /\ hw.filling
  /\ hw' = [hw EXCEPT !.filling = FALSE, !.pending = @ + 1, !.held = (hw.pending = 1),
              !.pos = IF @ + 1 = BlockCount /\ run.DmaCycling THEN 0 ELSE @ + 1]
  /\ ring' = [ring EXCEPT ![hw.pos].whole = TRUE]
  /\ filled' = filled + 1
  /\ UNCHANGED <<cfg, lapped, ignored, drvVars, userVars, runs, raced>>

-----------------------------------------------------------------------------
(* NextDmaTransfer, the agreed mode: the three blocks after the one being   *)
(* filled are kept; the flag falls when the third is the block done last.   *)
NextPreLate(p) ==  \* Mutant: wraps one block late.
  [k \in 1 .. 3 |-> IF Inc(p[k]) > BlockCount THEN 0 ELSE Inc(p[k])]
NextPre(p) == [k \in 1 .. 3 |-> IF Inc(p[k]) = BlockCount THEN 0 ELSE Inc(p[k])]

(* Mutant: the first of the three. *)
DropFlagLate(d) ==
  IF cfg.agree /\ run.DmaCycling
     /\ ((d.pre[1] = 0 /\ d.DoneBlock = MinusOne) \/ d.pre[1] = d.DoneBlock)
  THEN [d EXCEPT !.DoneFlag = FALSE] ELSE d

DropFlag(d) ==
  IF cfg.agree /\ run.DmaCycling
     /\ ((d.pre[3] = 0 /\ d.DoneBlock = MinusOne) \/ d.pre[3] = d.DoneBlock)
  THEN [d EXCEPT !.DoneFlag = FALSE] ELSE d

(* The handler: NextDmaTransfer, whose result is not used, and FLAG_CLR.    *)
Isr ==
  /\ hw.pending > 0
  /\ stub' = NextStub(stub)
  /\ run' = WrapRun(NextRun(run))
  /\ done' = DropFlag([done EXCEPT !.pre = NextPre(@)])
  /\ sched' = TRUE
  /\ hw' = [hw EXCEPT !.pending = @ - 1, !.held = FALSE]
  /\ raced' = (raced \/ pc = "flag")
  /\ UNCHANGED <<cfg, ring, filled, lapped, ignored, userVars, runs>>

(* The tasklet: after the last block of a single pass the channel is off.   *)
Dpc ==
  /\ sched /\ sched' = FALSE
  /\ IF run.CurBlockNum >= BlockCount
     THEN hw' = Off /\ stub' = CompleteStub(stub)
     ELSE UNCHANGED <<hw, stub>>
  /\ UNCHANGED <<cfg, ring, filled, lapped, ignored, run, done, userVars, runs, raced>>

-----------------------------------------------------------------------------
(* Mutant: the indices are left as they were. *)
StreamStartKeep ==
  /\ pc = "stopped" /\ runs < MaxRuns
  /\ stub' = StartStub /\ run' = StartRun(cfg.cycle) /\ done' = NewDone
  /\ hw' = [Off EXCEPT !.start = TRUE]
  /\ runs' = runs + 1 /\ filled' = 0 /\ taken' = 0 /\ released' = 0
  /\ lapped' = FALSE /\ ignored' = FALSE /\ raced' = FALSE
  /\ pc' = "poll"
  /\ UNCHANGED <<cfg, ring, sched, strm>>

(* StreamStart.  core_stop_dma makes its call only when the stub says RUN,  *)
(* and core_start_dma's writes DMA_CTRL with 0 first.                       *)
StreamStart ==
  /\ pc = "stopped" /\ runs < MaxRuns
  /\ strm' = NoIndex
  /\ stub' = StartStub /\ run' = StartRun(cfg.cycle) /\ done' = NewDone
  /\ hw' = [Off EXCEPT !.start = TRUE]
  /\ runs' = runs + 1 /\ filled' = 0 /\ taken' = 0 /\ released' = 0
  /\ lapped' = FALSE /\ ignored' = FALSE /\ raced' = FALSE
  /\ pc' = "poll"
  /\ UNCHANGED <<cfg, ring, sched>>

(* StreamStop: dma_stop, dma_reset_fifo *)
StreamStop ==
  /\ pc = "poll" /\ pc' = "stopped"
  /\ stub' = IF stub.state = "RUN" THEN CompleteStub(stub) ELSE stub
  /\ hw' = Off
  /\ UNCHANGED <<cfg, ring, filled, lapped, ignored, run, sched, done, strm, taken, released,
                 runs, raced>>

(* StreamGetNextIndex; an index of -1 is followed by 0.                     *)
NextIndex(i) == IF Inc(i) >= BlockCount THEN 0 ELSE Inc(i)

(* StreamGetIndexDma, only when every block known of is taken.              *)
IndexDma == IF strm.indexPc = strm.indexDma THEN stub.lastBlock ELSE strm.indexDma

(* Mutant: the last block filled is taken for the one being filled.         *)
StreamGetBufExclusive ==
  /\ pc = "poll" /\ IndexDma # MinusOne /\ IndexDma # NextIndex(strm.indexPc)
  /\ strm' = [indexDma |-> IndexDma, indexPc |-> NextIndex(strm.indexPc)]
  /\ taken' = taken + 1
  /\ pc' = IF cfg.agree THEN "done" ELSE "use"
  /\ UNCHANGED <<cfg, hwVars, drvVars, released, runs, raced>>

(* Mutant: the block filled last is handed out.                             *)
StreamGetBufSame ==
  /\ pc = "poll" /\ IndexDma # strm.indexPc
  /\ strm' = [indexDma |-> IndexDma, indexPc |-> IndexDma]
  /\ taken' = taken + 1
  /\ pc' = IF cfg.agree THEN "done" ELSE "use"
  /\ UNCHANGED <<cfg, hwVars, drvVars, released, runs, raced>>

(* StreamGetBuf: the next block, if there is one.  It is reported done,     *)
(* with StreamGetBufDone, before the program has looked at it.              *)
StreamGetBuf ==
  /\ pc = "poll" /\ IndexDma # strm.indexPc
  /\ strm' = [indexDma |-> IndexDma, indexPc |-> NextIndex(strm.indexPc)]
  /\ taken' = taken + 1
  /\ pc' = IF cfg.agree THEN "done" ELSE "use"
  /\ UNCHANGED <<cfg, hwVars, drvVars, released, runs, raced>>

(* SetDoneBlock: the block is noted; unless it is one of the three next ... *)
SetDoneBlock ==
  /\ pc = "done"
  /\ done' = [done EXCEPT !.DoneBlock = strm.indexPc]
  /\ pc' = IF strm.indexPc # done.DoneBlock
              /\ \A k \in 1 .. 3 : done.pre[k] # strm.indexPc
           THEN "flag" ELSE "use"
  /\ UNCHANGED <<cfg, hwVars, stub, run, sched, strm, taken, released, runs, raced>>

(* ... the flag is raised.                                                  *)
RaiseFlag ==
  /\ pc = "flag" /\ pc' = "use"
  /\ done' = IF cfg.agree /\ run.DmaCycling THEN [done EXCEPT !.DoneFlag = TRUE]
             ELSE done
  /\ UNCHANGED <<cfg, hwVars, stub, run, sched, strm, taken, released, runs, raced>>

(* The program has read the block.  A second StreamGetBufDone, which        *)
(* ReceiveData makes now, changes nothing.                                  *)
Used ==
  /\ pc = "use" /\ pc' = "poll"
  /\ released' = taken
  /\ UNCHANGED <<cfg, hwVars, drvVars, strm, taken, runs, raced>>

Reader == StreamGetBuf \/ SetDoneBlock \/ RaiseFlag \/ Used

Next == FillBegin \/ FillEnd \/ Isr \/ Dpc \/ StreamStart \/ StreamStop \/ Reader

Spec == Init /\ [][Next]_vars

(* Data come, interrupts are served, and the program polls.                 *)
FairSpec == Spec /\ WF_vars(FillBegin) /\ WF_vars(FillEnd) /\ WF_vars(Isr)
                 /\ WF_vars(Dpc) /\ WF_vars(Reader)

-----------------------------------------------------------------------------
TypeOK ==
  /\ cfg \in Configs
  /\ hw \in [start : BOOLEAN, filling : BOOLEAN, pending : 0 .. 2, held : BOOLEAN,
             pos : 0 .. BlockCount]
  /\ ring \in [Blocks -> [run : 0 .. MaxRuns, seq : 0 .. MaxBlocks, whole : BOOLEAN]]
  /\ stub \in Stub /\ run \in Run /\ sched \in BOOLEAN
  /\ done \in [DoneBlock : U32, DoneFlag : BOOLEAN, pre : [1 .. 3 -> Blocks]]
  /\ strm \in [indexDma : U32, indexPc : U32]
  /\ pc \in {"stopped", "poll", "done", "flag", "use"}
  /\ runs \in 0 .. MaxRuns /\ filled \in 0 .. MaxBlocks
  /\ taken \in Nat /\ released \in 0 .. taken
  /\ lapped \in BOOLEAN /\ ignored \in BOOLEAN /\ raced \in BOOLEAN

InUse == pc \in {"done", "flag", "use"}

(* As long as the channel has not lapped the program, the block the program *)
(* holds is the next one of this run, complete, and stays so while it is    *)
(* read: none is skipped, handed out twice, too early or overwritten.       *)
HandedInOrder ==
  InUse /\ ~lapped =>
    ring[strm.indexPc] = [run |-> runs, seq |-> taken - 1, whole |-> TRUE]

(* Even when it has been lapped, the program never gets a block left over   *)
(* from an earlier run.                                                     *)
FilledThisRun == InUse => ring[strm.indexPc].run = runs

(* Agreed mode: if the channel began no block while m_DoneFlag is down, it   *)
(* would never overwrite one that the program has not given back, although  *)
(* blocks are reported done before they are read and the channel is ahead   *)
(* of the handler; unless the handler comes between the test in             *)
(* SetDoneBlock and its raising the flag.                                   *)
FlagProtects ==
  cfg.agree /\ cfg.cycle /\ ~ignored /\ ~raced => ~lapped

(* A single pass that is not stopped is received to its last block.         *)
AllReceived ==
  pc = "poll" /\ ~cfg.cycle ~> taken = BlockCount \/ pc = "stopped"
===============================================================================
