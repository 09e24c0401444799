----------------------------- MODULE PexDma_proof -----------------------------
(***************************************************************************)
(* Proofs about PexDma.  For any number of channels, blocks and CPUs: its  *)
(* types, the two-block limit of the handshake, that every channel is an   *)
(* EotCount, that no block end is lost to a client that waits, and that    *)
(* IrqEnabled and StoppedIsOff fail only where one of the named races      *)
(* happens.  On one CPU, with clients that start only a stopped channel    *)
(* and never call DONE: that the driver's counters follow the descriptor   *)
(* chain of the FPGA, and that a transfer is completed only when all of it *)
(* was filled.                                                             *)
(***************************************************************************)
EXTENDS PexDma, Integers, TLAPS

(* Two outstanding blocks always hold a channel of the FPGA.                *)
HeldAtTwo == \A c \in DmaChanMask : hw[c].pending = 2 => hw[c].held

-----------------------------------------------------------------------------
(* The operators on the bookkeeping of a channel keep its types.            *)
LEMMA ChanTypes ==
  /\ NewStub \in Stub /\ NewState \in Stub /\ NewRun \in Run
  /\ StartStub \in Stub
  /\ \A cycling \in BOOLEAN : StartRun(cycling) \in Run
  /\ \A s \in Stub : NextStub(s) \in Stub /\ CompleteStub(s) \in Stub
  /\ \A r \in Run : NextRun(r) \in Run /\ WrapRun(r) \in Run
<1>1. /\ 0 \in U32 /\ MinusOne \in U32 /\ BlockCount \in U32
      /\ \A u \in U32 : Inc(u) \in U32 /\ Dec(u) \in U32
  BY DmaChanAssumption DEF U32, MinusOne, Inc, Dec
<1>2. /\ NewStub \in Stub /\ NewState \in Stub /\ NewRun \in Run
      /\ StartStub \in Stub
      /\ \A cycling \in BOOLEAN : StartRun(cycling) \in Run
  BY <1>1 DEF Stub, Run, NewStub, NewState, NewRun, StartStub, StartRun
<1>3. \A s \in Stub : NextStub(s) \in Stub /\ CompleteStub(s) \in Stub
  BY <1>1 DEF Stub, NextStub, CompleteStub
<1>4. \A r \in Run : NextRun(r) \in Run /\ WrapRun(r) \in Run
  BY <1>1 DEF Run, NextRun, WrapRun
<1> QED
  BY <1>2, <1>3, <1>4

(* So do register writes on a channel of the FPGA, and two outstanding      *)
(* blocks always hold it.                                                   *)
Capped(h) == h.pending = 2 => h.held

LEMMA HwUpdate ==
  ASSUME NEW h \in Hw, NEW a \in BOOLEAN, NEW p \in 0 .. 2, NEW b \in BOOLEAN
  PROVE  /\ [h EXCEPT !.start = a, !.pending = p, !.held = b] \in Hw
         /\ [h EXCEPT !.start = a, !.pending = p, !.held = b].pending = p
  BY DEF Hw

LEMMA HwFlags ==
  ASSUME NEW h \in Hw, NEW p \in 0 .. 2, NEW b \in BOOLEAN
  PROVE  /\ [h EXCEPT !.pending = p, !.held = b] \in Hw
         /\ [h EXCEPT !.pending = p, !.held = b].pending = p
  BY DEF Hw

LEMMA HwRecord ==
  ASSUME NEW a \in BOOLEAN, NEW b \in BOOLEAN, NEW p \in 0 .. 2,
         NEW q \in 0 .. BlockCount
  PROVE  [start |-> a, intEnbl |-> a, pending |-> p, held |-> b, pos |-> q]
           \in Hw
  BY DEF Hw

LEMMA WriteCtrlTypes ==
  ASSUME NEW h \in Hw, Capped(h), NEW v \in BOOLEAN
  PROVE  WriteCtrl(h, v) \in Hw /\ Capped(WriteCtrl(h, v))
<1>1. 0 \in 0 .. BlockCount
  BY DmaChanAssumption
<1>2. CASE ~v
  <2> DEFINE w == [h EXCEPT !.start = FALSE, !.pending = 0, !.held = FALSE]
  <2>1. 0 \in 0 .. 2
    OBVIOUS
  <2>2. w \in Hw /\ w.pending = 0
    BY <2>1, HwUpdate, Zenon
  <2>3. WriteCtrl(h, v) = w
    BY <1>2 DEF WriteCtrl
  <2> HIDE DEF w
  <2> QED
    BY <2>2, <2>3 DEF Capped
<1>3. CASE v
  <2> DEFINE pos == IF h.start THEN h.pos ELSE 0
             w == [h EXCEPT !.start = TRUE, !.pos = pos]
  <2>1. pos \in 0 .. BlockCount
    BY <1>1 DEF Hw
  <2> HIDE DEF pos
  <2>2. w \in Hw /\ w.pending = h.pending /\ w.held = h.held
    BY <2>1 DEF Hw
  <2>3. WriteCtrl(h, v) = w
    BY <1>3 DEF WriteCtrl, pos
  <2> HIDE DEF w
  <2> QED
    BY <2>2, <2>3 DEF Capped
<1> QED
  BY <1>2, <1>3

LEMMA WriteModeTypes ==
  ASSUME NEW h \in Hw, Capped(h), NEW v \in BOOLEAN
  PROVE  WriteMode(h, v) \in Hw /\ Capped(WriteMode(h, v))
<1> DEFINE w == [h EXCEPT !.intEnbl = v]
<1>1. w \in Hw /\ w.pending = h.pending /\ w.held = h.held
  BY DEF Hw
<1>2. WriteMode(h, v) = w
  BY DEF WriteMode
<1> HIDE DEF w
<1> QED
  BY <1>1, <1>2 DEF Capped

LEMMA WriteFlagClrTypes ==
  ASSUME NEW h \in Hw, Capped(h)
  PROVE  WriteFlagClr(h) \in Hw /\ Capped(WriteFlagClr(h))
<1>1. CASE h.pending = 0
  BY <1>1 DEF WriteFlagClr
<1>2. CASE h.pending # 0
  <2> DEFINE p == h.pending - 1
             b == h.held /\ h.pending > 1
             w == [h EXCEPT !.pending = p, !.held = b]
  <2>1. p \in 0 .. 2 /\ p # 2 /\ b \in BOOLEAN
    BY <1>2 DEF Hw
  <2>2. WriteFlagClr(h) = w
    BY <1>2 DEF WriteFlagClr
  <2> HIDE DEF p, b
  <2>3. w \in Hw /\ w.pending = p
    BY <2>1, HwFlags, Zenon
  <2> HIDE DEF w
  <2> QED
    BY <2>1, <2>2, <2>3 DEF Capped
<1> QED
  BY <1>1, <1>2

LEMMA NewHwTypes == NewHw \in Hw /\ Capped(NewHw)
<1>1. 0 \in 0 .. 2 /\ 0 \in 0 .. BlockCount
  BY DmaChanAssumption
<1>2. NewHw \in Hw
  BY <1>1, HwRecord, Zenon DEF NewHw
<1> QED
  BY <1>2 DEF Capped, NewHw

-----------------------------------------------------------------------------
(* Where a call stands. *)
OpPcs == {"off", "enable", "on", "grab", "wait", "clear", "stop", "enbl",
          "irq", "get", "total", "read", "write"}
OpOK(o) == o = NoOp \/ o \in [name : Ops, chan : DmaChanMask, val : BOOLEAN,
                              pc : OpPcs]

LEMMA OpRecord ==
  ASSUME NEW name \in Ops, NEW c \in DmaChanMask, NEW v \in BOOLEAN,
         NEW pc \in OpPcs
  PROVE  OpOK([name |-> name, pc |-> pc, chan |-> c, val |-> v])
<1>1. [name |-> name, pc |-> pc, chan |-> c, val |-> v]
        \in [name : Ops, chan : DmaChanMask, val : BOOLEAN, pc : OpPcs]
  OBVIOUS
<1> QED
  BY <1>1 DEF OpOK

LEMMA CallTypes ==
  ASSUME NEW name, NEW c \in DmaChanMask, NEW pc \in OpPcs,
         Call(name, c, pc)
  PROVE  OpOK(op')
<1>1. op' = [name |-> name, pc |-> pc, chan |-> c, val |-> FALSE]
  BY DEF Call, NoOp
<1> QED
  BY <1>1, OpRecord, ZenonT(30) DEF Call

LEMMA GotoTypes ==
  ASSUME NEW from \in OpPcs, NEW pc \in OpPcs, OpOK(op), At(from), Goto(pc)
  PROVE  OpOK(op') /\ op.chan \in DmaChanMask
<1>1. op # NoOp
  BY DEF At, NoOp, OpPcs
<1>2. op \in [name : Ops, chan : DmaChanMask, val : BOOLEAN, pc : OpPcs]
  BY <1>1 DEF OpOK
<1> QED
  BY <1>2 DEF Goto, OpOK

-----------------------------------------------------------------------------
(* TypeOK and HeldAtTwo are inductive together, for any number of CPUs and  *)
(* any clients: one lemma for each actor, one step for each of its actions. *)
LEMMA HwTypeStep ==
  ASSUME TypeOK, HeldAtTwo, NEW c \in DmaChanMask, HwBlockEnd(c)
  PROVE  TypeOK' /\ HeldAtTwo'
<1> DEFINE h == hw[c]
           p == h.pending + 1
           b == h.pending = 1
           q == IF h.pos + 1 = BlockCount /\ run[c].DmaCycling
                THEN 0 ELSE h.pos + 1
           w == [h EXCEPT !.pending = p, !.held = b, !.pos = q]
<1>1. h \in Hw /\ Capped(h)
  BY DEF TypeOK, HeldAtTwo, Capped
<1>2. ~h.held /\ h.pos < BlockCount
  BY DEF HwBlockEnd
<1>3. p \in 0 .. 2 /\ b \in BOOLEAN /\ q \in 0 .. BlockCount /\ (p = 2 <=> b)
  BY <1>1, <1>2, DmaChanAssumption DEF Capped, Hw
<1>4. hw' = [hw EXCEPT ![c] = w]
  BY DEF HwBlockEnd
<1> HIDE DEF p, b, q, h
<1>5. w \in Hw /\ w.pending = p /\ w.held = b
  BY <1>1, <1>3 DEF Hw
<1> HIDE DEF w
<1>6. hw' \in [DmaChanMask -> Hw]
  BY <1>4, <1>5 DEF TypeOK
<1>7. HeldAtTwo'
  BY <1>3, <1>4, <1>5 DEF TypeOK, HeldAtTwo
<1> QED
  BY <1>6, <1>7 DEF TypeOK, HwBlockEnd, chanVars, eventVars, irqVars

(* What writes a channel's registers and nothing else keeps hw's type. *)
LEMMA HwWritten ==
  ASSUME TypeOK, HeldAtTwo, NEW c \in DmaChanMask, NEW w \in Hw, Capped(w),
         hw' = [hw EXCEPT ![c] = w]
  PROVE  hw' \in [DmaChanMask -> Hw] /\ HeldAtTwo'
BY DEF TypeOK, HeldAtTwo, Capped

LEMMA HwKept ==
  ASSUME HeldAtTwo, hw' = hw
  PROVE  HeldAtTwo'
BY DEF HeldAtTwo

LEMMA IsrTypeStep ==
  ASSUME TypeOK, HeldAtTwo, Isr
  PROVE  TypeOK' /\ HeldAtTwo'
<1>1. CASE IsrScan
  <2>1. primChan' \in 0 .. NumChan - 1
    BY <1>1, PexDmaAssumption DEF IsrScan, TypeOK
  <2>2. isr' \in [pc : {"next", "wrap", "clear"}, chan : DmaChanMask]
    BY <1>1 DEF IsrScan
  <2> QED
    BY <1>1, <2>1, <2>2, HwKept
       DEF TypeOK, IsrScan, chanVars, eventVars, irqVars
<1>2. CASE IsrNext
  <2>1. isr.chan \in DmaChanMask
    BY <1>2 DEF IsrNext, TypeOK
  <2>2. /\ stub' \in [DmaChanMask -> Stub] /\ run' \in [DmaChanMask -> Run]
        /\ sched' \in [DmaChanMask -> BOOLEAN]
    BY <1>2, <2>1, ChanTypes DEF IsrNext, TypeOK
  <2>3. isr' \in [pc : {"next", "wrap", "clear"}, chan : DmaChanMask]
    BY <1>2 DEF IsrNext, TypeOK
  <2> QED
    BY <1>2, <2>2, <2>3, HwKept DEF TypeOK, IsrNext, eventVars, irqVars
<1>3. CASE IsrWrap
  <2>1. isr.chan \in DmaChanMask
    BY <1>3 DEF IsrWrap, TypeOK
  <2>2. run' \in [DmaChanMask -> Run]
    BY <1>3, <2>1, ChanTypes DEF IsrWrap, TypeOK
  <2>3. isr' \in [pc : {"next", "wrap", "clear"}, chan : DmaChanMask]
    BY <1>3 DEF IsrWrap, TypeOK
  <2> QED
    BY <1>3, <2>2, <2>3, HwKept DEF TypeOK, IsrWrap, eventVars, irqVars
<1>4. CASE IsrClear
  <2>1. isr.chan \in DmaChanMask
    BY <1>4 DEF IsrClear, TypeOK
  <2>2. hw[isr.chan] \in Hw /\ Capped(hw[isr.chan])
    BY <2>1 DEF TypeOK, HeldAtTwo, Capped
  <2>3. hw' \in [DmaChanMask -> Hw] /\ HeldAtTwo'
    BY <1>4, <2>1, <2>2, WriteFlagClrTypes, HwWritten DEF IsrClear
  <2> QED
    BY <1>4, <2>3 DEF TypeOK, IsrClear, chanVars, eventVars, irqVars
<1> QED
  BY <1>1, <1>2, <1>3, <1>4 DEF Isr

(* Switching a channel off keeps hw's type. *)
LEMMA CompleteCtrlTypes ==
  ASSUME TypeOK, HeldAtTwo, NEW c \in DmaChanMask, CompleteCtrl(c)
  PROVE  hw' \in [DmaChanMask -> Hw] /\ HeldAtTwo'
<1> DEFINE h == WriteCtrl(hw[c], FALSE)
           w == WriteMode(h, FALSE)
<1>1. hw[c] \in Hw /\ Capped(hw[c])
  BY DEF TypeOK, HeldAtTwo, Capped
<1>2. h \in Hw /\ Capped(h)
  BY <1>1, WriteCtrlTypes, Zenon
<1> HIDE DEF h
<1>3. w \in Hw /\ Capped(w)
  BY <1>2, WriteModeTypes, Zenon
<1>4. hw' = [hw EXCEPT ![c] = w]
  BY DEF CompleteCtrl, h
<1> HIDE DEF w
<1> QED
  BY <1>3, <1>4, HwWritten

DpcPcs == {"idle", "event", "test", "ctrl", "enbl", "irq", "buffer"}

LEMMA DpcTypeStep ==
  ASSUME TypeOK, HeldAtTwo, NEW c \in DmaChanMask, Dpc(c)
  PROVE  TypeOK' /\ HeldAtTwo'
<1> DEFINE DpcOK == dpc' \in [DmaChanMask -> [pc : DpcPcs, enbl : BOOLEAN]]
<1>1. CASE DpcCopy(c)
  <2>1. DpcOK
    BY <1>1 DEF DpcCopy, TypeOK, DpcPcs
  <2>2. /\ state' \in [DmaChanMask -> Stub]
        /\ sched' \in [DmaChanMask -> BOOLEAN]
        /\ unseen' \in [DmaChanMask -> BOOLEAN]
    BY <1>1 DEF DpcCopy, TypeOK
  <2> QED
    BY <1>1, <2>1, <2>2, HwKept DEF TypeOK, DpcCopy, eventVars, irqVars, DpcPcs
<1>2. CASE DpcEvent(c)
  <2>1. DpcOK
    BY <1>2 DEF DpcEvent, TypeOK, DpcPcs
  <2>2. BlockEnd' \in [DmaChanMask -> BOOLEAN]
    BY <1>2 DEF DpcEvent, TypeOK
  <2> QED
    BY <1>2, <2>1, <2>2, HwKept DEF TypeOK, DpcEvent, chanVars, irqVars, DpcPcs
<1>3. CASE DpcTest(c)
  <2>1. DpcOK
    BY <1>3 DEF DpcTest, TypeOK, DpcPcs
  <2> QED
    BY <1>3, <2>1, HwKept
       DEF TypeOK, DpcTest, chanVars, eventVars, irqVars, DpcPcs
<1>4. CASE DpcCtrl(c)
  <2>1. DpcOK
    BY <1>4 DEF DpcCtrl, TypeOK, DpcPcs
  <2>2. hw' \in [DmaChanMask -> Hw] /\ HeldAtTwo'
    BY <1>4, CompleteCtrlTypes DEF DpcCtrl
  <2> QED
    BY <1>4, <2>1, <2>2
       DEF TypeOK, DpcCtrl, chanVars, eventVars, irqVars, DpcPcs
<1>5. CASE DpcEnbl(c)
  <2>1. OtherEnbl(c) \in BOOLEAN
    BY DEF OtherEnbl
  <2>2. DpcOK
    BY <1>5, <2>1 DEF DpcEnbl, TypeOK, DpcPcs
  <2>3. ChanEnbl' \in [DmaChanMask -> BOOLEAN]
    BY <1>5 DEF DpcEnbl, CompleteEnbl, TypeOK
  <2> QED
    BY <1>5, <2>2, <2>3, HwKept DEF TypeOK, DpcEnbl, chanVars, eventVars, DpcPcs
<1>6. CASE DpcIrq(c)
  <2>1. DpcOK
    BY <1>6 DEF DpcIrq, TypeOK, DpcPcs
  <2>2. IrqEnbl' \in BOOLEAN
    BY <1>6 DEF DpcIrq, CompleteIrq, TypeOK
  <2>3. stub' \in [DmaChanMask -> Stub]
    BY <1>6, ChanTypes DEF DpcIrq, CompleteIrq, TypeOK
  <2> QED
    BY <1>6, <2>1, <2>2, <2>3, HwKept DEF TypeOK, DpcIrq, eventVars, DpcPcs
<1>7. CASE DpcBuffer(c)
  <2>1. DpcOK
    BY <1>7 DEF DpcBuffer, TypeOK, DpcPcs
  <2>2. BufferEnd' \in [DmaChanMask -> BOOLEAN]
    BY <1>7 DEF DpcBuffer, TypeOK
  <2> QED
    BY <1>7, <2>1, <2>2, HwKept DEF TypeOK, DpcBuffer, chanVars, irqVars, DpcPcs
<1> QED
  BY <1>1, <1>2, <1>3, <1>4, <1>5, <1>6, <1>7 DEF Dpc

(* A call in progress is a client's, on one of the channels. *)
LEMMA OpActive ==
  ASSUME TypeOK, op.pc # "idle"
  PROVE  op \in [name : Ops, chan : DmaChanMask, val : BOOLEAN, pc : OpPcs]
<1>1. op # NoOp
  BY DEF NoOp
<1> QED
  BY <1>1 DEF TypeOK, OpPcs

LEMMA StartTypeStep ==
  ASSUME TypeOK, HeldAtTwo, NEW c \in DmaChanMask, NEW cycling \in Modes,
         StartCall(c, cycling)
  PROVE  TypeOK' /\ HeldAtTwo'
<1>1. OpOK(op')
  BY CallTypes DEF StartCall, OpPcs
<1>2. cycling \in BOOLEAN
  BY PexDmaAssumption
<1>3. stub' \in [DmaChanMask -> Stub] /\ run' \in [DmaChanMask -> Run]
  BY <1>2, ChanTypes DEF StartCall, TypeOK
<1> QED
  BY <1>1, <1>3, HwKept DEF TypeOK, StartCall, eventVars, irqVars, OpOK, OpPcs

LEMMA OtherCallTypeStep ==
  ASSUME TypeOK, HeldAtTwo, NEW c \in DmaChanMask,
         \/ \E name \in Ops, timeout \in Timeouts : StateCall(name, c, timeout)
         \/ DoneCall(c)
         \/ ResetCall(c)
  PROVE  TypeOK' /\ HeldAtTwo'
<1>1. CASE \E name \in Ops, timeout \in Timeouts : StateCall(name, c, timeout)
  <2>1. PICK name \in Ops, timeout \in Timeouts : StateCall(name, c, timeout)
    BY <1>1
  <2>2. Waiting(name, timeout) \in OpPcs
    BY DEF Waiting, OpPcs
  <2>3. OpOK(op')
    BY <2>1, <2>2, CallTypes DEF StateCall
  <2> QED
    BY <2>1, <2>3, HwKept
       DEF TypeOK, StateCall, chanVars, eventVars, irqVars, OpOK, OpPcs
<1>2. CASE DoneCall(c)
  <2>1. OpOK(op')
    BY <1>2, CallTypes DEF DoneCall, OpPcs
  <2> QED
    BY <1>2, <2>1, HwKept
       DEF TypeOK, DoneCall, chanVars, eventVars, irqVars, OpOK, OpPcs
<1>3. CASE ResetCall(c)
  <2>1. hw[c] \in Hw /\ Capped(hw[c])
    BY DEF TypeOK, HeldAtTwo, Capped
  <2>2. WriteCtrl(hw[c], FALSE) \in Hw /\ Capped(WriteCtrl(hw[c], FALSE))
    BY <2>1, WriteCtrlTypes
  <2>3. hw' \in [DmaChanMask -> Hw] /\ HeldAtTwo'
    BY <1>3, <2>2, HwWritten DEF ResetCall
  <2> QED
    BY <1>3, <2>3 DEF TypeOK, ResetCall, chanVars, eventVars, irqVars
<1> QED
  BY <1>1, <1>2, <1>3

LEMMA CallStepsTypeStep ==
  ASSUME TypeOK, HeldAtTwo, CallSteps
  PROVE  TypeOK' /\ HeldAtTwo'
<1> DEFINE c == op.chan
<1>op. OpOK(op)
  BY DEF TypeOK, OpOK, OpPcs
<1>a. op.pc # "idle"
  BY DEF CallSteps, At, StartOff, StartEnable, StartOn, Grab, Wakeup, Timeout,
         Clear, StopCtrl, StopEnbl, StopIrq, GetBlock, GetTotal, DoneRead,
         DoneWrite
<1>b. op \in [name : Ops, chan : DmaChanMask, val : BOOLEAN, pc : OpPcs]
  BY <1>a, OpActive
<1>c. c \in DmaChanMask /\ op.val \in BOOLEAN
  BY <1>b
<1>h. hw[c] \in Hw /\ Capped(hw[c])
  BY <1>c DEF TypeOK, HeldAtTwo, Capped
<1>n. OpOK(NoOp)
  BY DEF OpOK
<1>g. ASSUME NEW pc \in OpPcs, Goto(pc)
      PROVE  OpOK(op')
  BY <1>b, <1>g DEF Goto, OpOK
<1>1. CASE StartOff
  <2> DEFINE h1 == WriteCtrl(hw[c], FALSE)
             h2 == WriteMode(h1, FALSE)
             h3 == WriteFlagClr(h2)
  <2>1. h1 \in Hw /\ Capped(h1)
    BY <1>h, WriteCtrlTypes, Zenon
  <2> HIDE DEF h1
  <2>2. h2 \in Hw /\ Capped(h2)
    BY <2>1, WriteModeTypes, Zenon
  <2> HIDE DEF h2
  <2>3. h3 \in Hw /\ Capped(h3)
    BY <2>2, WriteFlagClrTypes, Zenon
  <2>4. hw' = [hw EXCEPT ![c] = h3]
    BY <1>1 DEF StartOff, h1, h2
  <2> HIDE DEF h3
  <2>5. hw' \in [DmaChanMask -> Hw] /\ HeldAtTwo'
    BY <1>c, <2>3, <2>4, HwWritten
  <2>6. OpOK(op')
    BY <1>1, <1>g DEF StartOff, OpPcs
  <2> QED
    BY <1>1, <2>5, <2>6
       DEF TypeOK, StartOff, chanVars, eventVars, irqVars, OpOK, OpPcs
<1>2. CASE StartEnable
  <2>1. ChanEnbl' \in [DmaChanMask -> BOOLEAN] /\ IrqEnbl' \in BOOLEAN
    BY <1>2 DEF StartEnable, TypeOK
  <2>2. OpOK(op')
    BY <1>2, <1>g DEF StartEnable, OpPcs
  <2> QED
    BY <1>2, <2>1, <2>2, HwKept
       DEF TypeOK, StartEnable, chanVars, eventVars, OpOK, OpPcs
<1>3. CASE StartOn
  <2> DEFINE h1 == WriteMode(hw[c], TRUE)
             h2 == WriteCtrl(h1, TRUE)
  <2>1. h1 \in Hw /\ Capped(h1)
    BY <1>h, WriteModeTypes, Zenon
  <2> HIDE DEF h1
  <2>2. h2 \in Hw /\ Capped(h2)
    BY <2>1, WriteCtrlTypes, Zenon
  <2>3. hw' = [hw EXCEPT ![c] = h2]
    BY <1>3 DEF StartOn, h1
  <2> HIDE DEF h2
  <2>4. hw' \in [DmaChanMask -> Hw] /\ HeldAtTwo'
    BY <1>c, <2>2, <2>3, HwWritten
  <2> QED
    BY <1>3, <2>4 DEF TypeOK, StartOn, chanVars, eventVars, irqVars, Return
<1>4. CASE Grab \/ Wakeup \/ Timeout
  <2>1. OpOK(op')
    BY <1>4, <1>g DEF Grab, Wakeup, Timeout, AfterWait, OpPcs
  <2>2. UNCHANGED <<chanVars, eventVars, irqVars, primChan, hw, sched, isr, dpc,
                    unseen>>
    BY <1>4 DEF Grab, Wakeup, Timeout
  <2> QED
    BY <2>1, <2>2, HwKept DEF TypeOK, chanVars, eventVars, irqVars, OpOK, OpPcs
<1>5. CASE Clear
  <2>1. OpOK(op')
    BY <1>5, <1>g DEF Clear, AfterWait, OpPcs
  <2>2. /\ BlockEnd' \in [DmaChanMask -> BOOLEAN]
        /\ BufferEnd' \in [DmaChanMask -> BOOLEAN]
    BY <1>5 DEF Clear, SetFlag, TypeOK
  <2> QED
    BY <1>5, <2>1, <2>2, HwKept
       DEF TypeOK, Clear, chanVars, irqVars, OpOK, OpPcs
<1>6. CASE StopCtrl
  <2>1. OpOK(op')
    BY <1>6, <1>g DEF StopCtrl, OpPcs
  <2>2. hw' \in [DmaChanMask -> Hw] /\ HeldAtTwo'
    BY <1>6, <1>c, CompleteCtrlTypes DEF StopCtrl
  <2> QED
    BY <1>6, <2>1, <2>2
       DEF TypeOK, StopCtrl, chanVars, eventVars, irqVars, OpOK, OpPcs
<1>7. CASE StopEnbl
  <2> DEFINE v == OtherEnbl(c)
  <2>1. v \in BOOLEAN
    BY DEF OtherEnbl
  <2>2. op' = [op EXCEPT !.pc = "irq", !.val = v]
    BY <1>7 DEF StopEnbl
  <2> HIDE DEF v
  <2>3. OpOK(op')
    BY <1>b, <2>1, <2>2 DEF OpOK, OpPcs
  <2>4. ChanEnbl' \in [DmaChanMask -> BOOLEAN]
    BY <1>7 DEF StopEnbl, CompleteEnbl, TypeOK
  <2> QED
    BY <1>7, <2>3, <2>4, HwKept
       DEF TypeOK, StopEnbl, chanVars, eventVars, OpOK, OpPcs
<1>8. CASE StopIrq
  <2>1. OpOK(op')
    BY <1>8, <1>g DEF StopIrq, OpPcs
  <2>2. IrqEnbl' \in BOOLEAN
    BY <1>8, <1>c DEF StopIrq, CompleteIrq
  <2>3. stub' \in [DmaChanMask -> Stub]
    BY <1>8, <1>c, ChanTypes DEF StopIrq, CompleteIrq, TypeOK
  <2> QED
    BY <1>8, <2>1, <2>2, <2>3, HwKept
       DEF TypeOK, StopIrq, eventVars, OpOK, OpPcs
<1>9. CASE GetBlock
  <2>1. OpOK(op')
    BY <1>9, <1>g DEF GetBlock, OpPcs
  <2>2. unseen' \in [DmaChanMask -> BOOLEAN]
    BY <1>9 DEF GetBlock, TypeOK
  <2> QED
    BY <1>9, <2>1, <2>2, HwKept
       DEF TypeOK, GetBlock, chanVars, eventVars, irqVars, OpOK, OpPcs
<1>10. CASE GetTotal
  BY <1>10, HwKept DEF TypeOK, GetTotal, Return, chanVars, eventVars, irqVars
<1>11. CASE DoneRead
  <2> DEFINE v == hw[c].start
  <2>1. v \in BOOLEAN
    BY <1>h DEF Hw
  <2>2. op' = [op EXCEPT !.pc = "write", !.val = v]
    BY <1>11 DEF DoneRead
  <2> HIDE DEF v
  <2>3. OpOK(op')
    BY <1>b, <2>1, <2>2 DEF OpOK, OpPcs
  <2> QED
    BY <1>11, <2>3, HwKept
       DEF TypeOK, DoneRead, chanVars, eventVars, irqVars, OpOK, OpPcs
<1>12. CASE DoneWrite
  <2> DEFINE h1 == WriteCtrl(hw[c], op.val)
  <2>1. h1 \in Hw /\ Capped(h1)
    BY <1>c, <1>h, WriteCtrlTypes, Zenon
  <2>2. hw' = [hw EXCEPT ![c] = h1]
    BY <1>12 DEF DoneWrite
  <2> HIDE DEF h1
  <2>3. hw' \in [DmaChanMask -> Hw] /\ HeldAtTwo'
    BY <1>c, <2>1, <2>2, HwWritten
  <2> QED
    BY <1>12, <2>3 DEF TypeOK, DoneWrite, Return, chanVars, eventVars, irqVars
<1> QED
  BY <1>1, <1>2, <1>3, <1>4, <1>5, <1>6, <1>7, <1>8, <1>9, <1>10, <1>11, <1>12
     DEF CallSteps

-----------------------------------------------------------------------------
LEMMA TypeInit == Init => TypeOK /\ HeldAtTwo
<1> SUFFICES ASSUME Init PROVE TypeOK /\ HeldAtTwo
  OBVIOUS
<1>1. 0 \in 0 .. NumChan - 1
  BY PexDmaAssumption
<1>2. hw \in [DmaChanMask -> Hw]
  BY NewHwTypes DEF Init
<1>3. HeldAtTwo
  BY NewHwTypes DEF Init, HeldAtTwo, Capped
<1> QED
  BY <1>1, <1>2, <1>3, ChanTypes DEF Init, TypeOK

LEMMA TypeStep == TypeOK /\ HeldAtTwo /\ [Next]_vars => (TypeOK /\ HeldAtTwo)'
<1> SUFFICES ASSUME TypeOK, HeldAtTwo, [Next]_vars
             PROVE  TypeOK' /\ HeldAtTwo'
  OBVIOUS
<1>1. ASSUME NEW c \in DmaChanMask, HwBlockEnd(c) \/ Dpc(c)
      PROVE  TypeOK' /\ HeldAtTwo'
  BY <1>1, HwTypeStep, DpcTypeStep
<1>2. CASE Isr
  BY <1>2, IsrTypeStep
<1>3. CASE Calls
  BY <1>3, StartTypeStep, OtherCallTypeStep DEF Calls
<1>4. CASE CallSteps
  BY <1>4, CallStepsTypeStep
<1>5. CASE UNCHANGED vars
  BY <1>5, HwKept DEF TypeOK, vars, chanVars, eventVars, irqVars
<1> QED
  BY <1>1, <1>2, <1>3, <1>4, <1>5 DEF Next

(* The driver's and the FPGA's state keep their types, and a channel never  *)
(* has more than two blocks outstanding, whatever the clients call, on any  *)
(* number of CPUs, channels and blocks.                                     *)
THEOREM TypeCorrect == Spec => [](TypeOK /\ HeldAtTwo)
BY TypeInit, TypeStep, PTL DEF Spec

-----------------------------------------------------------------------------
(* Each channel of PexDma keeps the promise of EotCount.  A step of one     *)
(* channel's registers from h to g, in the terms of EotCount:               *)
Eot(c) == INSTANCE EotCount WITH running <- hw[c].start,
                                 pending <- hw[c].pending,
                                 blocked <- hw[c].held

EndsBlock(h, g) ==
  /\ h.start /\ ~h.held
  /\ g.pending = h.pending + 1 /\ g.held = (g.pending = 2)
TakesBack(h, g) ==
  /\ h.pending > 0
  /\ g.pending = h.pending - 1
  /\ g.held = IF g.pending = 0 THEN FALSE ELSE h.held
Forgets(h, g) == ~g.start /\ g.pending = 0 /\ g.held = FALSE
Keeps(h, g) == g.pending = h.pending /\ g.held = h.held
EotStep(h, g) ==
  EndsBlock(h, g) \/ TakesBack(h, g) \/ Forgets(h, g) \/ Keeps(h, g)

(* The registers as records: what a write leaves in the fields. *)
LEMMA HwFields ==
  ASSUME NEW h \in Hw
  PROVE  /\ Forgets(h, WriteCtrl(h, FALSE)) /\ Keeps(h, WriteCtrl(h, TRUE))
         /\ \A v \in BOOLEAN : /\ Keeps(h, WriteMode(h, v))
                               /\ WriteMode(h, v).start = h.start
<1>1. Forgets(h, WriteCtrl(h, FALSE))
  <2>1. WriteCtrl(h, FALSE)
          = [h EXCEPT !.start = FALSE, !.pending = 0, !.held = FALSE]
    BY DEF WriteCtrl
  <2> QED
    BY <2>1 DEF Forgets, Hw
<1>2. Keeps(h, WriteCtrl(h, TRUE))
  <2> DEFINE q == IF h.start THEN h.pos ELSE 0
  <2>1. WriteCtrl(h, TRUE) = [h EXCEPT !.start = TRUE, !.pos = q]
    BY DEF WriteCtrl
  <2> HIDE DEF q
  <2> QED
    BY <2>1 DEF Keeps, Hw
<1>3. ASSUME NEW v \in BOOLEAN
      PROVE  Keeps(h, WriteMode(h, v)) /\ WriteMode(h, v).start = h.start
  BY DEF Keeps, WriteMode, Hw
<1> QED
  BY <1>1, <1>2, <1>3

LEMMA FlagClrEot ==
  ASSUME NEW h \in Hw, Capped(h)
  PROVE  /\ TakesBack(h, WriteFlagClr(h)) \/ WriteFlagClr(h) = h
         /\ h.pending = 0 => WriteFlagClr(h) = h
<1>1. CASE h.pending = 0
  BY <1>1 DEF WriteFlagClr
<1>2. CASE h.pending # 0
  <2> DEFINE p == h.pending - 1
             b == h.held /\ h.pending > 1
             w == [h EXCEPT !.pending = p, !.held = b]
  <2>1. h.pending \in 0 .. 2 /\ h.held \in BOOLEAN
    BY DEF Hw
  <2>2. WriteFlagClr(h) = w
    BY <1>2 DEF WriteFlagClr
  <2>3. w.pending = p /\ w.held = b
    BY DEF Hw
  <2>4. b = IF p = 0 THEN FALSE ELSE h.held
    <3>1. CASE h.pending = 1
      <4>1. p = 0 /\ ~(h.pending > 1)
        BY <3>1
      <4> QED
        BY <4>1, Zenon
    <3>2. CASE h.pending = 2
      <4>1. p # 0 /\ h.pending > 1
        BY <3>2
      <4> QED
        BY <2>1, <4>1, Zenon
    <3>3. h.pending = 1 \/ h.pending = 2
      BY <1>2, <2>1
    <3> QED
      BY <3>1, <3>2, <3>3, Zenon
  <2>5. h.pending > 0
    BY <1>2, <2>1
  <2> HIDE DEF w, b
  <2> QED
    BY <1>2, <2>2, <2>3, <2>4, <2>5 DEF TakesBack
<1> QED
  BY <1>1, <1>2

(* Writes that switch a channel off, one after the other. *)
LEMMA OffEot ==
  ASSUME NEW h \in Hw, Capped(h)
  PROVE  /\ Forgets(h, WriteMode(WriteCtrl(h, FALSE), FALSE))
         /\ Forgets(h, WriteFlagClr(WriteMode(WriteCtrl(h, FALSE), FALSE)))
         /\ Keeps(h, WriteCtrl(WriteMode(h, TRUE), TRUE))
<1> DEFINE h1 == WriteCtrl(h, FALSE)
           h2 == WriteMode(h1, FALSE)
           h3 == WriteMode(h, TRUE)
<1>1. h1 \in Hw /\ Capped(h1) /\ Forgets(h, h1)
  BY WriteCtrlTypes, HwFields
<1>2. h3 \in Hw /\ Keeps(h, h3)
  BY WriteModeTypes, HwFields
<1>3. Keeps(h3, WriteCtrl(h3, TRUE))
  BY <1>2, HwFields
<1> HIDE DEF h1
<1>4. h2 \in Hw /\ Capped(h2) /\ Keeps(h1, h2) /\ h2.start = h1.start
  BY <1>1, WriteModeTypes, HwFields
<1> HIDE DEF h2, h3
<1>5. Forgets(h, h2)
  BY <1>1, <1>4 DEF Forgets, Keeps
<1>6. WriteFlagClr(h2) = h2
  BY <1>4, <1>5, FlagClrEot DEF Forgets
<1>7. Keeps(h, WriteCtrl(h3, TRUE))
  BY <1>2, <1>3 DEF Keeps
<1> QED
  BY <1>5, <1>6, <1>7 DEF h1, h2, h3

(* Any step of the system is one of these for every channel. *)
LEMMA EotWritten ==
  ASSUME TypeOK, NEW d \in DmaChanMask, NEW g, EotStep(hw[d], g),
         hw' = [hw EXCEPT ![d] = g], NEW c \in DmaChanMask
  PROVE  EotStep(hw[c], hw'[c])
<1>1. CASE c = d
  BY <1>1 DEF TypeOK
<1>2. CASE c # d
  BY <1>2 DEF TypeOK, EotStep, Keeps
<1> QED
  BY <1>1, <1>2

LEMMA EotSteps ==
  ASSUME TypeOK, HeldAtTwo, [Next]_vars, NEW c \in DmaChanMask
  PROVE  EotStep(hw[c], hw'[c])
<1>k. ASSUME hw' = hw PROVE EotStep(hw[c], hw'[c])
  BY <1>k DEF EotStep, Keeps
<1>t. \A d \in DmaChanMask : hw[d] \in Hw /\ Capped(hw[d])
  BY DEF TypeOK, HeldAtTwo, Capped
<1>o. ASSUME NEW d \in DmaChanMask, CompleteCtrl(d)
      PROVE  EotStep(hw[c], hw'[c])
  <2>1. EotStep(hw[d], WriteMode(WriteCtrl(hw[d], FALSE), FALSE))
    BY <1>t, OffEot DEF EotStep
  <2> QED
    BY <1>o, <2>1, EotWritten DEF CompleteCtrl
<1>c. ASSUME NEW d \in DmaChanMask, NEW v \in BOOLEAN,
             hw' = [hw EXCEPT ![d] = WriteCtrl(@, v)]
      PROVE  EotStep(hw[c], hw'[c])
  <2>1. EotStep(hw[d], WriteCtrl(hw[d], v))
    BY <1>t, HwFields DEF EotStep
  <2> QED
    BY <1>c, <2>1, EotWritten
<1>n. ASSUME NEW pc \in OpPcs, At(pc)
      PROVE  op.chan \in DmaChanMask /\ op.val \in BOOLEAN
  <2>1. op # NoOp
    BY <1>n DEF At, NoOp, OpPcs
  <2> QED
    BY <2>1 DEF TypeOK
<1>1. ASSUME NEW d \in DmaChanMask, HwBlockEnd(d)
      PROVE  EotStep(hw[c], hw'[c])
  <2> DEFINE p == hw[d].pending + 1
             b == hw[d].pending = 1
             q == IF hw[d].pos + 1 = BlockCount /\ run[d].DmaCycling
                  THEN 0 ELSE hw[d].pos + 1
             w == [hw[d] EXCEPT !.pending = p, !.held = b, !.pos = q]
  <2>1. hw[d].start /\ ~hw[d].held /\ hw' = [hw EXCEPT ![d] = w]
    BY <1>1 DEF HwBlockEnd
  <2>2. b = (p = 2)
    BY <1>t DEF Hw
  <2> HIDE DEF q, b, p
  <2>3. w.pending = p /\ w.held = b
    BY <1>t DEF Hw
  <2> HIDE DEF w
  <2>4. EotStep(hw[d], w)
    BY <2>1, <2>2, <2>3 DEF EotStep, EndsBlock, p
  <2> QED
    BY <2>1, <2>4, EotWritten
<1>2. ASSUME NEW d \in DmaChanMask, Dpc(d) PROVE EotStep(hw[c], hw'[c])
  BY <1>2, <1>k, <1>o
     DEF Dpc, DpcCopy, DpcEvent, DpcTest, DpcCtrl, DpcEnbl, DpcIrq, DpcBuffer
<1>3. CASE Isr
  <2>1. CASE IsrClear
    <3>1. isr.chan \in DmaChanMask
      BY <2>1 DEF IsrClear, TypeOK
    <3>2. EotStep(hw[isr.chan], WriteFlagClr(hw[isr.chan]))
      BY <1>t, <3>1, FlagClrEot DEF EotStep, Keeps
    <3> QED
      BY <2>1, <3>1, <3>2, EotWritten DEF IsrClear
  <2> QED
    BY <1>3, <1>k, <2>1 DEF Isr, IsrScan, IsrNext, IsrWrap
<1>4. CASE Calls
  <2>1. ASSUME NEW d \in DmaChanMask, ResetCall(d)
        PROVE  EotStep(hw[c], hw'[c])
    BY <1>c, <2>1 DEF ResetCall
  <2>2. ASSUME hw' # hw
        PROVE  \E e \in DmaChanMask : ResetCall(e)
    BY <1>4, <2>2 DEF Calls, StartCall, StateCall, DoneCall
  <2> QED
    BY <1>4, <1>k, <2>1, <2>2
<1>5. CASE CallSteps
  <2>1. CASE StartOff
    <3>1. op.chan \in DmaChanMask
      BY <1>n, <2>1 DEF StartOff, OpPcs
    <3>2. EotStep(hw[op.chan],
             WriteFlagClr(WriteMode(WriteCtrl(hw[op.chan], FALSE), FALSE)))
      BY <1>t, <3>1, OffEot DEF EotStep
    <3> QED
      BY <2>1, <3>1, <3>2, EotWritten DEF StartOff
  <2>2. CASE StartOn
    <3>1. op.chan \in DmaChanMask
      BY <1>n, <2>2 DEF StartOn, OpPcs
    <3>2. EotStep(hw[op.chan], WriteCtrl(WriteMode(hw[op.chan], TRUE), TRUE))
      BY <1>t, <3>1, OffEot DEF EotStep
    <3> QED
      BY <2>2, <3>1, <3>2, EotWritten DEF StartOn
  <2>3. CASE StopCtrl
    <3>1. op.chan \in DmaChanMask
      BY <1>n, <2>3 DEF StopCtrl, OpPcs
    <3> QED
      BY <1>o, <2>3, <3>1 DEF StopCtrl
  <2>4. CASE DoneWrite
    <3>1. op.chan \in DmaChanMask /\ op.val \in BOOLEAN
      BY <1>n, <2>4 DEF DoneWrite, OpPcs
    <3> QED
      BY <1>c, <2>4, <3>1 DEF DoneWrite
  <2>5. ASSUME hw' # hw PROVE StartOff \/ StartOn \/ StopCtrl \/ DoneWrite
    BY <1>5, <2>5
       DEF CallSteps, StartEnable, Grab, Wakeup, Timeout, Clear, StopEnbl,
           StopIrq, GetBlock, GetTotal, DoneRead
  <2> QED
    BY <1>k, <2>1, <2>2, <2>3, <2>4, <2>5
<1>6. CASE UNCHANGED vars
  BY <1>6, <1>k DEF vars
<1> QED
  BY <1>1, <1>2, <1>3, <1>4, <1>5, <1>6 DEF Next

(* The hardware that the driver meets is the one that EotFlags provides:    *)
(* whatever clients, handler and tasklets do, on any number of CPUs, every  *)
(* channel announces and takes back blocks as EotCount specifies.  The      *)
(* flags of ctrl_main do so too while no FLAG_CLR meets a block end         *)
(* (EotRefinement of EotFlags_proof).                                       *)
THEOREM ChannelsImplementEotCount ==
  ASSUME NEW c \in DmaChanMask
  PROVE  Spec => Eot(c)!Spec
<1>1. Init => Eot(c)!Init
  BY DEF Init, NewHw, Eot!Init
<1>2. TypeOK /\ HeldAtTwo /\ TypeOK' /\ [Next]_vars => [Eot(c)!Next]_(Eot(c)!vars)
  <2> SUFFICES ASSUME TypeOK, HeldAtTwo, TypeOK', [Next]_vars
               PROVE  [Eot(c)!Next]_(Eot(c)!vars)
    OBVIOUS
  <2>1. EotStep(hw[c], hw'[c])
    BY EotSteps
  <2>2. hw'[c].start \in BOOLEAN
    BY DEF TypeOK, Hw
  <2> QED
    BY <2>1, <2>2 DEF EotStep, EndsBlock, TakesBack, Forgets, Keeps,
       Eot!Next, Eot!vars, Eot!BlockEnd, Eot!Ack, Eot!Discard
<1> QED
  BY <1>1, <1>2, TypeCorrect, PTL DEF Spec, Eot!Spec

-----------------------------------------------------------------------------
(* What a register write does to the bits the rest is about. *)
LEMMA HwBits ==
  ASSUME NEW h \in Hw
  PROVE  /\ \A v \in BOOLEAN : /\ WriteCtrl(h, v).intEnbl = h.intEnbl
                               /\ WriteCtrl(h, v).start = v
                               /\ WriteMode(h, v).intEnbl = v
                               /\ WriteMode(h, v).start = h.start
         /\ WriteFlagClr(h).intEnbl = h.intEnbl
         /\ WriteFlagClr(h).start = h.start
<1>1. ASSUME NEW v \in BOOLEAN
      PROVE  WriteCtrl(h, v).intEnbl = h.intEnbl /\ WriteCtrl(h, v).start = v
  <2>1. CASE ~v
    <3> DEFINE w == [h EXCEPT !.start = FALSE, !.pending = 0, !.held = FALSE]
    <3>1. WriteCtrl(h, v) = w
      BY <2>1 DEF WriteCtrl
    <3>2. w.intEnbl = h.intEnbl /\ w.start = FALSE
      BY Zenon DEF Hw
    <3> QED
      BY <2>1, <3>1, <3>2
  <2>2. CASE v
    <3> DEFINE pos == IF h.start THEN h.pos ELSE 0
               w == [h EXCEPT !.start = TRUE, !.pos = pos]
    <3>1. WriteCtrl(h, v) = w
      BY <2>2 DEF WriteCtrl
    <3> HIDE DEF pos
    <3>2. w.intEnbl = h.intEnbl /\ w.start = TRUE
      BY DEF Hw
    <3> QED
      BY <2>2, <3>1, <3>2
  <2> QED
    BY <2>1, <2>2
<1>2. ASSUME NEW v \in BOOLEAN
      PROVE  WriteMode(h, v).intEnbl = v /\ WriteMode(h, v).start = h.start
  BY DEF WriteMode, Hw
<1>3. WriteFlagClr(h).intEnbl = h.intEnbl /\ WriteFlagClr(h).start = h.start
  BY DEF WriteFlagClr, Hw
<1> QED
  BY <1>1, <1>2, <1>3

(* HwCompleteDmaTransfer switches a channel off; no other is touched. *)
LEMMA CompleteCtrlBits ==
  ASSUME TypeOK, HeldAtTwo, NEW c \in DmaChanMask, CompleteCtrl(c)
  PROVE  /\ ~hw'[c].start /\ ~hw'[c].intEnbl
         /\ \A d \in DmaChanMask \ {c} : hw'[d] = hw[d]
<1> DEFINE h == WriteCtrl(hw[c], FALSE)
           w == WriteMode(h, FALSE)
<1>1. hw[c] \in Hw /\ Capped(hw[c])
  BY DEF TypeOK, HeldAtTwo, Capped
<1>2. h \in Hw /\ h.start = FALSE
  BY <1>1, WriteCtrlTypes, HwBits, Zenon
<1> HIDE DEF h
<1>3. w.start = h.start /\ w.intEnbl = FALSE
  BY <1>2, HwBits, Zenon
<1>4. hw' = [hw EXCEPT ![c] = w]
  BY DEF CompleteCtrl, h
<1> HIDE DEF w
<1> QED
  BY <1>2, <1>3, <1>4 DEF TypeOK

(* The handler and the tasklet count in a stub without changing its state. *)
LEMMA StubState ==
  ASSUME NEW s \in Stub
  PROVE  NextStub(s).state = s.state /\ CompleteStub(s).state = "STOP"
BY DEF Stub, NextStub, CompleteStub

-----------------------------------------------------------------------------
(* Any number of CPUs and any clients: the interrupt enables and the states *)
(* of the stubs go wrong in the named races only.  EnblInv is kept by every *)
(* step that starts where EnblInTime holds, HaltInv by every step that      *)
(* starts where HaltInTime holds.                                           *)
EnblInTime == ~(StartInCompletion \/ StartInScan)
HaltInTime == ~(StartInCompletion \/ DoneOvertaken)

(* A call starts channel c; a call or the tasklet completes it, having      *)
(* switched it off.                                                         *)
Starting(c) == op.chan = c /\ op.pc \in {"off", "enable", "on"}
Completing(c) == \/ dpc[c].pc \in {"enbl", "irq"}
                 \/ op.chan = c /\ op.pc \in {"enbl", "irq"}

(* m_DmaIrqEnbl is up when some m_DmaChanEnbl is, and a completion that     *)
(* will clear it has found none.                                            *)
EnblInv ==
  /\ op.pc = "on" => ChanEnbl[op.chan]
  /\ op.pc = "irq" /\ ~op.val => \A d \in DmaChanMask : ~ChanEnbl[d]
  /\ \A c \in DmaChanMask :
       /\ Completing(c) => ~hw[c].intEnbl
       /\ hw[c].intEnbl => ChanEnbl[c]
       /\ ChanEnbl[c] => IrqEnbl
       /\ dpc[c].pc = "irq" /\ ~dpc[c].enbl => \A d \in DmaChanMask : ~ChanEnbl[d]

(* A channel is off from the first write of its completion, and stays off   *)
(* until a START, which has set its stub to RUN, switches it on.            *)
HaltInv == \A c \in DmaChanMask :
  /\ Starting(c) => stub[c].state = "RUN"
  /\ stub[c].state # "RUN" \/ Completing(c) => ~hw[c].start

LEMMA HwBlockEndBits ==
  ASSUME TypeOK, NEW c \in DmaChanMask, HwBlockEnd(c)
  PROVE  /\ \A d \in DmaChanMask : /\ hw'[d].intEnbl = hw[d].intEnbl
                                   /\ hw'[d].start = hw[d].start
         /\ UNCHANGED <<chanVars, irqVars, isr, dpc, op>>
<1> DEFINE h == hw[c]
           p == h.pending + 1
           b == h.pending = 1
           q == IF h.pos + 1 = BlockCount /\ run[c].DmaCycling
                THEN 0 ELSE h.pos + 1
           w == [h EXCEPT !.pending = p, !.held = b, !.pos = q]
<1>1. h \in Hw
  BY DEF TypeOK
<1>2. hw' = [hw EXCEPT ![c] = w]
  BY DEF HwBlockEnd
<1> HIDE DEF p, b, q, h
<1>3. w.intEnbl = h.intEnbl /\ w.start = h.start
  BY <1>1 DEF Hw
<1> HIDE DEF w
<1>4. \A d \in DmaChanMask : /\ hw'[d].intEnbl = hw[d].intEnbl
                             /\ hw'[d].start = hw[d].start
  BY <1>2, <1>3 DEF TypeOK, h
<1>5. UNCHANGED <<chanVars, irqVars, isr, dpc, op>>
  BY DEF HwBlockEnd
<1> QED
  BY <1>4, <1>5

(* The handler acknowledges and counts; it switches nothing on or off.      *)
LEMMA IsrBits ==
  ASSUME TypeOK, Isr
  PROVE  /\ \A d \in DmaChanMask : /\ hw'[d].intEnbl = hw[d].intEnbl
                                   /\ hw'[d].start = hw[d].start
                                   /\ stub'[d].state = stub[d].state
         /\ UNCHANGED <<irqVars, dpc, op>>
<1>1. CASE IsrScan
  BY <1>1 DEF IsrScan, chanVars
<1>2. CASE IsrNext \/ IsrWrap
  <2>1. isr.chan \in DmaChanMask
    BY <1>2 DEF IsrNext, IsrWrap, TypeOK
  <2>2. \A d \in DmaChanMask : stub'[d].state = stub[d].state
    <3>1. CASE IsrNext
      <4>1. stub' = [stub EXCEPT ![isr.chan] = NextStub(@)]
        BY <3>1 DEF IsrNext
      <4> QED
        BY <2>1, <4>1, StubState DEF TypeOK
    <3>2. CASE IsrWrap
      BY <3>2 DEF IsrWrap
    <3> QED
      BY <1>2, <3>1, <3>2
  <2> QED
    BY <1>2, <2>2 DEF IsrNext, IsrWrap
<1>3. CASE IsrClear
  <2>1. isr.chan \in DmaChanMask
    BY <1>3 DEF IsrClear, TypeOK
  <2>2. \A d \in DmaChanMask : /\ hw'[d].intEnbl = hw[d].intEnbl
                               /\ hw'[d].start = hw[d].start
    BY <1>3, <2>1, HwBits DEF IsrClear, TypeOK
  <2> QED
    BY <1>3, <2>2 DEF IsrClear, chanVars
<1> QED
  BY <1>1, <1>2, <1>3 DEF Isr

LEMMA DpcEnblHaltStep ==
  ASSUME TypeOK, HeldAtTwo, NEW c \in DmaChanMask, Dpc(c)
  PROVE  /\ EnblInv /\ EnblInTime => EnblInv'
         /\ HaltInv /\ HaltInTime => HaltInv'
<1>1. \A d \in DmaChanMask \ {c} : dpc'[d] = dpc[d]
  BY DEF Dpc, DpcCopy, DpcEvent, DpcTest, DpcCtrl, DpcEnbl, DpcIrq, DpcBuffer,
         TypeOK
<1>2. CASE DpcCopy(c) \/ DpcEvent(c) \/ DpcTest(c) \/ DpcBuffer(c)
  <2>1. dpc'[c].pc \notin {"enbl", "irq"}
    BY <1>2 DEF DpcCopy, DpcEvent, DpcTest, DpcBuffer, TypeOK
  <2>2. UNCHANGED <<stub, irqVars, hw, op>>
    BY <1>2 DEF DpcCopy, DpcEvent, DpcTest, DpcBuffer, chanVars
  <2> QED
    BY <1>1, <2>1, <2>2 DEF EnblInv, HaltInv, Starting, Completing, irqVars
<1>3. CASE DpcCtrl(c)
  <2>1. dpc'[c].pc = "enbl"
    BY <1>3 DEF DpcCtrl, TypeOK
  <2>2. /\ ~hw'[c].start /\ ~hw'[c].intEnbl
        /\ \A d \in DmaChanMask \ {c} : hw'[d] = hw[d]
    BY <1>3, CompleteCtrlBits DEF DpcCtrl
  <2>3. UNCHANGED <<stub, irqVars, op>>
    BY <1>3 DEF DpcCtrl, chanVars
  <2> QED
    BY <1>1, <2>1, <2>2, <2>3
       DEF EnblInv, HaltInv, Starting, Completing, irqVars
<1>4. CASE DpcEnbl(c)
  <2>1. /\ dpc[c].pc = "enbl"
        /\ dpc'[c].pc = "irq" /\ dpc'[c].enbl = OtherEnbl(c)
    BY <1>4 DEF DpcEnbl, TypeOK
  <2>2. /\ ~ChanEnbl'[c]
        /\ \A d \in DmaChanMask \ {c} : ChanEnbl'[d] = ChanEnbl[d]
    BY <1>4 DEF DpcEnbl, CompleteEnbl, TypeOK
  <2>3. UNCHANGED <<stub, IrqEnbl, hw, op>>
    BY <1>4 DEF DpcEnbl, chanVars
  <2>4. dpc'[c].enbl \/ \A d \in DmaChanMask : ~ChanEnbl'[d]
    BY <2>1, <2>2 DEF OtherEnbl
  <2>5. ASSUME EnblInv, EnblInTime
        PROVE  EnblInv'
    <3>1. op.pc = "on" => op.chan \in DmaChanMask \ {c}
      BY <2>1, <2>5, OpActive DEF EnblInTime, StartInCompletion
    <3>2. op'.pc = "on" => ChanEnbl'[op'.chan]
      BY <2>2, <2>3, <2>5, <3>1 DEF EnblInv
    <3>3. \A d \in DmaChanMask : ChanEnbl'[d] => ChanEnbl[d]
      BY <2>2
    <3>4. ~hw[c].intEnbl
      BY <2>1, <2>5 DEF EnblInv, Completing
    <3> QED
      BY <1>1, <2>1, <2>2, <2>3, <2>4, <2>5, <3>2, <3>3, <3>4
         DEF EnblInv, Completing
  <2>6. HaltInv => HaltInv'
    BY <1>1, <2>1, <2>3 DEF HaltInv, Starting, Completing
  <2> QED
    BY <2>5, <2>6
<1>5. CASE DpcIrq(c)
  <2>1. dpc[c].pc = "irq" /\ dpc'[c].pc = "buffer"
    BY <1>5 DEF DpcIrq, TypeOK
  <2>2. /\ stub'[c].state = "STOP"
        /\ \A d \in DmaChanMask \ {c} : stub'[d] = stub[d]
    BY <1>5, StubState DEF DpcIrq, CompleteIrq, TypeOK
  <2>3. IrqEnbl' = dpc[c].enbl /\ UNCHANGED <<ChanEnbl, hw, op>>
    BY <1>5 DEF DpcIrq, CompleteIrq
  <2>4. EnblInv => EnblInv'
    BY <1>1, <2>1, <2>3 DEF EnblInv, Completing
  <2>5. HaltInTime => ~Starting(c)
    BY <2>1 DEF HaltInTime, StartInCompletion, Starting
  <2>6. HaltInv /\ HaltInTime => HaltInv'
    BY <1>1, <2>1, <2>2, <2>3, <2>5 DEF HaltInv, Starting, Completing
  <2> QED
    BY <2>4, <2>6
<1> QED
  BY <1>2, <1>3, <1>4, <1>5 DEF Dpc

LEMMA CallsEnblHaltStep ==
  ASSUME TypeOK, HeldAtTwo, Calls
  PROVE  (EnblInv => EnblInv') /\ (HaltInv => HaltInv')
<1>1. ASSUME NEW c \in DmaChanMask, NEW cycling \in Modes, StartCall(c, cycling)
      PROVE  (EnblInv => EnblInv') /\ (HaltInv => HaltInv')
  <2>1. op.pc = "idle" /\ op'.pc = "off" /\ op'.chan = c
    BY <1>1 DEF StartCall, Call, NoOp
  <2>2. /\ stub'[c].state = "RUN"
        /\ \A d \in DmaChanMask \ {c} : stub'[d] = stub[d]
    BY <1>1 DEF StartCall, StartStub, TypeOK
  <2>3. UNCHANGED <<irqVars, hw, dpc>>
    BY <1>1 DEF StartCall
  <2> QED
    BY <2>1, <2>2, <2>3 DEF EnblInv, HaltInv, Starting, Completing, irqVars
<1>2. ASSUME NEW c \in DmaChanMask,
             \/ DoneCall(c)
             \/ \E name \in Ops, timeout \in Timeouts :
                  StateCall(name, c, timeout)
      PROVE  (EnblInv => EnblInv') /\ (HaltInv => HaltInv')
  <2>1. op.pc = "idle" /\ op'.pc \in {"grab", "stop", "get", "read"}
    BY <1>2 DEF DoneCall, StateCall, Call, Waiting, NoOp
  <2>2. UNCHANGED <<stub, irqVars, hw, dpc>>
    BY <1>2 DEF DoneCall, StateCall, chanVars
  <2> QED
    BY <2>1, <2>2 DEF EnblInv, HaltInv, Starting, Completing, irqVars
<1>3. ASSUME NEW c \in DmaChanMask, ResetCall(c)
      PROVE  (EnblInv => EnblInv') /\ (HaltInv => HaltInv')
  <2> DEFINE w == WriteCtrl(hw[c], FALSE)
  <2>1. w.intEnbl = hw[c].intEnbl /\ w.start = FALSE
    BY HwBits DEF TypeOK
  <2>2. hw' = [hw EXCEPT ![c] = w]
    BY <1>3 DEF ResetCall
  <2> HIDE DEF w
  <2>3. \A d \in DmaChanMask : /\ hw'[d].intEnbl = hw[d].intEnbl
                               /\ hw'[d].start => hw[d].start
    BY <2>1, <2>2 DEF TypeOK
  <2>4. UNCHANGED <<stub, irqVars, dpc, op>>
    BY <1>3 DEF ResetCall, chanVars
  <2> QED
    BY <2>3, <2>4 DEF EnblInv, HaltInv, Starting, Completing, irqVars
<1> QED
  BY <1>1, <1>2, <1>3 DEF Calls

LEMMA CallStepsEnblHaltStep ==
  ASSUME TypeOK, HeldAtTwo, CallSteps
  PROVE  /\ EnblInv /\ EnblInTime => EnblInv'
         /\ HaltInv /\ HaltInTime => HaltInv'
<1> DEFINE c == op.chan
<1>a. op.pc # "idle"
  BY DEF CallSteps, At, StartOff, StartEnable, StartOn, Grab, Wakeup, Timeout,
         Clear, StopCtrl, StopEnbl, StopIrq, GetBlock, GetTotal, DoneRead,
         DoneWrite
<1>b. op \in [name : Ops, chan : DmaChanMask, val : BOOLEAN, pc : OpPcs]
  BY <1>a, OpActive
<1>c. c \in DmaChanMask /\ hw[c] \in Hw /\ Capped(hw[c])
  BY <1>b DEF TypeOK, HeldAtTwo, Capped
<1>g. ASSUME NEW pc, Goto(pc)
      PROVE  op'.pc = pc /\ op'.chan = c /\ op'.val = op.val
  BY <1>b, <1>g DEF Goto
<1>r. ASSUME Return
      PROVE  op'.pc = "idle"
  BY <1>r DEF Return, NoOp
<1>1. CASE StartOff
  <2> DEFINE h1 == WriteCtrl(hw[c], FALSE)
             h2 == WriteMode(h1, FALSE)
             h3 == WriteFlagClr(h2)
  <2>1. h1 \in Hw /\ Capped(h1) /\ h1.start = FALSE
    BY <1>c, WriteCtrlTypes, HwBits, Zenon
  <2> HIDE DEF h1
  <2>2. h2 \in Hw /\ h2.intEnbl = FALSE /\ h2.start = h1.start
    BY <2>1, WriteModeTypes, HwBits, Zenon
  <2> HIDE DEF h2
  <2>3. h3.intEnbl = h2.intEnbl /\ h3.start = h2.start
    BY <2>2, HwBits, Zenon
  <2>4. hw' = [hw EXCEPT ![c] = h3]
    BY <1>1 DEF StartOff, h1, h2
  <2> HIDE DEF h3
  <2>5. /\ ~hw'[c].start /\ ~hw'[c].intEnbl
        /\ \A d \in DmaChanMask \ {c} : hw'[d] = hw[d]
    BY <1>c, <2>1, <2>2, <2>3, <2>4 DEF TypeOK
  <2>6. op.pc = "off" /\ op'.pc = "enable" /\ op'.chan = c
    BY <1>1, <1>g DEF StartOff, At
  <2>7. UNCHANGED <<stub, irqVars, dpc>>
    BY <1>1 DEF StartOff, chanVars
  <2> QED
    BY <1>c, <2>5, <2>6, <2>7
       DEF EnblInv, HaltInv, Starting, Completing, irqVars
<1>2. CASE StartEnable
  <2>1. At("enable") /\ op.pc = "enable" /\ op'.pc = "on" /\ op'.chan = c
    BY <1>2, <1>g DEF StartEnable, At
  <2>2. /\ ChanEnbl'[c] /\ IrqEnbl'
        /\ \A d \in DmaChanMask \ {c} : ChanEnbl'[d] = ChanEnbl[d]
    BY <1>2, <1>c DEF StartEnable, TypeOK
  <2>3. UNCHANGED <<stub, hw, dpc>>
    BY <1>2 DEF StartEnable, chanVars
  <2>4. EnblInTime => \A d \in DmaChanMask : ~(dpc[d].pc = "irq" /\ ~dpc[d].enbl)
    BY <2>1 DEF EnblInTime, StartInScan
  <2>5. EnblInv /\ EnblInTime => EnblInv'
    BY <1>c, <2>1, <2>2, <2>3, <2>4 DEF EnblInv, Completing
  <2>6. HaltInv => HaltInv'
    BY <2>1, <2>3 DEF HaltInv, Starting, Completing
  <2> QED
    BY <2>5, <2>6
<1>3. CASE StartOn
  <2>1. op.pc = "on" /\ op'.pc = "idle"
    BY <1>3, <1>r DEF StartOn, At
  <2>2. \A d \in DmaChanMask \ {c} : hw'[d] = hw[d]
    BY <1>3 DEF StartOn, TypeOK
  <2>3. UNCHANGED <<stub, irqVars, dpc>>
    BY <1>3 DEF StartOn, chanVars
  <2>4. ~StartInCompletion => dpc[c].pc \notin {"enbl", "irq"}
    BY <2>1 DEF StartInCompletion
  <2>5. EnblInv /\ EnblInTime => EnblInv'
    BY <1>c, <2>1, <2>2, <2>3, <2>4
       DEF EnblInv, EnblInTime, Completing, irqVars
  <2>6. HaltInv => stub[c].state = "RUN"
    BY <1>c, <2>1 DEF HaltInv, Starting
  <2>7. HaltInv /\ HaltInTime => HaltInv'
    BY <1>c, <2>1, <2>2, <2>3, <2>4, <2>6
       DEF HaltInv, HaltInTime, Starting, Completing
  <2> QED
    BY <2>5, <2>7
<1>4. CASE \/ Grab \/ Wakeup \/ Timeout \/ Clear \/ GetBlock \/ GetTotal
           \/ DoneRead
  <2> DEFINE v == hw[c].start
  <2>a. DoneRead => op' = [op EXCEPT !.pc = "write", !.val = v]
    BY DEF DoneRead
  <2> HIDE DEF v
  <2>b. DoneRead => op'.pc = "write"
    BY <1>b, <2>a
  <2>c. ~DoneRead => op'.pc \in {"clear", "wait", "stop", "get", "total", "idle"}
    BY <1>4, <1>g, <1>r DEF Grab, Wakeup, Timeout, Clear, GetBlock, GetTotal,
                            AfterWait
  <2>1. op'.pc \in {"clear", "wait", "stop", "get", "total", "idle", "write"}
    BY <2>b, <2>c
  <2>2. UNCHANGED <<stub, irqVars, hw, dpc>>
    BY <1>4 DEF Grab, Wakeup, Timeout, Clear, GetBlock, GetTotal, DoneRead,
                chanVars
  <2> QED
    BY <2>1, <2>2 DEF EnblInv, HaltInv, Starting, Completing, irqVars
<1>5. CASE StopCtrl
  <2>1. op.pc = "stop" /\ op'.pc = "enbl" /\ op'.chan = c
    BY <1>5, <1>g DEF StopCtrl, At
  <2>2. /\ ~hw'[c].start /\ ~hw'[c].intEnbl
        /\ \A d \in DmaChanMask \ {c} : hw'[d] = hw[d]
    BY <1>5, <1>c, CompleteCtrlBits DEF StopCtrl
  <2>3. UNCHANGED <<stub, irqVars, dpc>>
    BY <1>5 DEF StopCtrl, chanVars
  <2> QED
    BY <1>c, <2>1, <2>2, <2>3
       DEF EnblInv, HaltInv, Starting, Completing, irqVars
<1>6. CASE StopEnbl
  <2> DEFINE v == OtherEnbl(c)
  <2>1. op.pc = "enbl" /\ op' = [op EXCEPT !.pc = "irq", !.val = v]
    BY <1>6 DEF StopEnbl, At
  <2>2. v \/ \A d \in DmaChanMask \ {c} : ~ChanEnbl[d]
    BY DEF OtherEnbl
  <2> HIDE DEF v
  <2>3. op'.pc = "irq" /\ op'.chan = c /\ op'.val = v
    BY <1>b, <2>1
  <2>4. /\ ~ChanEnbl'[c]
        /\ \A d \in DmaChanMask \ {c} : ChanEnbl'[d] = ChanEnbl[d]
    BY <1>6, <1>c DEF StopEnbl, CompleteEnbl, TypeOK
  <2>5. UNCHANGED <<stub, IrqEnbl, hw, dpc>>
    BY <1>6 DEF StopEnbl, chanVars
  <2>6. EnblInv => EnblInv'
    BY <1>c, <2>1, <2>2, <2>3, <2>4, <2>5 DEF EnblInv, Completing
  <2>7. HaltInv => HaltInv'
    BY <1>c, <2>1, <2>3, <2>5 DEF HaltInv, Starting, Completing
  <2> QED
    BY <2>6, <2>7
<1>7. CASE StopIrq
  <2>1. op.pc = "irq" /\ op'.pc = "get"
    BY <1>7, <1>g DEF StopIrq, At
  <2>2. /\ stub'[c].state = "STOP"
        /\ \A d \in DmaChanMask \ {c} : stub'[d] = stub[d]
    BY <1>7, <1>c, StubState DEF StopIrq, CompleteIrq, TypeOK
  <2>3. IrqEnbl' = op.val /\ UNCHANGED <<ChanEnbl, hw, dpc>>
    BY <1>7 DEF StopIrq, CompleteIrq
  <2>4. EnblInv => EnblInv'
    BY <2>1, <2>3 DEF EnblInv, Completing
  <2>5. HaltInv => HaltInv'
    BY <1>c, <2>1, <2>2, <2>3 DEF HaltInv, Starting, Completing
  <2> QED
    BY <2>4, <2>5
<1>8. CASE DoneWrite
  <2>1. op.pc = "write" /\ op'.pc = "idle"
    BY <1>8, <1>r DEF DoneWrite, At
  <2> DEFINE v == op.val
             w == WriteCtrl(hw[c], v)
  <2>a. v \in BOOLEAN /\ hw[c] \in Hw
    BY <1>b, <1>c
  <2>b. HaltInTime => (v => hw[c].start)
    BY <2>1 DEF HaltInTime, DoneOvertaken
  <2>c. hw' = [hw EXCEPT ![c] = w]
    BY <1>8 DEF DoneWrite
  <2> HIDE DEF v
  <2>2. w.intEnbl = hw[c].intEnbl /\ w.start = v
    BY <2>a, HwBits
  <2> HIDE DEF w
  <2>3. \A d \in DmaChanMask : /\ hw'[d].intEnbl = hw[d].intEnbl
                               /\ HaltInTime => (hw'[d].start => hw[d].start)
    BY <1>c, <2>b, <2>c, <2>2 DEF TypeOK
  <2>4. UNCHANGED <<stub, irqVars, dpc>>
    BY <1>8 DEF DoneWrite, chanVars
  <2> QED
    BY <2>1, <2>3, <2>4 DEF EnblInv, HaltInv, Starting, Completing, irqVars
<1> QED
  BY <1>1, <1>2, <1>3, <1>4, <1>5, <1>6, <1>7, <1>8 DEF CallSteps

LEMMA EnblHaltInit == Init => EnblInv /\ HaltInv
<1> SUFFICES ASSUME Init PROVE EnblInv /\ HaltInv
  OBVIOUS
<1>1. /\ op.pc = "idle"
      /\ \A c \in DmaChanMask : /\ ~hw[c].intEnbl /\ ~hw[c].start
                                /\ ~ChanEnbl[c] /\ dpc[c].pc = "idle"
  BY DEF Init, NoOp, NewHw
<1> QED
  BY <1>1 DEF EnblInv, HaltInv, Starting, Completing

LEMMA EnblHaltStep ==
  ASSUME TypeOK, HeldAtTwo, [Next]_vars
  PROVE  /\ EnblInv /\ EnblInTime => EnblInv'
         /\ HaltInv /\ HaltInTime => HaltInv'
<1>1. ASSUME NEW c \in DmaChanMask, HwBlockEnd(c)
      PROVE  (EnblInv => EnblInv') /\ (HaltInv => HaltInv')
  BY <1>1, HwBlockEndBits
     DEF EnblInv, HaltInv, Starting, Completing, chanVars, irqVars
<1>2. ASSUME NEW c \in DmaChanMask, Dpc(c)
      PROVE  /\ EnblInv /\ EnblInTime => EnblInv'
             /\ HaltInv /\ HaltInTime => HaltInv'
  BY <1>2, DpcEnblHaltStep
<1>3. CASE Isr
  BY <1>3, IsrBits DEF EnblInv, HaltInv, Starting, Completing, irqVars
<1>4. CASE Calls
  BY <1>4, CallsEnblHaltStep
<1>5. CASE CallSteps
  BY <1>5, CallStepsEnblHaltStep
<1>6. CASE UNCHANGED vars
  BY <1>6 DEF EnblInv, HaltInv, Starting, Completing, vars, chanVars, irqVars
<1> QED
  BY <1>1, <1>2, <1>3, <1>4, <1>5, <1>6 DEF Next

(* pex_device_isr never turns its back on a channel that is running with    *)
(* its interrupt enabled, however completions, stops and starts of the      *)
(* board's channels follow one another on any number of CPUs, as long as    *)
(* no START meets a tasklet inside its completion of the same channel, or   *)
(* between its scan of the channels and what it makes of it.                *)
THEOREM IrqAlwaysEnabled == Spec => IrqUnlessOvertaken
<1>1. EnblInv => IrqEnabled
  BY DEF EnblInv, IrqEnabled
<1>2. TypeOK /\ HeldAtTwo /\ [Next]_vars /\ EnblInv /\ EnblInTime => EnblInv'
  BY EnblHaltStep
<1>3. Spec => [](TypeOK /\ HeldAtTwo)
  BY TypeCorrect
<1>4. ~(StartInCompletion \/ StartInScan) => EnblInTime
  BY DEF EnblInTime
<1> QED
  BY <1>1, <1>2, <1>3, <1>4, EnblHaltInit, PTL DEF Spec, IrqUnlessOvertaken

(* A channel whose stub says STOP is off, DONE calls and any number of CPUs *)
(* included: it does not fill the buffer any more, as long as no START      *)
(* meets a tasklet inside its completion of the same channel, and no        *)
(* channel is switched off between DONE's read and its write of DMA_CTRL.   *)
THEOREM StopMeansOff == Spec => OffUnlessOvertaken
<1>1. HaltInv => StoppedIsOff
  BY DEF HaltInv, StoppedIsOff
<1>2. TypeOK /\ HeldAtTwo /\ [Next]_vars /\ HaltInv /\ HaltInTime => HaltInv'
  BY EnblHaltStep
<1>3. Spec => [](TypeOK /\ HeldAtTwo)
  BY TypeCorrect
<1>4. ~(StartInCompletion \/ DoneOvertaken) => HaltInTime
  BY DEF HaltInTime
<1> QED
  BY <1>1, <1>2, <1>3, <1>4, EnblHaltInit, PTL DEF Spec, OffUnlessOvertaken

-----------------------------------------------------------------------------
(* On one CPU, with clients that start only a channel that is not in RUN,   *)
(* StartInv is inductive, and neither race of EnblInTime happens.           *)
OneCpu == ~SMP /\ StopFirst

(* A channel being started has left its last run behind: it does not        *)
(* interrupt, nothing is counted, and no tasklet is about to complete it.   *)
StartInv == \A c \in DmaChanMask :
  /\ stub[c].state # "RUN" \/ Completing(c) => ~hw[c].intEnbl
  /\ Starting(c) => /\ stub[c].state = "RUN"
                    /\ ~hw[c].intEnbl
                    /\ run[c].CurBlockNum = 0
                    /\ dpc[c].pc \in {"idle", "event", "test"}
                    /\ isr.pc = "idle" \/ isr.chan # c

LEMMA IsrStartStep ==
  ASSUME TypeOK, HeldAtTwo, StartInv, Isr
  PROVE  StartInv'
<1>0. /\ \A d \in DmaChanMask : /\ hw'[d].intEnbl = hw[d].intEnbl
                                /\ stub'[d].state = stub[d].state
      /\ UNCHANGED <<dpc, op>>
  BY IsrBits
<1>1. CASE IsrScan
  <2>1. PICK c \in DmaChanMask : IntRql(c) /\ isr' = [pc |-> "next", chan |-> c]
    BY <1>1 DEF IsrScan
  <2>2. UNCHANGED run
    BY <1>1 DEF IsrScan, chanVars
  <2> QED
    BY <1>0, <2>1, <2>2 DEF StartInv, Starting, Completing, IntRql
<1>2. CASE IsrNext \/ IsrWrap
  <2> DEFINE c == isr.chan
  <2>1. c \in DmaChanMask /\ isr.pc # "idle"
    BY <1>2 DEF IsrNext, IsrWrap, TypeOK
  <2>2. \A d \in DmaChanMask : d # c => run'[d] = run[d]
    BY <1>2, <2>1 DEF IsrNext, IsrWrap, TypeOK
  <2>3. isr'.chan = isr.chan
    BY <1>2 DEF IsrNext, IsrWrap, TypeOK
  <2> QED
    BY <1>0, <2>1, <2>2, <2>3 DEF StartInv, Starting, Completing
<1>3. CASE IsrClear
  <2>1. isr'.pc = "idle" /\ UNCHANGED run
    BY <1>3 DEF IsrClear, chanVars
  <2> QED
    BY <1>0, <2>1 DEF StartInv, Starting, Completing
<1> QED
  BY <1>1, <1>2, <1>3 DEF Isr

LEMMA DpcStartStep ==
  ASSUME TypeOK, HeldAtTwo, StartInv, NEW c \in DmaChanMask, Dpc(c)
  PROVE  StartInv'
<1>1. /\ \A d \in DmaChanMask \ {c} : dpc'[d] = dpc[d]
      /\ UNCHANGED <<run, isr, op>>
  BY DEF Dpc, DpcCopy, DpcEvent, DpcTest, DpcCtrl, DpcEnbl, DpcIrq, DpcBuffer,
         TypeOK, chanVars
<1>2. CASE DpcCopy(c) \/ DpcEvent(c) \/ DpcBuffer(c)
  <2>1. dpc'[c].pc \in {"idle", "event", "test"} /\ UNCHANGED <<stub, hw>>
    BY <1>2 DEF DpcCopy, DpcEvent, DpcBuffer, TypeOK, chanVars
  <2> QED
    BY <1>1, <2>1 DEF StartInv, Starting, Completing
<1>3. CASE DpcTest(c)
  <2>1. /\ dpc'[c].pc \in {"idle", "ctrl"}
        /\ run[c].CurBlockNum = 0 => dpc'[c].pc = "idle"
    BY <1>3, DmaChanAssumption DEF DpcTest, TypeOK
  <2>2. UNCHANGED <<stub, hw>>
    BY <1>3 DEF DpcTest, chanVars
  <2> QED
    BY <1>1, <2>1, <2>2 DEF StartInv, Starting, Completing
<1>4. CASE DpcCtrl(c)
  <2>1. dpc[c].pc = "ctrl"
    BY <1>4 DEF DpcCtrl
  <2>2. /\ ~hw'[c].intEnbl
        /\ \A d \in DmaChanMask \ {c} : hw'[d] = hw[d]
    BY <1>4, CompleteCtrlBits DEF DpcCtrl
  <2>3. ~Starting(c) /\ UNCHANGED stub
    BY <1>4, <2>1 DEF StartInv, DpcCtrl, chanVars
  <2> QED
    BY <1>1, <2>2, <2>3 DEF StartInv, Starting, Completing
<1>5. CASE DpcEnbl(c)
  <2>1. dpc[c].pc = "enbl" /\ dpc'[c].pc = "irq" /\ UNCHANGED <<stub, hw>>
    BY <1>5 DEF DpcEnbl, TypeOK, chanVars
  <2>2. ~Starting(c) /\ ~hw[c].intEnbl
    BY <2>1 DEF StartInv, Completing
  <2> QED
    BY <1>1, <2>1, <2>2 DEF StartInv, Starting, Completing
<1>6. CASE DpcIrq(c)
  <2>1. dpc[c].pc = "irq" /\ UNCHANGED hw
    BY <1>6 DEF DpcIrq
  <2>2. \A d \in DmaChanMask \ {c} : stub'[d] = stub[d]
    BY <1>6 DEF DpcIrq, CompleteIrq, TypeOK
  <2>3. ~Starting(c) /\ ~hw[c].intEnbl
    BY <2>1 DEF StartInv, Completing
  <2> QED
    BY <1>1, <2>1, <2>2, <2>3 DEF StartInv, Starting, Completing
<1> QED
  BY <1>2, <1>3, <1>4, <1>5, <1>6 DEF Dpc

(* An ioctl call runs when the handler and all tasklets are idle. *)
LEMMA CallAlone ==
  ASSUME OneCpu, TypeOK, CpuForOp
  PROVE  isr.pc = "idle" /\ \A d \in DmaChanMask : dpc[d].pc = "idle"
BY DEF OneCpu, CpuForOp, IsrIdle, DpcIdle

LEMMA CallsStartStep ==
  ASSUME OneCpu, TypeOK, HeldAtTwo, StartInv, Calls
  PROVE  StartInv'
<1>1. /\ op.pc = "idle" /\ isr.pc = "idle" /\ UNCHANGED <<isr, dpc>>
      /\ \A d \in DmaChanMask : dpc[d].pc = "idle"
  BY CallAlone DEF Calls, StartCall, StateCall, DoneCall, ResetCall, Call
<1>2. ASSUME NEW c \in DmaChanMask, NEW cycling \in Modes, StartCall(c, cycling)
      PROVE  StartInv'
  <2>1. op'.pc = "off" /\ op'.chan = c /\ UNCHANGED hw
    BY <1>2 DEF StartCall, Call, NoOp
  <2>2. /\ stub'[c].state = "RUN" /\ run'[c].CurBlockNum = 0
        /\ \A d \in DmaChanMask \ {c} : stub'[d] = stub[d]
    BY <1>2 DEF StartCall, StartStub, StartRun, TypeOK
  <2>3. ~hw[c].intEnbl
    BY <1>2 DEF StartCall, OneCpu, StartInv
  <2> QED
    BY <1>1, <2>1, <2>2, <2>3 DEF StartInv, Starting, Completing
<1>3. ASSUME NEW c \in DmaChanMask,
             \/ DoneCall(c)
             \/ \E name \in Ops, timeout \in Timeouts :
                  StateCall(name, c, timeout)
      PROVE  StartInv'
  <2>1. /\ op'.pc \in {"grab", "stop", "get", "read"}
        /\ UNCHANGED <<stub, run, hw>>
    BY <1>3 DEF DoneCall, StateCall, Call, Waiting, NoOp, chanVars
  <2> QED
    BY <1>1, <2>1 DEF StartInv, Starting, Completing
<1>4. ASSUME NEW c \in DmaChanMask, ResetCall(c)
      PROVE  StartInv'
  <2>1. \A d \in DmaChanMask : hw'[d].intEnbl = hw[d].intEnbl
    <3> DEFINE w == WriteCtrl(hw[c], FALSE)
    <3>1. w.intEnbl = hw[c].intEnbl
      BY HwBits DEF TypeOK
    <3>2. hw' = [hw EXCEPT ![c] = w]
      BY <1>4 DEF ResetCall
    <3> HIDE DEF w
    <3> QED
      BY <3>1, <3>2 DEF TypeOK
  <2>2. UNCHANGED <<chanVars, op>>
    BY <1>4 DEF ResetCall
  <2> QED
    BY <1>1, <2>1, <2>2 DEF StartInv, Starting, Completing, chanVars
<1> QED
  BY <1>2, <1>3, <1>4 DEF Calls

LEMMA CallStepsStartStep ==
  ASSUME OneCpu, TypeOK, HeldAtTwo, StartInv, CallSteps
  PROVE  StartInv'
<1> DEFINE c == op.chan
<1>0. CpuForOp /\ op.pc # "idle" /\ UNCHANGED <<run, isr, dpc>>
  BY DEF CallSteps, At, StartOff, StartEnable, StartOn, Grab, Wakeup, Timeout,
         Clear, StopCtrl, StopEnbl, StopIrq, GetBlock, GetTotal, DoneRead,
         DoneWrite, chanVars
<1>a. isr.pc = "idle" /\ \A d \in DmaChanMask : dpc[d].pc = "idle"
  BY <1>0, CallAlone
<1>b. op \in [name : Ops, chan : DmaChanMask, val : BOOLEAN, pc : OpPcs]
  BY <1>0, OpActive
<1>c. c \in DmaChanMask /\ hw[c] \in Hw /\ Capped(hw[c])
  BY <1>b DEF TypeOK, HeldAtTwo, Capped
<1>g. ASSUME NEW pc, Goto(pc)
      PROVE  op'.pc = pc /\ op'.chan = c
  BY <1>b, <1>g DEF Goto
<1>r. ASSUME Return
      PROVE  op'.pc = "idle"
  BY <1>r DEF Return, NoOp
<1>1. CASE StartOff
  <2> DEFINE h1 == WriteCtrl(hw[c], FALSE)
             h2 == WriteMode(h1, FALSE)
             h3 == WriteFlagClr(h2)
  <2>1. h1 \in Hw /\ Capped(h1)
    BY <1>c, WriteCtrlTypes, Zenon
  <2> HIDE DEF h1
  <2>2. h2 \in Hw /\ h2.intEnbl = FALSE
    BY <2>1, WriteModeTypes, HwBits, Zenon
  <2> HIDE DEF h2
  <2>3. h3.intEnbl = h2.intEnbl
    BY <2>2, HwBits, Zenon
  <2>4. hw' = [hw EXCEPT ![c] = h3]
    BY <1>1 DEF StartOff, h1, h2
  <2> HIDE DEF h3
  <2>5. /\ ~hw'[c].intEnbl
        /\ \A d \in DmaChanMask \ {c} : hw'[d] = hw[d]
    BY <1>c, <2>2, <2>3, <2>4 DEF TypeOK
  <2>6. op.pc = "off" /\ op'.pc = "enable" /\ op'.chan = c /\ UNCHANGED stub
    BY <1>1, <1>g DEF StartOff, At, chanVars
  <2> QED
    BY <1>0, <1>a, <1>c, <2>5, <2>6 DEF StartInv, Starting, Completing
<1>2. CASE StartEnable
  <2>1. op.pc = "enable" /\ op'.pc = "on" /\ op'.chan = c
    BY <1>2, <1>g DEF StartEnable, At
  <2>2. UNCHANGED <<stub, hw>>
    BY <1>2 DEF StartEnable, chanVars
  <2> QED
    BY <1>0, <1>a, <1>c, <2>1, <2>2 DEF StartInv, Starting, Completing
<1>3. CASE StartOn
  <2>1. op.pc = "on" /\ op'.pc = "idle" /\ UNCHANGED stub
    BY <1>3, <1>r DEF StartOn, At, chanVars
  <2>2. \A d \in DmaChanMask \ {c} : hw'[d] = hw[d]
    BY <1>3 DEF StartOn, TypeOK
  <2>3. stub[c].state = "RUN"
    BY <1>c, <2>1 DEF StartInv, Starting
  <2> QED
    BY <1>0, <1>a, <2>1, <2>2, <2>3 DEF StartInv, Starting, Completing
<1>4. CASE \/ Grab \/ Wakeup \/ Timeout \/ Clear \/ GetBlock \/ GetTotal
           \/ DoneRead
  <2> DEFINE v == hw[c].start
  <2>a. DoneRead => op' = [op EXCEPT !.pc = "write", !.val = v]
    BY DEF DoneRead
  <2> HIDE DEF v
  <2>b. DoneRead => op'.pc = "write"
    BY <1>b, <2>a
  <2>c. ~DoneRead => op'.pc \in {"clear", "wait", "stop", "get", "total", "idle"}
    BY <1>4, <1>g, <1>r DEF Grab, Wakeup, Timeout, Clear, GetBlock, GetTotal,
                            AfterWait
  <2>1. op'.pc \in {"clear", "wait", "stop", "get", "total", "idle", "write"}
    BY <2>b, <2>c
  <2>2. UNCHANGED <<stub, hw>>
    BY <1>4 DEF Grab, Wakeup, Timeout, Clear, GetBlock, GetTotal, DoneRead,
                chanVars
  <2> QED
    BY <1>0, <1>a, <2>1, <2>2 DEF StartInv, Starting, Completing
<1>5. CASE StopCtrl
  <2>1. op.pc = "stop" /\ op'.pc = "enbl" /\ op'.chan = c /\ UNCHANGED stub
    BY <1>5, <1>g DEF StopCtrl, At, chanVars
  <2>2. /\ ~hw'[c].intEnbl
        /\ \A d \in DmaChanMask \ {c} : hw'[d] = hw[d]
    BY <1>5, <1>c, CompleteCtrlBits DEF StopCtrl
  <2> QED
    BY <1>0, <1>a, <1>c, <2>1, <2>2 DEF StartInv, Starting, Completing
<1>6. CASE StopEnbl
  <2> DEFINE v == OtherEnbl(c)
  <2>1. op.pc = "enbl" /\ op' = [op EXCEPT !.pc = "irq", !.val = v]
    BY <1>6 DEF StopEnbl, At
  <2> HIDE DEF v
  <2>2. op'.pc = "irq" /\ op'.chan = c /\ UNCHANGED <<stub, hw>>
    BY <1>6, <1>b, <2>1 DEF StopEnbl, chanVars
  <2> QED
    BY <1>0, <1>a, <1>c, <2>1, <2>2 DEF StartInv, Starting, Completing
<1>7. CASE StopIrq
  <2>1. op.pc = "irq" /\ op'.pc = "get" /\ UNCHANGED hw
    BY <1>7, <1>g DEF StopIrq, At
  <2>2. \A d \in DmaChanMask \ {c} : stub'[d] = stub[d]
    BY <1>7, <1>c DEF StopIrq, CompleteIrq, TypeOK
  <2>3. ~hw[c].intEnbl
    BY <1>c, <2>1 DEF StartInv, Completing
  <2> QED
    BY <1>0, <1>a, <1>c, <2>1, <2>2, <2>3 DEF StartInv, Starting, Completing
<1>8. CASE DoneWrite
  <2>1. op.pc = "write" /\ op'.pc = "idle" /\ UNCHANGED stub
    BY <1>8, <1>r DEF DoneWrite, At, chanVars
  <2> DEFINE v == op.val
             w == WriteCtrl(hw[c], v)
  <2>2. v \in BOOLEAN /\ hw[c] \in Hw
    BY <1>b, <1>c
  <2>3. hw' = [hw EXCEPT ![c] = w]
    BY <1>8 DEF DoneWrite
  <2> HIDE DEF v
  <2>4. w.intEnbl = hw[c].intEnbl
    BY <2>2, HwBits
  <2> HIDE DEF w
  <2>5. \A d \in DmaChanMask : hw'[d].intEnbl = hw[d].intEnbl
    BY <1>c, <2>3, <2>4 DEF TypeOK
  <2> QED
    BY <1>0, <1>a, <2>1, <2>5 DEF StartInv, Starting, Completing
<1> QED
  BY <1>1, <1>2, <1>3, <1>4, <1>5, <1>6, <1>7, <1>8 DEF CallSteps

LEMMA StartInit == Init => StartInv
<1> SUFFICES ASSUME Init PROVE StartInv
  OBVIOUS
<1>1. /\ op.pc = "idle"
      /\ \A c \in DmaChanMask : ~hw[c].intEnbl /\ dpc[c].pc = "idle"
  BY DEF Init, NoOp, NewHw
<1> QED
  BY <1>1 DEF StartInv, Starting, Completing

LEMMA StartStep ==
  ASSUME OneCpu, TypeOK, HeldAtTwo, StartInv, [Next]_vars
  PROVE  StartInv'
<1>1. ASSUME NEW c \in DmaChanMask, HwBlockEnd(c)
      PROVE  StartInv'
  BY <1>1, HwBlockEndBits DEF StartInv, Starting, Completing, chanVars
<1>2. ASSUME NEW c \in DmaChanMask, Dpc(c)
      PROVE  StartInv'
  BY <1>2, DpcStartStep
<1>3. CASE Isr
  BY <1>3, IsrStartStep
<1>4. CASE Calls
  BY <1>4, CallsStartStep
<1>5. CASE CallSteps
  BY <1>5, CallStepsStartStep
<1>6. CASE UNCHANGED vars
  BY <1>6 DEF StartInv, Starting, Completing, vars, chanVars
<1> QED
  BY <1>1, <1>2, <1>3, <1>4, <1>5, <1>6 DEF Next

(* The races of IrqUnlessOvertaken need several CPUs, or a START of a       *)
(* channel that runs.                                                       *)
LEMMA InTimeOnOneCpu ==
  ASSUME OneCpu, TypeOK, StartInv
  PROVE  EnblInTime
<1>1. ~StartInCompletion
  BY OpActive DEF StartInCompletion, StartInv, Starting
<1>2. ~StartInScan
  BY CallAlone DEF StartInScan, At
<1> QED
  BY <1>1, <1>2 DEF EnblInTime

LEMMA IrqOnOneCpu == OneCpu /\ Spec => []IrqEnabled
<1> SUFFICES ASSUME OneCpu PROVE Spec => []IrqEnabled
  OBVIOUS
<1>1. TypeOK /\ HeldAtTwo /\ StartInv /\ [Next]_vars => StartInv'
  BY StartStep
<1>2. TypeOK /\ StartInv => ~(StartInCompletion \/ StartInScan)
  BY InTimeOnOneCpu DEF EnblInTime
<1>3. Spec => [](TypeOK /\ HeldAtTwo)
  BY TypeCorrect
<1> QED
  BY <1>1, <1>2, <1>3, StartInit, IrqAlwaysEnabled, PTL
     DEF Spec, IrqUnlessOvertaken

(* Without DONE calls no call is about to write DMA_CTRL back, so HaltInv   *)
(* holds on one CPU without a proviso.                                      *)
NoDone == op.pc \notin {"read", "write"}

LEMMA NoDoneStep ==
  ASSUME "done" \notin Ops, TypeOK, NoDone, [Next]_vars
  PROVE  NoDone'
<1>1. ASSUME NEW c \in DmaChanMask, HwBlockEnd(c) \/ Dpc(c)
      PROVE  op' = op
  BY <1>1 DEF HwBlockEnd, Dpc, DpcCopy, DpcEvent, DpcTest, DpcCtrl, DpcEnbl,
              DpcIrq, DpcBuffer
<1>2. CASE Isr
  BY <1>2 DEF NoDone, Isr, IsrScan, IsrNext, IsrWrap, IsrClear
<1>3. CASE Calls
  <2>1. ASSUME NEW c \in DmaChanMask, NEW cycling \in Modes, StartCall(c, cycling)
        PROVE  NoDone'
    BY <2>1 DEF NoDone, StartCall, Call, NoOp
  <2>2. ASSUME NEW c \in DmaChanMask, NEW name \in Ops, NEW timeout \in Timeouts,
               StateCall(name, c, timeout)
        PROVE  NoDone'
    BY <2>2 DEF NoDone, StateCall, Call, Waiting, NoOp
  <2>3. ASSUME NEW c \in DmaChanMask, DoneCall(c)
        PROVE  FALSE
    BY <2>3 DEF DoneCall, Call
  <2>4. ASSUME NEW c \in DmaChanMask, ResetCall(c)
        PROVE  NoDone'
    BY <2>4 DEF ResetCall, NoDone
  <2> QED
    BY <1>3, <2>1, <2>2, <2>3, <2>4 DEF Calls
<1>4. CASE CallSteps
  <2>1. op.pc # "idle" /\ ~DoneRead /\ ~DoneWrite
    BY <1>4 DEF NoDone, CallSteps, At, StartOff, StartEnable, StartOn, Grab,
                Wakeup, Timeout, Clear, StopCtrl, StopEnbl, StopIrq, GetBlock,
                GetTotal, DoneRead, DoneWrite
  <2>2. op \in [name : Ops, chan : DmaChanMask, val : BOOLEAN, pc : OpPcs]
    BY <2>1, OpActive
  <2>3. CASE StopEnbl
    <3> DEFINE v == OtherEnbl(op.chan)
    <3>1. op' = [op EXCEPT !.pc = "irq", !.val = v]
      BY <2>3 DEF StopEnbl
    <3> HIDE DEF v
    <3> QED
      BY <2>2, <3>1 DEF NoDone
  <2>4. CASE StartOn \/ GetTotal
    <3>1. op' = NoOp
      BY <2>4 DEF StartOn, GetTotal, Return
    <3> QED
      BY <3>1 DEF NoDone, NoOp
  <2>5. CASE \/ StartOff \/ StartEnable \/ Grab \/ Wakeup \/ Timeout \/ Clear
             \/ StopCtrl \/ StopIrq \/ GetBlock
    <3>1. ASSUME NEW pc, Goto(pc)
          PROVE  op'.pc = pc
      BY <2>2, <3>1 DEF Goto
    <3> QED
      BY <2>5, <3>1 DEF NoDone, StartOff, StartEnable, Grab, Wakeup, Timeout,
                        Clear, StopCtrl, StopIrq, GetBlock, AfterWait
  <2> QED
    BY <1>4, <2>1, <2>3, <2>4, <2>5 DEF CallSteps
<1>5. CASE UNCHANGED vars
  BY <1>5 DEF NoDone, vars
<1> QED
  BY <1>1, <1>2, <1>3, <1>4, <1>5 DEF Next, NoDone

(* What the rest of the proofs on one CPU needs, with its step.             *)
OneCpuInv == StartInv /\ HaltInv /\ NoDone

LEMMA OneCpuInit == Init => OneCpuInv
BY StartInit, EnblHaltInit DEF OneCpuInv, NoDone, Init, NoOp

LEMMA OneCpuStep ==
  ASSUME OneCpu, "done" \notin Ops, TypeOK, HeldAtTwo, OneCpuInv, [Next]_vars
  PROVE  OneCpuInv'
<1>1. HaltInTime
  BY InTimeOnOneCpu
     DEF OneCpuInv, NoDone, EnblInTime, HaltInTime, DoneOvertaken
<1> QED
  BY <1>1, StartStep, NoDoneStep, EnblHaltStep DEF OneCpuInv

-----------------------------------------------------------------------------
(* A call that took the block event goes on to read the state.              *)
LEMMA WakeupStep ==
  ASSUME TypeOK, NoLostWakeup, [Next]_vars
  PROVE  NoLostWakeup'
<1> SUFFICES ASSUME NEW c \in DmaChanMask, unseen'[c]
             PROVE  \/ BlockEnd'[c]
                    \/ dpc'[c].pc = "event"
                    \/ op'.chan = c /\ op'.pc \in {"stop", "enbl", "irq", "get"}
  BY DEF NoLostWakeup
<1>o. unseen[c] => \/ BlockEnd[c] \/ dpc[c].pc = "event"
                   \/ op.chan = c /\ op.pc \in {"stop", "enbl", "irq", "get"}
  BY DEF NoLostWakeup
<1>1. ASSUME NEW d \in DmaChanMask, HwBlockEnd(d)
      PROVE  UNCHANGED <<unseen, BlockEnd, dpc, op>>
  BY <1>1 DEF HwBlockEnd, eventVars
<1>2. CASE UNCHANGED <<unseen, BlockEnd, dpc, op>>
  BY <1>2, <1>o
<1>3. ASSUME NEW d \in DmaChanMask, Dpc(d)
      PROVE  \/ BlockEnd'[c] \/ dpc'[c].pc = "event"
             \/ op'.chan = c /\ op'.pc \in {"stop", "enbl", "irq", "get"}
  <2>1. CASE DpcCopy(d)
    BY <2>1, <1>o DEF DpcCopy, eventVars, TypeOK
  <2>2. CASE DpcEvent(d)
    BY <2>2, <1>o DEF DpcEvent, TypeOK
  <2>3. CASE DpcTest(d) \/ DpcCtrl(d) \/ DpcEnbl(d) \/ DpcIrq(d) \/ DpcBuffer(d)
    <3>1. /\ UNCHANGED <<unseen, BlockEnd, op>> /\ dpc[d].pc # "event"
          /\ \A b \in DmaChanMask \ {d} : dpc'[b] = dpc[b]
      BY <2>3 DEF DpcTest, DpcCtrl, DpcEnbl, DpcIrq, DpcBuffer, eventVars, TypeOK
    <3> QED BY <3>1, <1>o
  <2> QED BY <1>3, <2>1, <2>2, <2>3 DEF Dpc
<1>4. Isr => UNCHANGED <<unseen, BlockEnd, dpc, op>>
  BY DEF Isr, IsrScan, IsrNext, IsrWrap, IsrClear, eventVars
<1>5. Calls => UNCHANGED <<unseen, BlockEnd, dpc>> /\ op.pc = "idle"
  BY DEF Calls, StartCall, StateCall, DoneCall, ResetCall, Call, eventVars
<1>6. ASSUME CallSteps
      PROVE  \/ BlockEnd'[c] \/ dpc'[c].pc = "event"
             \/ op'.chan = c /\ op'.pc \in {"stop", "enbl", "irq", "get"}
  <2>0. dpc' = dpc
    BY <1>6 DEF CallSteps, StartOff, StartEnable, StartOn, Grab, Wakeup, Timeout, Clear, StopCtrl,
       StopEnbl, StopIrq, GetBlock, GetTotal, DoneRead, DoneWrite
  <2>a. op.pc # "idle"
    BY <1>6 DEF CallSteps, At, StartOff, StartEnable, StartOn, Grab, Wakeup, Timeout, Clear,
       StopCtrl, StopEnbl, StopIrq, GetBlock, GetTotal, DoneRead, DoneWrite
  <2>b. op \in [name : Ops, chan : DmaChanMask, val : BOOLEAN, pc : OpPcs]
    BY <2>a, OpActive
  <2>g. ASSUME NEW pc, Goto(pc)
        PROVE  op'.pc = pc /\ op'.chan = op.chan
    BY <2>b, <2>g DEF Goto
  <2>1. CASE Clear
    <3>1. op'.pc \in {"stop", "get"} /\ op'.chan = op.chan /\ op.pc = "clear" /\ unseen' = unseen
      BY <2>1, <2>g DEF Clear, AfterWait, At
    <3>2. op.chan # c => BlockEnd'[c] = BlockEnd[c]
      BY <2>1 DEF Clear, SetFlag, TypeOK
    <3> QED BY <3>1, <3>2, <2>0, <1>o
  <2>2. CASE StopCtrl \/ StopIrq
    <3>1. /\ op'.pc \in {"enbl", "get"} /\ op'.chan = op.chan /\ unseen' = unseen
          /\ BlockEnd' = BlockEnd
      BY <2>2, <2>g DEF StopCtrl, StopIrq, eventVars
    <3> QED BY <3>1, <2>0, <1>o
  <2>3. CASE StopEnbl
    <3> DEFINE v == OtherEnbl(op.chan)
    <3>1. op' = [op EXCEPT !.pc = "irq", !.val = v] /\ unseen' = unseen /\ BlockEnd' = BlockEnd
      BY <2>3 DEF StopEnbl, eventVars
    <3> HIDE DEF v
    <3>2. op'.pc = "irq" /\ op'.chan = op.chan
      BY <3>1, <2>b
    <3> QED BY <3>1, <3>2, <2>0, <1>o
  <2>4. CASE GetBlock
    BY <2>4, <2>0, <2>b, <1>o DEF GetBlock, eventVars, TypeOK
  <2>5. CASE \/ StartOff \/ StartEnable \/ StartOn \/ Grab \/ Wakeup \/ Timeout \/ GetTotal
             \/ DoneRead \/ DoneWrite
    <3>1. unseen' = unseen /\ BlockEnd' = BlockEnd /\ op.pc \notin {"stop", "enbl", "irq", "get"}
      BY <2>5 DEF StartOff, StartEnable, StartOn, Grab, Wakeup, Timeout, GetTotal, DoneRead,
         DoneWrite, At, eventVars
    <3> QED BY <3>1, <2>0, <1>o
  <2> QED BY <1>6, <2>1, <2>2, <2>3, <2>4, <2>5 DEF CallSteps
<1>7. CASE UNCHANGED vars
  BY <1>7, <1>2 DEF vars, eventVars
<1> QED BY <1>o, <1>1, <1>2, <1>3, <1>4, <1>5, <1>6, <1>7 DEF Next

(* No block end is lost to a client that waits for it: handler, tasklets    *)
(* and calls on any number of CPUs.                                         *)
THEOREM NoWakeupIsLost == Spec => []NoLostWakeup
<1>1. Init => NoLostWakeup
  BY DEF Init, NoLostWakeup
<1>2. TypeOK /\ NoLostWakeup /\ [Next]_vars => NoLostWakeup'
  BY WakeupStep
<1>3. Spec => [](TypeOK /\ HeldAtTwo)
  BY TypeCorrect
<1> QED BY <1>1, <1>2, <1>3, PTL DEF Spec

-----------------------------------------------------------------------------
(* The counters of a running channel: CurBlockNum and BlocksRemaining add   *)
(* up to the buffer, lastBlock is the block before CurBlockNum, and between *)
(* two interrupts a cyclic channel's CurBlockNum is inside the buffer.      *)
Wrapping(c) == isr.pc = "wrap" /\ isr.chan = c
Counted(c) ==
  LET r == run[c] IN
  /\ r.CurBlockNum <= BlockCount
  /\ r.BlocksRemaining = BlockCount - r.CurBlockNum
  /\ r.DmaCycling => r.CurBlockNum < BlockCount \/ Wrapping(c)
  /\ \/ r.CurBlockNum = 0 /\ stub[c].lastBlock \in {MinusOne, BlockCount - 1}
     \/ r.CurBlockNum > 0 /\ stub[c].lastBlock = r.CurBlockNum - 1

(* Where the channel is in the descriptor chain: RingAgreement without the  *)
(* products.                                                                *)
Placed(c) ==
  LET n == run[c].CurBlockNum + hw[c].pending - Taken(c) IN
  /\ \/ hw[c].pos = n
     \/ /\ run[c].DmaCycling
        /\ hw[c].pos + BlockCount = n \/ hw[c].pos + BlockCount + BlockCount = n
  /\ run[c].DmaCycling => hw[c].pos < BlockCount

ChanInv(c) ==
  /\ hw[c].pending > 0 => hw[c].start
  /\ isr.pc # "idle" /\ isr.chan = c => hw[c].pending > 0
  /\ Starting(c) => ~hw[c].start
  /\ dpc[c].pc = "ctrl" => run[c].CurBlockNum >= BlockCount
  /\ hw[c].start \/ Starting(c) => Counted(c)
  /\ hw[c].start => Placed(c)

RingInv == \A c \in DmaChanMask : ChanInv(c)

(* What the arithmetic below takes from the types. *)
LEMMA ChanNumbers ==
  ASSUME TypeOK, NEW c \in DmaChanMask
  PROVE  /\ hw[c] \in Hw /\ hw[c].pending \in 0 .. 2 /\ hw[c].pos \in 0 .. BlockCount
         /\ hw[c].start \in BOOLEAN
         /\ run[c] \in Run /\ run[c].CurBlockNum \in Nat /\ run[c].BlocksRemaining \in Nat
         /\ run[c].DmaCycling \in BOOLEAN
         /\ stub[c] \in Stub /\ stub[c].lastBlock \in Nat
         /\ BlockCount \in Nat /\ BlockCount > 0 /\ Word \in Nat /\ Word > BlockCount + 1
BY DmaChanAssumption DEF TypeOK, Hw, Run, Stub, U32

(* A channel that a step does not touch keeps its invariant ...             *)
LEMMA Kept ==
  ASSUME TypeOK, NEW c \in DmaChanMask, ChanInv(c),
         /\ hw'[c].pending = hw[c].pending /\ hw'[c].pos = hw[c].pos
         /\ hw'[c].start = hw[c].start,
         run'[c] = run[c], stub'[c].lastBlock = stub[c].lastBlock,
         \/ isr' = isr
         \/ isr.pc = "idle" /\ isr'.chan # c
         \/ isr.chan # c /\ (isr'.pc = "idle" \/ isr'.chan = isr.chan),
         dpc'[c].pc = "ctrl" => dpc[c].pc = "ctrl",
         op' = op \/ op'.pc \notin {"off", "enable", "on"} \/ op'.chan # c \/ Starting(c)
  PROVE  ChanInv(c)'
<1>1. (isr.pc # "idle" /\ isr.chan = c) <=> (isr'.pc # "idle" /\ isr'.chan = c)
  OBVIOUS
<1>2. Taken(c)' = Taken(c) /\ (Wrapping(c)' <=> Wrapping(c)) /\ (Starting(c)' => Starting(c))
  BY DEF Taken, Wrapping, Starting
<1>3. Counted(c) => Counted(c)'
  BY <1>2 DEF Counted
<1>4. Placed(c) => Placed(c)'
  BY <1>2 DEF Placed
<1> QED BY <1>1, <1>2, <1>3, <1>4 DEF ChanInv

(* ... and one that is switched off has little left to keep.                *)
LEMMA SwitchedOff ==
  ASSUME TypeOK, NEW c \in DmaChanMask, ChanInv(c), isr.pc = "idle",
         ~hw'[c].start, hw'[c].pending = 0,
         UNCHANGED <<run, stub, isr>>, dpc'[c].pc # "ctrl", Starting(c)' => Starting(c)
  PROVE  ChanInv(c)'
<1>1. Counted(c) => Counted(c)'
  BY DEF Counted, Wrapping
<1> QED BY <1>1 DEF ChanInv

LEMMA HwCounts ==
  ASSUME NEW h \in Hw
  PROVE  /\ WriteCtrl(h, FALSE).pending = 0
         /\ WriteCtrl(h, TRUE).pending = h.pending
         /\ WriteCtrl(h, TRUE).pos = IF h.start THEN h.pos ELSE 0
         /\ \A v \in BOOLEAN : WriteMode(h, v).pending = h.pending /\ WriteMode(h, v).pos = h.pos
         /\ WriteFlagClr(h).pending = IF h.pending = 0 THEN 0 ELSE h.pending - 1
         /\ WriteFlagClr(h).pos = h.pos
<1>1. WriteCtrl(h, FALSE).pending = 0
  BY DEF WriteCtrl, Hw
<1>2. /\ WriteCtrl(h, TRUE).pending = h.pending
      /\ WriteCtrl(h, TRUE).pos = IF h.start THEN h.pos ELSE 0
  <2> DEFINE q == IF h.start THEN h.pos ELSE 0
             w == [h EXCEPT !.start = TRUE, !.pos = q]
  <2>1. WriteCtrl(h, TRUE) = w
    BY DEF WriteCtrl
  <2> HIDE DEF q
  <2>2. w.pending = h.pending /\ w.pos = q
    BY DEF Hw
  <2> QED BY <2>1, <2>2 DEF q
<1>3. \A v \in BOOLEAN : WriteMode(h, v).pending = h.pending /\ WriteMode(h, v).pos = h.pos
  BY DEF WriteMode, Hw
<1>4. /\ WriteFlagClr(h).pending = IF h.pending = 0 THEN 0 ELSE h.pending - 1
      /\ WriteFlagClr(h).pos = h.pos
  <2>1. CASE h.pending = 0
    BY <2>1 DEF WriteFlagClr
  <2>2. CASE h.pending # 0
    <3> DEFINE p == h.pending - 1
               b == h.held /\ h.pending > 1
               w == [h EXCEPT !.pending = p, !.held = b]
    <3>1. WriteFlagClr(h) = w
      BY <2>2 DEF WriteFlagClr
    <3> HIDE DEF p, b
    <3>2. w.pending = p /\ w.pos = h.pos
      BY DEF Hw
    <3> QED BY <2>2, <3>1, <3>2 DEF p
  <2> QED BY <2>1, <2>2
<1> QED BY <1>1, <1>2, <1>3, <1>4

(* The channel fills a block: one more announced, one place further.        *)
LEMMA EndRingStep ==
  ASSUME OneCpu, TypeOK, HeldAtTwo, RingInv, NEW c \in DmaChanMask, HwBlockEnd(c)
  PROVE  RingInv'
<1> DEFINE h == hw[c]
           p == h.pending + 1
           b == h.pending = 1
           q == IF h.pos + 1 = BlockCount /\ run[c].DmaCycling
                THEN 0 ELSE h.pos + 1
           w == [h EXCEPT !.pending = p, !.held = b, !.pos = q]
<1>1. h \in Hw /\ h.start /\ ~h.held /\ h.pos < BlockCount
  BY DEF TypeOK, HwBlockEnd
<1>2. hw' = [hw EXCEPT ![c] = w]
  BY DEF HwBlockEnd
<1>3. h.pending # 2
  BY <1>1 DEF HeldAtTwo
<1>4. /\ p = hw[c].pending + 1 /\ p <= 2 /\ p \in Nat /\ q \in Nat
      /\ \/ q = hw[c].pos + 1
         \/ q = 0 /\ hw[c].pos + 1 = BlockCount /\ run[c].DmaCycling
      /\ run[c].DmaCycling => q < BlockCount
  BY <1>1, <1>3, ChanNumbers
<1> HIDE DEF p, b, q
<1>5. w.pending = p /\ w.pos = q /\ w.start = h.start
  BY <1>1 DEF Hw
<1> HIDE DEF w
<1>6. hw'[c].pending = p /\ hw'[c].pos = q /\ hw'[c].start
  BY <1>1, <1>2, <1>5 DEF TypeOK
<1>7. \A d \in DmaChanMask \ {c} : hw'[d] = hw[d]
  BY <1>2 DEF TypeOK
<1>8. UNCHANGED <<chanVars, isr, dpc, op>>
  BY DEF HwBlockEnd
<1>9. ChanInv(c)'
  <2>1. ChanInv(c) /\ hw[c].start
    BY <1>1 DEF RingInv
  <2>2. Counted(c) /\ Placed(c) /\ ~Starting(c)
    BY <2>1 DEF ChanInv
  <2>3. Counted(c)'
    BY <2>2, <1>8 DEF Counted, Wrapping, chanVars
  <2>4. run' = run /\ Taken(c)' = Taken(c) /\ Taken(c) \in {0, 1}
        /\ (Taken(c) = 0 => ~Wrapping(c))
    BY <1>8 DEF Taken, chanVars, Wrapping
  <2>5. Placed(c)'
    <3>1. CASE run[c].DmaCycling
      <4> DEFINE n == run[c].CurBlockNum + p - Taken(c)
      <4>1. n \in Int /\ n <= BlockCount + 1
        BY <3>1, <2>2, <2>4, <1>4, ChanNumbers DEF Counted
      <4>2. \/ hw[c].pos + 1 = n \/ hw[c].pos + 1 + BlockCount = n
            \/ hw[c].pos + 1 + BlockCount + BlockCount = n
        <5> DEFINE m == run[c].CurBlockNum + hw[c].pending - Taken(c)
        <5>1. m \in Int /\ n = m + 1
          BY <2>4, <1>4, ChanNumbers, SMTT(30)
        <5>2. \/ hw[c].pos = m \/ hw[c].pos + BlockCount = m
              \/ hw[c].pos + BlockCount + BlockCount = m
          BY <2>2 DEF Placed
        <5> HIDE DEF m, n
        <5> QED BY <5>1, <5>2, ChanNumbers
      <4>3. n = run'[c].CurBlockNum + hw'[c].pending - Taken(c)'
        BY <2>4, <1>6
      <4> HIDE DEF n
      <4>4. q = n \/ q + BlockCount = n \/ q + BlockCount + BlockCount = n
        BY <4>1, <4>2, <1>4, ChanNumbers
      <4> QED BY <3>1, <4>3, <4>4, <2>4, <1>4, <1>6 DEF Placed
    <3>2. CASE ~run[c].DmaCycling
      BY <3>2, <2>2, <2>4, <1>4, <1>6, ChanNumbers DEF Placed
    <3> QED BY <3>1, <3>2
  <2> QED BY <2>1, <2>2, <2>3, <2>5, <1>4, <1>6, <1>8, ChanNumbers
          DEF ChanInv, Starting, chanVars
<1>10. ASSUME NEW d \in DmaChanMask, d # c
       PROVE  ChanInv(d)'
  BY <1>10, <1>7, <1>8, Kept DEF RingInv, chanVars
<1> QED BY <1>9, <1>10 DEF RingInv

(* The handler counts one block of one channel, acknowledges it and wraps   *)
(* round.                                                                   *)
LEMMA IsrRingStep ==
  ASSUME OneCpu, TypeOK, HeldAtTwo, RingInv, Isr
  PROVE  RingInv'
<1>d. UNCHANGED <<dpc, op>> /\ \A c \in DmaChanMask : dpc[c].pc = "idle"
  BY DEF OneCpu, Isr, IsrScan, IsrNext, IsrWrap, IsrClear, CpuForIsr, DpcIdle
<1>1. CASE IsrScan
  <2>1. PICK c \in DmaChanMask : IntRql(c) /\ isr' = [pc |-> "next", chan |-> c]
    BY <1>1 DEF IsrScan
  <2>2. isr.pc = "idle" /\ UNCHANGED <<stub, run, hw>>
    BY <1>1 DEF IsrScan, IsrIdle, chanVars
  <2>3. ASSUME NEW d \in DmaChanMask, d # c
        PROVE  ChanInv(d)'
    BY <2>1, <2>2, <2>3, <1>d, Kept DEF RingInv
  <2>4. ChanInv(c)'
    <3>1. ChanInv(c) /\ hw[c].pending > 0
      BY <2>1 DEF RingInv, IntRql
    <3>2. Taken(c)' = Taken(c) /\ ~Wrapping(c)' /\ ~Wrapping(c)
      BY <2>1, <2>2 DEF Taken, Wrapping
    <3>3. Counted(c) => Counted(c)'
      BY <3>2, <2>2 DEF Counted
    <3>4. Placed(c) => Placed(c)'
      BY <3>2, <2>2 DEF Placed
    <3> QED BY <3>1, <3>3, <3>4, <2>2, <1>d DEF ChanInv, Starting
  <2> QED BY <2>3, <2>4 DEF RingInv
<1>2. CASE IsrNext
  <2>0. PICK c \in DmaChanMask : isr.chan = c
    BY <1>2 DEF IsrNext, TypeOK
  <2>1. isr.chan = c /\ isr.pc = "next"
    BY <1>2, <2>0 DEF IsrNext, TypeOK
  <2>2. /\ isr'.pc = "wrap" /\ isr'.chan = c /\ hw' = hw
        /\ stub' = [stub EXCEPT ![c] = NextStub(stub[c])]
        /\ run' = [run EXCEPT ![c] = NextRun(run[c])]
    BY <1>2, <2>0 DEF IsrNext, TypeOK
  <2>3. ASSUME NEW d \in DmaChanMask, d # c
        PROVE  ChanInv(d)'
    <3>1. run'[d] = run[d] /\ stub'[d] = stub[d]
      BY <2>2, <2>3 DEF TypeOK
    <3> QED BY <3>1, <2>1, <2>2, <2>3, <1>d, Kept DEF RingInv
  <2>4. ChanInv(c)'
    <3>1. ChanInv(c) /\ hw[c].pending > 0 /\ hw[c].start
      BY <2>1 DEF RingInv, ChanInv
    <3>2. Counted(c) /\ Placed(c) /\ ~Starting(c)
      BY <3>1 DEF ChanInv
    <3>3. Taken(c) = 0 /\ Taken(c)' = 1 /\ ~Wrapping(c) /\ Wrapping(c)'
      BY <2>1, <2>2 DEF Taken, Wrapping
    <3>4. run[c].CurBlockNum < BlockCount
      BY <3>1, <3>2, <3>3, ChanNumbers, <2>1 DEF Counted, Placed
    <3>5. /\ Inc(run[c].CurBlockNum) = run[c].CurBlockNum + 1
          /\ Dec(run[c].BlocksRemaining) = BlockCount - (run[c].CurBlockNum + 1)
      BY <3>2, <3>4, ChanNumbers, <2>1 DEF Counted, Inc, Dec
    <3>6. /\ run'[c].CurBlockNum = run[c].CurBlockNum + 1
          /\ run'[c].BlocksRemaining = BlockCount - (run[c].CurBlockNum + 1)
          /\ run'[c].DmaCycling = run[c].DmaCycling
      BY <3>5, <2>1, <2>2, ChanNumbers DEF NextRun, Run, TypeOK
    <3>7. stub'[c].lastBlock = run[c].CurBlockNum
      <4>1. stub'[c].lastBlock = IF Inc(stub[c].lastBlock) >= BlockCount THEN 0
                                 ELSE Inc(stub[c].lastBlock)
        BY <2>1, <2>2, ChanNumbers DEF NextStub, Stub, TypeOK
      <4>2. CASE run[c].CurBlockNum = 0 /\ stub[c].lastBlock = MinusOne
        BY <4>1, <4>2, ChanNumbers, <2>1 DEF Inc, MinusOne
      <4>3. CASE run[c].CurBlockNum = 0 /\ stub[c].lastBlock = BlockCount - 1
        BY <4>1, <4>3, ChanNumbers, <2>1 DEF Inc
      <4>4. CASE run[c].CurBlockNum > 0 /\ stub[c].lastBlock = run[c].CurBlockNum - 1
        BY <4>1, <4>4, <3>4, ChanNumbers, <2>1 DEF Inc
      <4> QED BY <4>2, <4>3, <4>4, <3>2 DEF Counted
    <3>8. Counted(c)'
      BY <3>3, <3>4, <3>6, <3>7, ChanNumbers, <2>1 DEF Counted
    <3>9. Placed(c)'
      BY <3>2, <3>3, <3>6, <2>2, ChanNumbers, <2>1 DEF Placed
    <3> QED BY <3>1, <3>2, <3>8, <3>9, <2>2, <1>d DEF ChanInv, Starting
  <2> QED BY <2>3, <2>4 DEF RingInv
<1>3. CASE IsrWrap
  <2>0. PICK c \in DmaChanMask : isr.chan = c
    BY <1>3 DEF IsrWrap, TypeOK
  <2>1. isr.chan = c /\ isr.pc = "wrap"
    BY <1>3, <2>0 DEF IsrWrap, TypeOK
  <2>2. /\ isr'.pc = "clear" /\ isr'.chan = c /\ hw' = hw /\ stub' = stub
        /\ run' = [run EXCEPT ![c] = WrapRun(run[c])]
    BY <1>3, <2>0 DEF IsrWrap, TypeOK
  <2>3. ASSUME NEW d \in DmaChanMask, d # c
        PROVE  ChanInv(d)'
    <3>1. run'[d] = run[d]
      BY <2>2, <2>3 DEF TypeOK
    <3> QED BY <3>1, <2>1, <2>2, <2>3, <1>d, Kept DEF RingInv
  <2>4. ChanInv(c)'
    <3>1. ChanInv(c) /\ hw[c].pending > 0 /\ hw[c].start
      BY <2>1 DEF RingInv, ChanInv
    <3>2. Counted(c) /\ Placed(c) /\ ~Starting(c)
      BY <3>1 DEF ChanInv
    <3>3. Taken(c) = 1 /\ Taken(c)' = 1 /\ ~Wrapping(c)'
      BY <2>1, <2>2 DEF Taken, Wrapping
    <3>4. CASE run[c].BlocksRemaining = 0 /\ run[c].DmaCycling
      <4>1. /\ run'[c].CurBlockNum = 0 /\ run'[c].BlocksRemaining = BlockCount
            /\ run'[c].DmaCycling
        BY <3>4, <2>1, <2>2, ChanNumbers DEF WrapRun, Run, TypeOK
      <4>2. run[c].CurBlockNum = BlockCount
        BY <3>2, <3>4, ChanNumbers, <2>1 DEF Counted
      <4>3. Counted(c)'
        BY <4>1, <4>2, <3>2, <2>2, ChanNumbers, <2>1 DEF Counted
      <4>4. Placed(c)'
        <5> DEFINE n == hw[c].pending - 1
        <5>1. /\ n \in Nat /\ hw[c].pos < BlockCount
              /\ hw[c].pos \in {n + BlockCount, n, n - BlockCount}
          BY <4>2, <3>1, <3>2, <3>3, <3>4, ChanNumbers DEF Placed
        <5>2. n = run'[c].CurBlockNum + hw'[c].pending - Taken(c)' /\ hw'[c].pos = hw[c].pos
          BY <4>1, <3>3, <2>2, ChanNumbers
        <5> HIDE DEF n
        <5>3. hw[c].pos = n \/ hw[c].pos + BlockCount = n
          BY <5>1, ChanNumbers
        <5> QED BY <5>1, <5>2, <5>3, <4>1 DEF Placed
      <4> QED BY <3>1, <3>2, <4>3, <4>4, <2>2, <1>d DEF ChanInv, Starting
    <3>5. CASE ~(run[c].BlocksRemaining = 0 /\ run[c].DmaCycling)
      <4>1. run'[c] = run[c]
        BY <3>5, <2>1, <2>2 DEF WrapRun, TypeOK
      <4>2. run[c].DmaCycling => run[c].CurBlockNum < BlockCount
        BY <3>2, <3>5, ChanNumbers, <2>1 DEF Counted
      <4>3. Counted(c)'
        BY <4>1, <4>2, <3>2, <2>2 DEF Counted
      <4>4. Placed(c)'
        BY <4>1, <3>2, <3>3, <2>2 DEF Placed
      <4> QED BY <3>1, <3>2, <4>3, <4>4, <2>2, <1>d DEF ChanInv, Starting
    <3> QED BY <3>4, <3>5
  <2> QED BY <2>3, <2>4 DEF RingInv
<1>4. CASE IsrClear
  <2>0. PICK c \in DmaChanMask : isr.chan = c
    BY <1>4 DEF IsrClear, TypeOK
  <2> DEFINE w == WriteFlagClr(hw[c])
  <2>1. isr.chan = c /\ isr.pc = "clear" /\ hw[c] \in Hw
    BY <1>4, <2>0 DEF IsrClear, TypeOK
  <2>2. isr'.pc = "idle" /\ UNCHANGED <<stub, run>> /\ hw' = [hw EXCEPT ![c] = w]
    BY <1>4, <2>0 DEF IsrClear, chanVars
  <2>5. /\ w.pending = IF hw[c].pending = 0 THEN 0 ELSE hw[c].pending - 1
        /\ w.pos = hw[c].pos /\ w.start = hw[c].start
    BY <2>1, HwCounts, HwBits
  <2> HIDE DEF w
  <2>6. hw'[c] = w /\ \A d \in DmaChanMask \ {c} : hw'[d] = hw[d]
    BY <2>1, <2>2 DEF TypeOK
  <2>3. ASSUME NEW d \in DmaChanMask, d # c
        PROVE  ChanInv(d)'
    BY <2>1, <2>2, <2>3, <2>6, <1>d, Kept DEF RingInv
  <2>4. ChanInv(c)'
    <3>1. ChanInv(c) /\ hw[c].pending > 0 /\ hw[c].start
      BY <2>1 DEF RingInv, ChanInv
    <3>2. Counted(c) /\ Placed(c) /\ ~Starting(c)
      BY <3>1 DEF ChanInv
    <3>3. Taken(c) = 1 /\ Taken(c)' = 0 /\ ~Wrapping(c) /\ ~Wrapping(c)'
      BY <2>1, <2>2 DEF Taken, Wrapping
    <3>4. Counted(c)'
      BY <3>2, <3>3, <2>2 DEF Counted
    <3>5. hw'[c].pending = hw[c].pending - 1 /\ hw'[c].pos = hw[c].pos /\ hw'[c].start
      <4>1. hw[c].pending # 0
        BY <3>1, ChanNumbers
      <4>2. w.pending = hw[c].pending - 1
        BY <4>1, <2>5
      <4>3. w.start
        BY <3>1, <2>5
      <4> QED BY <4>2, <4>3, <2>5, <2>6
    <3>6. Placed(c)'
      BY <3>2, <3>3, <3>5, <2>2, ChanNumbers, <2>1 DEF Placed
    <3> QED BY <3>1, <3>2, <3>4, <3>5, <3>6, <2>2, <1>d DEF ChanInv, Starting
  <2> QED BY <2>3, <2>4 DEF RingInv
<1> QED BY <1>1, <1>2, <1>3, <1>4 DEF Isr

(* Tasklets look at the counters only; the one that completes a channel     *)
(* switches it off.                                                         *)
LEMMA DpcRingStep ==
  ASSUME OneCpu, TypeOK, HeldAtTwo, RingInv, NEW c \in DmaChanMask, Dpc(c)
  PROVE  RingInv'
<1>i. isr.pc = "idle" /\ isr' = isr /\ op' = op
  BY DEF OneCpu, Dpc, CpuForDpc, IsrIdle, DpcCopy, DpcEvent, DpcTest, DpcCtrl, DpcEnbl,
     DpcIrq, DpcBuffer
<1>d. \A d \in DmaChanMask \ {c} : dpc'[d] = dpc[d]
  BY DEF Dpc, DpcCopy, DpcEvent, DpcTest, DpcCtrl, DpcEnbl, DpcIrq, DpcBuffer, TypeOK
<1>1. CASE DpcCtrl(c)
  <2>1. dpc'[c].pc = "enbl" /\ run' = run /\ stub' = stub
    BY <1>1 DEF DpcCtrl, TypeOK, chanVars
  <2>2. ~hw'[c].start /\ \A d \in DmaChanMask \ {c} : hw'[d] = hw[d]
    BY <1>1, CompleteCtrlBits DEF DpcCtrl
  <2>3. hw'[c].pending = 0
    <3> DEFINE h == WriteCtrl(hw[c], FALSE)
               w == WriteMode(h, FALSE)
    <3>1. hw[c] \in Hw /\ Capped(hw[c])
      BY DEF TypeOK, HeldAtTwo, Capped
    <3>2. h \in Hw /\ h.pending = 0
      BY <3>1, WriteCtrlTypes, HwCounts, Zenon
    <3> HIDE DEF h
    <3>3. w.pending = 0
      BY <3>2, HwCounts
    <3>4. hw' = [hw EXCEPT ![c] = w]
      BY <1>1 DEF DpcCtrl, CompleteCtrl, h
    <3> HIDE DEF w
    <3> QED BY <3>3, <3>4 DEF TypeOK
  <2>4. ChanInv(c)'
    BY <2>1, <2>2, <2>3, <1>i, SwitchedOff DEF RingInv, Starting
  <2>5. ASSUME NEW d \in DmaChanMask, d # c
        PROVE  ChanInv(d)'
    BY <2>1, <2>2, <2>5, <1>i, <1>d, Kept DEF RingInv
  <2> QED BY <2>4, <2>5 DEF RingInv
<1>2. CASE DpcTest(c)
  <2>1. UNCHANGED <<run, stub, hw>>
    BY <1>2 DEF DpcTest, chanVars
  <2>2. dpc'[c].pc = "ctrl" => run[c].CurBlockNum >= BlockCount
    BY <1>2 DEF DpcTest, TypeOK
  <2>3. ChanInv(c)'
    <3>1. Taken(c)' = Taken(c) /\ (Wrapping(c)' <=> Wrapping(c)) /\ (Starting(c)' <=> Starting(c))
      BY <1>i DEF Taken, Wrapping, Starting
    <3>2. Counted(c) => Counted(c)'
      BY <3>1, <2>1 DEF Counted
    <3>3. Placed(c) => Placed(c)'
      BY <3>1, <2>1 DEF Placed
    <3>4. ChanInv(c)
      BY DEF RingInv
    <3> QED BY <3>1, <3>2, <3>3, <3>4, <2>1, <2>2, <1>i DEF ChanInv
  <2>4. ASSUME NEW d \in DmaChanMask, d # c
        PROVE  ChanInv(d)'
    BY <2>1, <2>4, <1>i, <1>d, Kept DEF RingInv
  <2> QED BY <2>3, <2>4 DEF RingInv
<1>3. CASE DpcCopy(c) \/ DpcEvent(c) \/ DpcEnbl(c) \/ DpcIrq(c) \/ DpcBuffer(c)
  <2>1. run' = run /\ hw' = hw
    BY <1>3 DEF DpcCopy, DpcEvent, DpcEnbl, DpcIrq, DpcBuffer, chanVars
  <2>2. dpc'[c].pc # "ctrl"
    BY <1>3 DEF DpcCopy, DpcEvent, DpcEnbl, DpcIrq, DpcBuffer, TypeOK
  <2>3. \A d \in DmaChanMask : stub'[d].lastBlock = stub[d].lastBlock
    <3>1. CASE DpcIrq(c)
      BY <3>1 DEF DpcIrq, CompleteIrq, CompleteStub, TypeOK, Stub
    <3>2. CASE ~DpcIrq(c)
      BY <3>2, <1>3 DEF DpcCopy, DpcEvent, DpcEnbl, DpcBuffer, chanVars
    <3> QED BY <3>1, <3>2
  <2>4. ASSUME NEW d \in DmaChanMask
        PROVE  ChanInv(d)'
    BY <2>1, <2>2, <2>3, <1>i, <1>d, Kept DEF RingInv
  <2> QED BY <2>4 DEF RingInv
<1> QED BY <1>1, <1>2, <1>3 DEF Dpc

(* A call runs alone on its CPU, and with the handler and all tasklets idle *)
(* it starts a channel that is off.                                         *)
LEMMA CallsRingStep ==
  ASSUME OneCpu, TypeOK, HeldAtTwo, OneCpuInv, RingInv, Calls
  PROVE  RingInv'
<1>1. /\ op.pc = "idle" /\ isr.pc = "idle" /\ isr' = isr /\ dpc' = dpc
      /\ \A d \in DmaChanMask : dpc[d].pc = "idle"
  BY CallAlone DEF Calls, StartCall, StateCall, DoneCall, ResetCall, Call
<1>2. ASSUME NEW c \in DmaChanMask, NEW cycling \in Modes, StartCall(c, cycling)
      PROVE  RingInv'
  <2>1. op'.pc = "off" /\ op'.chan = c /\ hw' = hw
    BY <1>2 DEF StartCall, Call, NoOp
  <2>2. /\ stub'[c] = StartStub /\ run'[c] = StartRun(cycling)
        /\ \A d \in DmaChanMask \ {c} : stub'[d] = stub[d] /\ run'[d] = run[d]
    BY <1>2 DEF StartCall, TypeOK
  <2>3. ~hw[c].start /\ hw[c].pending <= 0
    <3>1. stub[c].state # "RUN"
      BY <1>2 DEF StartCall, OneCpu
    <3> QED BY <3>1, ChanNumbers DEF OneCpuInv, HaltInv, RingInv, ChanInv
  <2>4. ChanInv(c)'
    <3>1. Counted(c)'
      BY <2>2, ChanNumbers DEF Counted, StartStub, StartRun
    <3> QED BY <3>1, <2>1, <2>3, <1>1, ChanNumbers DEF ChanInv
  <2>5. ASSUME NEW d \in DmaChanMask, d # c
        PROVE  ChanInv(d)'
    BY <2>1, <2>2, <2>5, <1>1, Kept DEF RingInv
  <2> QED BY <2>4, <2>5 DEF RingInv
<1>3. ASSUME NEW c \in DmaChanMask,
             \/ DoneCall(c)
             \/ \E name \in Ops, timeout \in Timeouts :
                  StateCall(name, c, timeout)
      PROVE  RingInv'
  <2>1. op'.pc \in {"grab", "stop", "get", "read"} /\ UNCHANGED <<stub, run, hw>>
    BY <1>3 DEF DoneCall, StateCall, Call, Waiting, NoOp, chanVars
  <2>2. ASSUME NEW d \in DmaChanMask
        PROVE  ChanInv(d)'
    BY <2>1, <1>1, Kept DEF RingInv
  <2> QED BY <2>2 DEF RingInv
<1>4. ASSUME NEW c \in DmaChanMask, ResetCall(c)
      PROVE  RingInv'
  <2> DEFINE w == WriteCtrl(hw[c], FALSE)
  <2>1. w.pending = 0 /\ w.start = FALSE
    BY HwBits, HwCounts, ChanNumbers
  <2>2. hw' = [hw EXCEPT ![c] = w] /\ UNCHANGED <<stub, run, op>>
    BY <1>4 DEF ResetCall, chanVars
  <2> HIDE DEF w
  <2>3. /\ ~hw'[c].start /\ hw'[c].pending = 0
        /\ \A d \in DmaChanMask \ {c} : hw'[d] = hw[d]
    BY <2>1, <2>2 DEF TypeOK
  <2>4. ChanInv(c)'
    BY <2>2, <2>3, <1>1, SwitchedOff DEF RingInv, Starting
  <2>5. ASSUME NEW d \in DmaChanMask, d # c
        PROVE  ChanInv(d)'
    BY <2>2, <2>3, <2>5, <1>1, Kept DEF RingInv
  <2> QED BY <2>4, <2>5 DEF RingInv
<1> QED BY <1>2, <1>3, <1>4 DEF Calls

LEMMA CallStepsRingStep ==
  ASSUME OneCpu, "done" \notin Ops, TypeOK, HeldAtTwo, OneCpuInv, RingInv, CallSteps
  PROVE  RingInv'
<1>a. /\ op.pc # "idle" /\ isr.pc = "idle" /\ isr' = isr /\ dpc' = dpc
      /\ \A d \in DmaChanMask : dpc[d].pc = "idle"
  BY CallAlone
     DEF CallSteps, At, StartOff, StartEnable, StartOn, Grab, Wakeup, Timeout,
         Clear, StopCtrl, StopEnbl, StopIrq, GetBlock, GetTotal, DoneRead,
         DoneWrite
<1>b. op \in [name : Ops, chan : DmaChanMask, val : BOOLEAN, pc : OpPcs]
  BY <1>a, OpActive
<1>0. PICK c \in DmaChanMask : op.chan = c
  BY <1>b
<1>c. hw[c] \in Hw /\ Capped(hw[c])
  BY DEF TypeOK, HeldAtTwo, Capped
<1>g. ASSUME NEW pc, Goto(pc)
      PROVE  op'.pc = pc /\ op'.chan = c
  BY <1>b, <1>0, <1>g DEF Goto
<1>r. ASSUME Return
      PROVE  op'.pc = "idle"
  BY <1>r DEF Return, NoOp
<1>1. CASE StartOff \/ StopCtrl
  <2>1. /\ run' = run /\ stub' = stub
        /\ \/ op.pc = "off" /\ op'.pc = "enable" /\ op'.chan = c
           \/ op'.pc = "enbl"
    BY <1>1, <1>g DEF StartOff, StopCtrl, At, chanVars
  <2> DEFINE h1 == WriteCtrl(hw[c], FALSE)
             h2 == WriteMode(h1, FALSE)
             h3 == WriteFlagClr(h2)
  <2>2. h1 \in Hw /\ Capped(h1) /\ h1.start = FALSE /\ h1.pending = 0
    BY <1>c, WriteCtrlTypes, HwBits, HwCounts, Zenon
  <2> HIDE DEF h1
  <2>3. h2 \in Hw /\ h2.start = h1.start /\ h2.pending = h1.pending
    BY <2>2, WriteModeTypes, HwBits, HwCounts, Zenon
  <2> HIDE DEF h2
  <2>4. h3.start = h2.start /\ h3.pending = 0
    BY <2>2, <2>3, HwBits, HwCounts
  <2>5. hw' = [hw EXCEPT ![c] = h2] \/ hw' = [hw EXCEPT ![c] = h3]
    BY <1>1, <1>0 DEF StartOff, StopCtrl, CompleteCtrl, h1, h2
  <2> HIDE DEF h3
  <2>6. /\ ~hw'[c].start /\ hw'[c].pending = 0
        /\ \A d \in DmaChanMask \ {c} : hw'[d] = hw[d]
    BY <2>2, <2>3, <2>4, <2>5 DEF TypeOK
  <2>7. ChanInv(c)'
    BY <2>1, <2>6, <1>0, <1>a, SwitchedOff DEF RingInv, Starting
  <2>8. ASSUME NEW d \in DmaChanMask, d # c
        PROVE  ChanInv(d)'
    BY <2>1, <2>6, <2>8, <1>a, Kept DEF RingInv
  <2> QED BY <2>7, <2>8 DEF RingInv
<1>2. CASE StartOn
  <2>1. op.pc = "on" /\ op'.pc = "idle" /\ run' = run /\ stub' = stub
    BY <1>2, <1>r DEF StartOn, At, chanVars
  <2>2. ChanInv(c) /\ Starting(c)
    BY <2>1, <1>0 DEF RingInv, Starting
  <2>3. ~hw[c].start /\ hw[c].pending = 0 /\ Counted(c)
    BY <2>2, ChanNumbers DEF ChanInv
  <2> DEFINE h == WriteMode(hw[c], TRUE)
             w == WriteCtrl(h, TRUE)
  <2>4. h \in Hw /\ h.start = hw[c].start /\ h.pending = hw[c].pending
    BY <1>c, WriteModeTypes, HwBits, HwCounts, Zenon
  <2> HIDE DEF h
  <2>5. w.pending = 0 /\ w.pos = 0
    BY <2>3, <2>4, HwCounts
  <2>6. hw' = [hw EXCEPT ![c] = w]
    BY <1>2, <1>0 DEF StartOn, h
  <2> HIDE DEF w
  <2>7. /\ hw'[c].pending = 0 /\ hw'[c].pos = 0
        /\ \A d \in DmaChanMask \ {c} : hw'[d] = hw[d]
    BY <2>5, <2>6 DEF TypeOK
  <2>8. ChanInv(c)'
    <3>1. run[c].CurBlockNum = 0
      BY <2>2 DEF OneCpuInv, StartInv
    <3>2. Counted(c)' /\ ~Starting(c)'
      BY <2>1, <2>3, <1>a DEF Counted, Wrapping, Starting
    <3>3. Taken(c)' = 0
      BY <1>a DEF Taken
    <3>4. Placed(c)'
      BY <3>1, <3>3, <2>1, <2>7, ChanNumbers DEF Placed
    <3> QED BY <3>2, <3>4, <2>7, <1>a DEF ChanInv
  <2>9. ASSUME NEW d \in DmaChanMask, d # c
        PROVE  ChanInv(d)'
    BY <2>1, <2>7, <2>9, <1>a, Kept DEF RingInv
  <2> QED BY <2>8, <2>9 DEF RingInv
<1>3. CASE \/ StartEnable \/ Grab \/ Wakeup \/ Timeout \/ Clear \/ StopEnbl \/ StopIrq
           \/ GetBlock \/ GetTotal \/ DoneRead
  <2>1. run' = run /\ hw' = hw
    BY <1>3 DEF StartEnable, Grab, Wakeup, Timeout, Clear, StopEnbl, StopIrq, GetBlock, GetTotal,
       DoneRead, chanVars
  <2>2. \A d \in DmaChanMask : stub'[d].lastBlock = stub[d].lastBlock
    <3>1. CASE StopIrq
      BY <3>1, <1>0 DEF StopIrq, CompleteIrq, CompleteStub, TypeOK, Stub
    <3>2. CASE ~StopIrq
      BY <3>2, <1>3 DEF StartEnable, Grab, Wakeup, Timeout, Clear, StopEnbl, GetBlock, GetTotal,
         DoneRead, chanVars
    <3> QED BY <3>1, <3>2
  <2>3. \/ op'.pc \in {"clear", "wait", "stop", "get", "total", "irq", "write", "idle"}
        \/ Starting(c)
    <3>1. CASE StartEnable
      <4>1. op.pc = "enable"
        BY <3>1 DEF StartEnable, At
      <4> QED BY <4>1, <1>0 DEF Starting
    <3>2. CASE StopEnbl
      <4> DEFINE v == OtherEnbl(op.chan)
      <4>1. op' = [op EXCEPT !.pc = "irq", !.val = v]
        BY <3>2 DEF StopEnbl
      <4> HIDE DEF v
      <4>2. op'.pc = "irq"
        BY <4>1, <1>b
      <4> QED BY <4>2
    <3>3. CASE DoneRead
      <4> DEFINE v == hw[op.chan].start
      <4>1. op' = [op EXCEPT !.pc = "write", !.val = v]
        BY <3>3 DEF DoneRead
      <4> HIDE DEF v
      <4>2. op'.pc = "write"
        BY <4>1, <1>b
      <4> QED BY <4>2
    <3>4. CASE Grab
      <4>1. Goto("clear") \/ Goto("wait")
        BY <3>4 DEF Grab
      <4> QED BY <4>1, <1>g
    <3>5. CASE Wakeup \/ StopIrq \/ GetBlock
      <4>1. Goto("clear") \/ Goto("get") \/ Goto("total")
        BY <3>5 DEF Wakeup, StopIrq, GetBlock
      <4> QED BY <4>1, <1>g
    <3>6. CASE Timeout \/ Clear
      <4>1. Goto("stop") \/ Goto("get")
        BY <3>6 DEF Timeout, Clear, AfterWait
      <4> QED BY <4>1, <1>g
    <3>7. CASE GetTotal
      <4>1. Return
        BY <3>7 DEF GetTotal
      <4> QED BY <4>1, <1>r
    <3> QED BY <1>3, <3>1, <3>2, <3>3, <3>4, <3>5, <3>6, <3>7
  <2>5. \A d \in DmaChanMask : op'.chan # d \/ Starting(d) \/ op'.pc \notin {"off", "enable", "on"}
    <3>1. CASE Starting(c)
      <4>1. op.pc \in {"off", "enable", "on"}
        BY <3>1 DEF Starting
      <4>2. StartEnable
        BY <4>1, <1>3 DEF Grab, Wakeup, Timeout, Clear, StopEnbl, StopIrq, GetBlock, GetTotal,
           DoneRead, At
      <4>3. op'.chan = c
        BY <4>2, <1>g DEF StartEnable
      <4> QED BY <3>1, <4>3
    <3>2. CASE op'.pc \in {"clear", "wait", "stop", "get", "total", "irq", "write", "idle"}
      BY <3>2
    <3> QED BY <2>3, <3>1, <3>2
  <2>4. ASSUME NEW d \in DmaChanMask
        PROVE  ChanInv(d)'
    BY <2>1, <2>2, <2>5, <1>a, Kept DEF RingInv
  <2> QED BY <2>4 DEF RingInv
<1>4. ~DoneWrite
  BY DEF DoneWrite, At, OneCpuInv, NoDone
<1> QED BY <1>1, <1>2, <1>3, <1>4 DEF CallSteps

LEMMA RingInit == Init => RingInv
<1> SUFFICES ASSUME Init, NEW c \in DmaChanMask
             PROVE  ChanInv(c)
  BY DEF RingInv
<1>1. /\ hw[c].pending = 0 /\ ~hw[c].start
      /\ isr.pc = "idle" /\ dpc[c].pc = "idle" /\ op.pc = "idle"
  BY DEF Init, NewHw, NoOp
<1>2. ~Starting(c)
  BY <1>1 DEF Starting
<1> QED BY <1>1, <1>2 DEF ChanInv

LEMMA RingStep ==
  ASSUME OneCpu, "done" \notin Ops, TypeOK, HeldAtTwo, OneCpuInv, RingInv, [Next]_vars
  PROVE  RingInv'
<1>1. ASSUME NEW c \in DmaChanMask, HwBlockEnd(c) \/ Dpc(c)
      PROVE  RingInv'
  BY <1>1, EndRingStep, DpcRingStep
<1>2. CASE Isr
  BY <1>2, IsrRingStep
<1>3. CASE Calls
  BY <1>3, CallsRingStep
<1>4. CASE CallSteps
  BY <1>4, CallStepsRingStep
<1>5. CASE UNCHANGED vars
  <2>1. UNCHANGED <<hw, run, stub, isr, dpc, op>>
    BY <1>5 DEF vars, chanVars
  <2> QED BY <2>1, Kept DEF RingInv
<1> QED BY <1>1, <1>2, <1>3, <1>4, <1>5 DEF Next

THEOREM RingInvariant ==
  OneCpu /\ "done" \notin Ops /\ Spec => [](TypeOK /\ RingInv)
<1> SUFFICES ASSUME OneCpu, "done" \notin Ops PROVE Spec => [](TypeOK /\ RingInv)
  OBVIOUS
<1>1. TypeOK /\ HeldAtTwo /\ OneCpuInv /\ RingInv /\ [Next]_vars
      => OneCpuInv' /\ RingInv'
  BY OneCpuStep, RingStep
<1>2. Spec => [](TypeOK /\ HeldAtTwo)
  BY TypeCorrect
<1> QED BY <1>1, <1>2, OneCpuInit, RingInit, PTL DEF Spec

-----------------------------------------------------------------------------
(* m_CurBlockNum and the FPGA's place in the descriptor chain differ by the *)
(* announced blocks, whole rounds apart, and a single pass makes no round.  *)
THEOREM CountersAgree ==
  OneCpu /\ "done" \notin Ops /\ Spec => []RingAgreement
<1>1. ASSUME TypeOK, RingInv
      PROVE  RingAgreement
  <2> SUFFICES ASSUME NEW c \in DmaChanMask, hw[c].start
               PROVE  \E k \in 0 .. 2 :
                        /\ hw[c].pos + k * BlockCount + Taken(c)
                             = run[c].CurBlockNum + hw[c].pending
                        /\ k = 0 \/ run[c].DmaCycling
    BY DEF RingAgreement
  <2> DEFINE p == hw[c].pos
             t == Taken(c)
             r == run[c].CurBlockNum
             e == hw[c].pending
             m == run[c].DmaCycling
  <2>1. p \in Nat /\ t \in Nat /\ r \in Nat /\ e \in Nat /\ BlockCount \in Nat
    BY <1>1, ChanNumbers DEF Taken
  <2>2. \/ p = r + e - t
        \/ m /\ p + BlockCount = r + e - t
        \/ m /\ p + BlockCount + BlockCount = r + e - t
    BY <1>1 DEF RingInv, ChanInv, Placed
  <2>3. SUFFICES \E k \in 0 .. 2 : p + k * BlockCount + t = r + e /\ (k = 0 \/ m)
    OBVIOUS
  <2> HIDE DEF p, t, r, e, m
  <2>4. /\ p + 0 * BlockCount = p
        /\ p + 1 * BlockCount = p + BlockCount
        /\ p + 2 * BlockCount = p + BlockCount + BlockCount
    BY <2>1
  <2>5. CASE p = r + e - t
    <3>1. p + 0 * BlockCount + t = r + e
      BY <2>1, <2>5
    <3> QED BY <3>1
  <2>6. CASE m /\ p + BlockCount = r + e - t
    <3>1. p + 1 * BlockCount + t = r + e
      BY <2>1, <2>6
    <3> QED BY <3>1, <2>6
  <2>7. CASE m /\ p + BlockCount + BlockCount = r + e - t
    <3>1. p + 2 * BlockCount + t = r + e
      BY <2>1, <2>7
    <3> QED BY <3>1, <2>7
  <2> QED BY <2>2, <2>5, <2>6, <2>7
<1>2. TypeOK /\ RingInv => RingAgreement
  BY <1>1
<1> QED BY <1>2, RingInvariant, PTL

(* Once the announced blocks are handled, lastBlock in the stub that is     *)
(* shared with the user names the block the FPGA has filled last, or none.  *)
THEOREM LastBlockIsFilledLast ==
  OneCpu /\ "done" \notin Ops /\ Spec => []FilledLast
<1>1. ASSUME TypeOK, RingInv
      PROVE  FilledLast
  <2> SUFFICES ASSUME NEW c \in DmaChanMask, hw[c].start, hw[c].pending = 0
               PROVE  \/ stub[c].lastBlock = MinusOne /\ hw[c].pos = 0
                      \/ stub[c].lastBlock = (hw[c].pos + BlockCount - 1) % BlockCount
    BY DEF FilledLast
  <2> DEFINE p == hw[c].pos
             n == run[c].CurBlockNum
             m == run[c].DmaCycling
             b == stub[c].lastBlock
  <2>1. /\ p \in Nat /\ p <= BlockCount /\ n \in Nat /\ BlockCount \in Nat /\ BlockCount > 0
        /\ b \in Nat
    BY <1>1, ChanNumbers
  <2>2. isr.pc = "idle" \/ isr.chan # c
    BY <1>1, ChanNumbers DEF RingInv, ChanInv
  <2>3. Taken(c) = 0 /\ ~Wrapping(c)
    BY <2>2 DEF Taken, Wrapping
  <2>4. /\ n <= BlockCount
        /\ m => n < BlockCount
        /\ \/ n = 0 /\ b \in {MinusOne, BlockCount - 1}
           \/ n > 0 /\ b = n - 1
    BY <1>1, <2>3 DEF RingInv, ChanInv, Counted
  <2>5. \/ p = n + 0 - 0
        \/ m /\ p + BlockCount = n + 0 - 0
        \/ m /\ p + BlockCount + BlockCount = n + 0 - 0
    BY <1>1, <2>3 DEF RingInv, ChanInv, Placed
  <2>6. SUFFICES \/ b = MinusOne /\ p = 0
                 \/ b = (p + BlockCount - 1) % BlockCount
    OBVIOUS
  <2> HIDE DEF p, n, m, b
  <2>7. p = n
    BY <2>1, <2>4, <2>5
  <2>8. CASE n = 0
    <3>1. (p + BlockCount - 1) % BlockCount = BlockCount - 1
      BY <2>1, <2>7, <2>8
    <3> QED BY <3>1, <2>4, <2>7, <2>8
  <2>9. CASE n > 0
    <3>1. b = p - 1 /\ p - 1 \in 0 .. BlockCount - 1
      BY <2>1, <2>4, <2>7, <2>9
    <3>2. (p + BlockCount - 1) % BlockCount = p - 1
      BY <2>1, <3>1
    <3> QED BY <3>1, <3>2
  <2> QED BY <2>1, <2>8, <2>9
<1>2. TypeOK /\ RingInv => FilledLast
  BY <1>1
<1> QED BY <1>2, RingInvariant, PTL

(* A tasklet switches off a running channel only at the end of a single     *)
(* pass, with every block filled and handled.                               *)
THEOREM NothingIsCutOff ==
  OneCpu /\ "done" \notin Ops /\ Spec => CompletedInFull
<1> SUFFICES ASSUME OneCpu, "done" \notin Ops PROVE Spec => CompletedInFull
  OBVIOUS
<1> DEFINE Full(c) == DpcCtrl(c) /\ hw[c].start =>
             ~run[c].DmaCycling /\ hw[c].pos = BlockCount /\ hw[c].pending = 0
<1>1. ASSUME TypeOK, RingInv, NEW c \in DmaChanMask
      PROVE  Full(c)
  <2> SUFFICES ASSUME DpcCtrl(c), hw[c].start
               PROVE  ~run[c].DmaCycling /\ hw[c].pos = BlockCount /\ hw[c].pending = 0
    OBVIOUS
  <2>1. dpc[c].pc = "ctrl" /\ isr.pc = "idle"
    BY DEF DpcCtrl, CpuForDpc, IsrIdle, OneCpu
  <2>2. Taken(c) = 0 /\ ~Wrapping(c)
    BY <2>1 DEF Taken, Wrapping
  <2> DEFINE n == run[c].CurBlockNum
             p == hw[c].pos
             e == hw[c].pending
             m == run[c].DmaCycling
  <2>3. /\ n \in Nat /\ p \in Nat /\ e \in Nat /\ p <= BlockCount
        /\ BlockCount \in Nat
    BY <1>1, ChanNumbers
  <2>4. n >= BlockCount /\ n <= BlockCount /\ (m => n < BlockCount)
    BY <1>1, <2>1, <2>2 DEF RingInv, ChanInv, Counted
  <2>5. p = n + e - 0 \/ m
    BY <1>1, <2>2 DEF RingInv, ChanInv, Placed
  <2>6. SUFFICES ~m /\ p = BlockCount /\ e = 0
    OBVIOUS
  <2> HIDE DEF n, p, e, m
  <2> QED BY <2>3, <2>4, <2>5
<1>2. TypeOK /\ RingInv => \A c \in DmaChanMask : Full(c)
  BY <1>1
<1>3. TypeOK /\ RingInv /\ [Next]_vars => [\A c \in DmaChanMask : Full(c)]_vars
  BY <1>2
<1>4. Spec => [](TypeOK /\ RingInv)
  BY RingInvariant
<1> QED BY <1>3, <1>4, PTL DEF Spec, CompletedInFull
===============================================================================
