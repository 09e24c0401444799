------------------------------- MODULE Registers -------------------------------
(***************************************************************************)
(* The registers of the board that several parties write: BRD_MODE, which  *)
(* the driver's InitializeBoard, the library's core_init and the board_init*)
(* of the exam program each take through the reset of the ADM PLD, and the *)
(* registers of a tetrad, reached through its one CMD_ADR register: write  *)
(* the address, wait for CMD_RDY, access CMD_DATA.  A user is a program    *)
(* with one thread; the ioctl IOCTL_AMB_SET_DRQ reads and writes MODE0     *)
(* (register 0) of tetrad 0 for it in the driver.  A register is the set   *)
(* of its bits that are 1.                                                 *)
(***************************************************************************)
EXTENDS Naturals, FiniteSets

CONSTANTS
  Users,      \* programs; each has a DRQ flag of its own
  Early,      \* bound: programs that may start before InitializeBoard has ended
  Exam,       \* bound: programs that may be the exam program
  LastReg,    \* the registers of the tetrad are 0 .. LastReg
  MaxTries,   \* 10 in the code
  PollLimit,  \* 20000 in the library, 9 in the exam program
  MaxOps      \* bound: accesses to the tetrad

ASSUME RegistersAssumption ==
  /\ Early \subseteq Users /\ Exam \subseteq Users
  /\ "driver" \notin Users /\ "none" \notin Users
  /\ LastReg \in Nat /\ MaxTries \in Nat \ {0}
  /\ PollLimit \in Nat /\ MaxOps \in Nat

Regs == 0 .. LastReg
Agents == Users \cup {"driver"}

VARIABLES
  mode,   \* BRD_MODE: its low four bits, OutFlags
  slv,    \* BRD_STATUS.SlvDcm: the clock of the ADM PLD is captured
  init,   \* each agent's bring-up: pc, kind, i, temp, brd_mode, idx
  pld,    \* m_PldStatus[0] # 0
  adr, reg,      \* CMD_ADR and the registers of the tetrad
  sem,           \* who holds m_BoardSem, or "none"
  tmo, timer,    \* m_IsTimeout; m_TimeoutTimer: is it pending
  late,          \* its callback runs, and has not written m_IsTimeout yet
  op,            \* each user's access
  ops,           \* history: how many there have been
  ghost,         \* history: the registers if accesses were atomic
  raced,         \* history: an access has been disturbed since the reset
  mixed          \* history: BRD_MODE written while another agent needed it unchanged

board == <<mode, init, pld, mixed>>
wait == <<sem, tmo, timer, late>>
vars == <<board, slv, adr, reg, wait, op, ops, ghost, raced>>

Mode(m, f) == [m |-> m, out |-> f]
Clear == [r \in Regs |-> {}]
Off == [pc |-> "off", kind |-> "none", i |-> 0, temp |-> FALSE, brd |-> Mode(0, 0), idx |-> 0]
Idle == [pc |-> "idle", kind |-> "none", r |-> 0, v |-> {}, n |-> 0]

Init ==
  /\ mode = Mode(0, 0) /\ slv \in BOOLEAN /\ pld = FALSE /\ mixed = FALSE
  /\ init = [a \in Agents |-> Off]
  /\ adr = 0 /\ reg = Clear /\ ghost = Clear /\ raced = FALSE
  /\ sem = "none" /\ tmo = FALSE /\ timer = FALSE /\ late = FALSE
  /\ op = [u \in Users |-> Idle] /\ ops = 0

(* The tetrad is in reset until bit 3 of BRD_MODE is set. *)
Running == mode.m = 15

InFlight(u) == op[u].pc \notin {"idle", "down", "adr"} \/ op[u].kind = "write"

-----------------------------------------------------------------------------
(* BRD_MODE *)
Busy(a) == init[a].pc \notin {"off", "done"}

BothLibrary(a, b) == init'[a].kind = "core_init" /\ init[b].kind = "core_init"

WriteMode(a, new) ==
  /\ mode' = new
  /\ mixed' = (\/ mixed \/ (a # "driver" /\ init["driver"].pc # "done")
               \/ \E b \in Agents \ {a} : Busy(b) /\ ~BothLibrary(a, b))
  /\ raced' = IF \E u \in Users : InFlight(u) THEN TRUE ELSE new.m = 15 /\ raced
  /\ IF new.m = 15 THEN UNCHANGED <<adr, reg, ghost>>
     ELSE adr' = 0 /\ reg' = Clear /\ ghost' = Clear

To(a, pc) == init' = [init EXCEPT ![a].pc = pc]
Done(a) == init' = [init EXCEPT ![a] = [Off EXCEPT !.pc = "done", !.kind = init[a].kind]]
Only(a) == UNCHANGED <<slv, wait, op, ops>>
Reads == UNCHANGED <<mode, adr, reg, ghost, raced, mixed>>

(* BRD_MODE = 0; the driver does this once, programs run core_init or       *)
(* board_init.  The device can be opened before InitializeBoard begins.     *)
Begin(a) ==
  /\ init[a].pc = "off" /\ (a \in Users \ Early => init["driver"].pc = "done")
  /\ \E k \in {"InitializeBoard", "core_init", "board_init"} :
       /\ k = "InitializeBoard" <=> a = "driver"
       /\ k = "board_init" => a \in Exam
       /\ init' = [init EXCEPT ![a].pc = "clkOut", ![a].kind = k]
  /\ WriteMode(a, Mode(0, 0)) /\ UNCHANGED pld /\ Only(a)

Sequence == [clkOut |-> <<1, "sleep">>, sleep |-> <<3, "clkIn">>, clkIn |-> <<7, "status">>]

Release(a) ==
  /\ init[a].pc \in DOMAIN Sequence
  /\ LET s == Sequence[init[a].pc] IN To(a, s[2]) /\ WriteMode(a, Mode(s[1], 0))
  /\ UNCHANGED pld /\ Only(a)

Status(a) ==
  /\ init[a].pc = "status"
  /\ init' = [init EXCEPT ![a].temp = slv, ![a].i = @ + 1,
                ![a].pc = IF slv \/ init[a].i + 1 = MaxTries THEN "reset" ELSE "clkOut"]
  /\ Reads /\ UNCHANGED pld /\ Only(a)

(* Mutant: BRD_MODE stays 7 when the clock is not captured. *)
ResetOffCaptured(a) ==
  /\ init[a].pc = "reset"
  /\ IF init[a].kind = "core_init" THEN Done(a)
     ELSE To(a, IF init[a].temp THEN "flags" ELSE "fail")
  /\ IF init[a].temp \/ a = "driver" THEN WriteMode(a, Mode(15, 0)) ELSE Reads
  /\ UNCHANGED pld /\ Only(a)

(* BRD_MODE = 0x0F ends core_init, which does not look at temp any more.    *)
ResetOff(a) ==
  /\ init[a].pc = "reset"
  /\ IF init[a].kind = "core_init" THEN Done(a)
     ELSE To(a, IF init[a].temp THEN "flags" ELSE "fail")
  /\ WriteMode(a, Mode(15, 0))
  /\ UNCHANGED pld /\ Only(a)

(* The lines of the flags: what is written to OutFlags must come back.      *)
ReadMode(a) ==
  /\ init[a].pc = "flags"
  /\ init' = [init EXCEPT ![a].pc = "out", ![a].brd = mode]
  /\ Reads /\ UNCHANGED pld /\ Only(a)

FlagsOut(a) ==
  /\ init[a].pc = "out"
  /\ To(a, "in") /\ WriteMode(a, Mode(init[a].brd.m, init[a].idx))
  /\ UNCHANGED pld /\ Only(a)

FlagsIn(a) ==
  /\ init[a].pc = "in"
  /\ init' = [init EXCEPT
       ![a].idx = IF mode.out = @ /\ @ < 3 THEN @ + 1 ELSE @,
       ![a].temp = (mode.out = init[a].idx),
       ![a].pc = IF mode.out # init[a].idx THEN "fail"
                 ELSE IF init[a].idx < 3 THEN "out" ELSE "pld"]
  /\ Reads /\ UNCHANGED pld /\ Only(a)

Fail(a) ==
  /\ init[a].pc = "fail"
  /\ To(a, "pld") /\ WriteMode(a, Mode(0, 0)) /\ UNCHANGED pld /\ Only(a)

Report(a) ==
  /\ init[a].pc = "pld"
  /\ pld' = IF a = "driver" THEN init[a].temp ELSE pld
  /\ init' = [init EXCEPT ![a].pc = "last", ![a].brd = mode]
  /\ Reads /\ Only(a)

FlagsOff(a) ==
  /\ init[a].pc = "last"
  /\ Done(a) /\ WriteMode(a, Mode(init[a].brd.m, 0))
  /\ UNCHANGED pld /\ Only(a)

BringUp(a) == Begin(a) \/ Release(a) \/ Status(a) \/ ResetOff(a) \/ ReadMode(a)
              \/ FlagsOut(a) \/ FlagsIn(a) \/ Fail(a) \/ Report(a) \/ FlagsOff(a)

-----------------------------------------------------------------------------
(* The tetrad.  Writes have no effect while it is in reset.                 *)
WriteAdr(u, r) ==
  /\ adr' = IF Running THEN r ELSE adr
  /\ raced' = (raced \/ \E w \in Users \ {u} : InFlight(w))

WriteData(u, v) ==
  /\ reg' = IF Running THEN [reg EXCEPT ![adr] = v] ELSE reg
  /\ ghost' = IF Running THEN [ghost EXCEPT ![op[u].r] = v] ELSE ghost

Goto(u, pc) == op' = [op EXCEPT ![u].pc = pc]
Return(u) == op' = [op EXCEPT ![u] = Idle]

(* The library's functions; the exam program only reads.  Of what programs  *)
(* write, the DRQ flags matter, and that the others are 0.                  *)
Call(u) ==
  /\ op[u].pc = "idle" /\ init[u].pc = "done" /\ ops < MaxOps /\ ops' = ops + 1
  /\ \E k \in {"peek", "poke", "read"}, r \in Regs, v \in {{}, {u}} :
       /\ init[u].kind = "board_init" => k = "peek"
       /\ k = "peek" => v = {}
       /\ k = "read" => init["driver"].pc = "done" /\ r = 0 /\ v = {}
       /\ op' = [op EXCEPT ![u] = [Idle EXCEPT !.pc = IF k = "read" THEN "down" ELSE "adr",
                                     !.kind = k, !.r = r, !.v = v]]
  /\ UNCHANGED <<board, slv, adr, reg, wait, ghost, raced>>

Direct(u) == op[u].kind \in {"peek", "poke"}

SetAddress(u) ==
  /\ op[u].pc = "adr" /\ Direct(u)
  /\ WriteAdr(u, op[u].r) /\ Goto(u, "poll")
  /\ UNCHANGED <<board, slv, reg, wait, ops, ghost>>

(* core_reg_peek_ind and core_reg_poke_ind give up silently.                *)
Poll(u) ==
  /\ op[u].pc = "poll" /\ Direct(u) /\ init[u].kind = "core_init"
  /\ \/ Goto(u, "data")
     \/ op' = IF op[u].n > PollLimit THEN [op EXCEPT ![u] = Idle]
              ELSE [op EXCEPT ![u].n = @ + 1]
  /\ UNCHANGED <<board, slv, adr, reg, wait, ops, ghost, raced>>

(* WaitCmdReady of the exam program, which gives up after the last read     *)
(* whatever it has read.                                                    *)
PollExam(u) ==
  /\ op[u].pc = "poll" /\ init[u].kind = "board_init"
  /\ IF op[u].n > PollLimit THEN Return(u)
     ELSE Goto(u, "data") \/ op' = [op EXCEPT ![u].n = @ + 1]
  /\ UNCHANGED <<board, slv, adr, reg, wait, ops, ghost, raced>>

Peek(u) ==
  /\ op[u].pc = "data" /\ op[u].kind = "peek" /\ Return(u)
  /\ UNCHANGED <<board, slv, adr, reg, wait, ops, ghost, raced>>

Poke(u) ==
  /\ op[u].pc = "data" /\ op[u].kind = "poke"
  /\ WriteData(u, op[u].v) /\ Return(u)
  /\ UNCHANGED <<board, slv, adr, wait, ops, raced>>

-----------------------------------------------------------------------------
(* SetDrqFlag in the driver: kind "read", and then kind "write".            *)
Down(u) ==
  /\ op[u].pc = "down" /\ sem = "none" /\ sem' = u /\ Goto(u, "adr")
  /\ UNCHANGED <<board, slv, adr, reg, tmo, timer, late, ops, ghost, raced>>

(* WriteRegData and ReadRegData *)
CmdAddress(u) ==
  /\ op[u].pc = "adr" /\ ~Direct(u)
  /\ WriteAdr(u, 0) /\ Goto(u, "arm")
  /\ UNCHANGED <<board, slv, reg, wait, ops, ghost>>

(* WaitCmdReady.  Mutant: the timer is not set. *)
SetRelativeTimerNot(u) ==
  /\ op[u].pc = "arm" /\ tmo' = FALSE /\ timer' = FALSE /\ Goto(u, "cmd_rdy")
  /\ UNCHANGED <<board, slv, adr, reg, sem, late, ops, ghost, raced>>

SetRelativeTimer(u) ==
  /\ op[u].pc = "arm" /\ tmo' = FALSE /\ timer' = TRUE /\ Goto(u, "cmd_rdy")
  /\ UNCHANGED <<board, slv, adr, reg, sem, late, ops, ghost, raced>>

ReadStatus(u) ==
  /\ op[u].pc = "cmd_rdy" /\ (Goto(u, "ready") \/ Goto(u, "not_ready"))
  /\ UNCHANGED <<board, slv, adr, reg, wait, ops, ghost, raced>>

TestTimeout(u) ==
  /\ op[u].pc \in {"ready", "not_ready"}
  /\ Goto(u, IF tmo \/ op[u].pc = "ready" THEN "cancel" ELSE "cmd_rdy")
  /\ UNCHANGED <<board, slv, adr, reg, wait, ops, ghost, raced>>

CancelTimer(u) ==
  /\ op[u].pc = "cancel" /\ timer' = FALSE /\ Goto(u, "result")
  /\ UNCHANGED <<board, slv, adr, reg, sem, tmo, late, ops, ghost, raced>>

(* Mutant: as in SetDmaMode, a failed read counts as one that read zero. *)
ResultIgnored(u) ==
  /\ op[u].pc = "result"
  /\ IF tmo
     THEN IF op[u].kind = "read"
          THEN op' = [op EXCEPT ![u].kind = "write", ![u].pc = "adr", ![u].v = {u}] /\ UNCHANGED sem
          ELSE Return(u) /\ sem' = "none"
     ELSE Goto(u, "access") /\ UNCHANGED sem
  /\ UNCHANGED <<board, slv, adr, reg, tmo, timer, late, ops, ghost, raced>>

Result(u) ==
  /\ op[u].pc = "result"
  /\ IF tmo THEN Return(u) /\ sem' = "none" ELSE Goto(u, "access") /\ UNCHANGED sem
  /\ UNCHANGED <<board, slv, adr, reg, tmo, timer, late, ops, ghost, raced>>

ReadRegData(u) ==
  /\ op[u].pc = "access" /\ op[u].kind = "read"
  /\ op' = [op EXCEPT ![u].kind = "write", ![u].pc = "adr", ![u].v = reg[adr] \cup {u}]
  /\ UNCHANGED <<board, slv, adr, reg, wait, ops, ghost, raced>>

(* What an atomic SetDrqFlag does is seen in ghost. *)
WriteRegData(u) ==
  /\ op[u].pc = "access" /\ op[u].kind = "write"
  /\ reg' = IF Running THEN [reg EXCEPT ![adr] = op[u].v] ELSE reg
  /\ ghost' = IF Running THEN [ghost EXCEPT ![0] = @ \cup {u}] ELSE ghost
  /\ Return(u) /\ sem' = "none"
  /\ UNCHANGED <<board, slv, adr, tmo, timer, late, ops, raced>>

(* The timer: del_timer does not wait for a callback that already runs.     *)
Expire ==
  /\ timer /\ ~late /\ timer' = FALSE /\ late' = TRUE
  /\ UNCHANGED <<board, slv, adr, reg, sem, tmo, op, ops, ghost, raced>>

TimeoutTimerCallback ==
  /\ late /\ late' = FALSE /\ tmo' = TRUE
  /\ UNCHANGED <<board, slv, adr, reg, sem, timer, op, ops, ghost, raced>>

-----------------------------------------------------------------------------
Library(u) == SetAddress(u) \/ Poll(u) \/ PollExam(u) \/ Peek(u) \/ Poke(u)
Drq(u) == Down(u) \/ CmdAddress(u) \/ SetRelativeTimer(u) \/ ReadStatus(u)
          \/ TestTimeout(u) \/ CancelTimer(u) \/ Result(u)
          \/ ReadRegData(u) \/ WriteRegData(u)

Next ==
  \/ \E a \in Agents : BringUp(a)
  \/ \E u \in Users : Call(u) \/ Library(u) \/ Drq(u)
  \/ Expire \/ TimeoutTimerCallback

Spec == Init /\ [][Next]_vars

(* The scheduler runs a thread that can run, m_BoardSem is granted in       *)
(* turn, and timers expire.                                                 *)
Fairness ==
  /\ \A u \in Users : WF_vars(Library(u) \/ Drq(u))
  /\ WF_vars(Expire) /\ WF_vars(TimeoutTimerCallback)

FairSpec == Spec /\ Fairness

-----------------------------------------------------------------------------
(* Unless another access to the tetrad or a reset came between the write of *)
(* CMD_ADR and the access to CMD_DATA - which nothing but m_BoardSem, and   *)
(* that only between ioctls, prevents - an access reaches the register it   *)
(* names, and the registers are as if accesses were atomic, those given up  *)
(* had not been made, and every flag that SetDrqFlag reported set is set.   *)
AtomicRegisters ==
  ~raced /\ Running =>
    /\ reg = ghost
    /\ \A u \in Users : op[u].pc = "data" => adr = op[u].r

(* When nobody is at it, the ADM PLD is out of reset with OutFlags 0 if its *)
(* clock was captured, and even if not when only the library has been at it *)
(* since; m_PldStatus tells whether it was.  Not so if a program came before*)
(* InitializeBoard had ended, or during another one's board_init.           *)
BroughtUp ==
  LET kinds == {init[u].kind : u \in Users} IN
  ~mixed /\ init["driver"].pc = "done" /\ ~(\E u \in Users : Busy(u)) =>
    /\ pld = slv
    /\ slv \/ ("core_init" \in kinds /\ "board_init" \notin kinds) => mode = Mode(15, 0)
    /\ ~slv /\ "core_init" \notin kinds => mode = Mode(0, 0)

(* No access waits for ever for CMD_RDY.                                    *)
CallsEnd == \A u \in Users : op[u].pc # "idle" ~> op[u].pc = "idle"
===============================================================================
