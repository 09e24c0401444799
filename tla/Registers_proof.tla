---------------------------- MODULE Registers_proof ----------------------------
(***************************************************************************)
(* What Registers promises, for any number of programs and registers: that *)
(* accesses to the tetrad that nothing disturbed are as good as atomic,    *)
(* and that the board is brought up when no two parties were at it.        *)
(***************************************************************************)
EXTENDS Registers, TLAPS

(* Types of an access, and what its place in the code says of it.           *)
Waits == {"arm", "cmd_rdy", "ready", "not_ready", "cancel", "result", "access"}
Places == {"idle", "adr", "poll", "data", "down"} \cup Waits
Accesses == [pc : Places, kind : {"none", "peek", "poke", "read", "write"},
             r : Regs, v : SUBSET Users, n : Nat]

Fits(o) ==
  /\ o.pc \in {"poll", "data"} => o.kind \in {"peek", "poke"}
  /\ o.pc \in {"down"} \cup Waits => o.kind \in {"read", "write"}
  /\ o.kind \in {"read", "write"} => o.r = 0
  /\ o.pc = "idle" <=> o.kind = "none"

AccessTypes ==
  /\ adr \in Regs
  /\ reg \in [Regs -> SUBSET Users] /\ ghost \in [Regs -> SUBSET Users]
  /\ op \in [Users -> Accesses]
  /\ \A u \in Users : Fits(op[u])

(* Undisturbed, at most one access is between CMD_ADR and CMD_DATA; the     *)
(* address in CMD_ADR is its own, and what SetDrqFlag has read is still     *)
(* what is in MODE0.                                                        *)
Addressed(u) == op[u].pc \in {"poll", "data"} \cup Waits => adr = op[u].r
Current(u) == op[u].kind = "write" => op[u].v = ghost[0] \cup {u}
AccessInv == ~raced =>
  /\ reg = ghost
  /\ \A u \in Users, w \in Users : u # w => ~InFlight(u) \/ ~InFlight(w)
  /\ Running => \A u \in Users : Addressed(u) /\ Current(u)

-----------------------------------------------------------------------------
(* How an access moves on. *)
LEMMA Moved ==
  ASSUME AccessTypes, NEW u \in Users, NEW pc \in Places, Goto(u, pc)
  PROVE  /\ op' \in [Users -> Accesses]
         /\ op'[u].pc = pc /\ op'[u].kind = op[u].kind /\ op'[u].r = op[u].r
         /\ op'[u].v = op[u].v
         /\ \A w \in Users \ {u} : op'[w] = op[w]
BY SMTT(30) DEF AccessTypes, Accesses, Goto

LEMMA Returned ==
  ASSUME AccessTypes, NEW u \in Users, Return(u)
  PROVE  /\ op' \in [Users -> Accesses]
         /\ op'[u].pc = "idle" /\ op'[u].kind = "none"
         /\ \A w \in Users \ {u} : op'[w] = op[w]
<1>1. Idle \in Accesses /\ Idle.pc = "idle" /\ Idle.kind = "none"
  BY RegistersAssumption DEF Idle, Accesses, Places, Regs
<1> QED BY <1>1 DEF AccessTypes, Return

LEMMA ZeroReg == 0 \in Regs
BY RegistersAssumption DEF Regs

(* A step that neither reaches the tetrad nor puts an access in flight.     *)
LEMMA QuietStep ==
  ASSUME AccessTypes, AccessInv, NEW u \in Users,
         UNCHANGED <<mode, adr, reg, ghost, raced>>,
         op' \in [Users -> Accesses], \A w \in Users \ {u} : op'[w] = op[w],
         Fits(op'[u]),
         InFlight(u)' => InFlight(u),
         op'[u].pc \in {"poll", "data"} \cup Waits =>
           op[u].pc \in {"poll", "data"} \cup Waits /\ op'[u].r = op[u].r,
         op'[u].kind = "write" => op[u].kind = "write" /\ op'[u].v = op[u].v
  PROVE  AccessTypes' /\ AccessInv'
<1>1. AccessTypes'
  BY DEF AccessTypes
<1>2. ASSUME ~raced, NEW w \in Users, NEW x \in Users, w # x
      PROVE  ~InFlight(w)' \/ ~InFlight(x)'
  <2>1. InFlight(w)' => InFlight(w)
    BY DEF InFlight
  <2>2. InFlight(x)' => InFlight(x)
    BY DEF InFlight
  <2> QED BY <1>2, <2>1, <2>2 DEF AccessInv
<1>3. ASSUME ~raced, Running, NEW w \in Users
      PROVE  Addressed(w)' /\ Current(w)'
  <2>1. Addressed(w) /\ Current(w)
    BY <1>3 DEF AccessInv
  <2> QED BY <2>1 DEF Addressed, Current
<1>4. (Running' <=> Running) /\ raced' = raced
  BY DEF Running
<1> QED BY <1>1, <1>2, <1>3, <1>4 DEF AccessInv

(* BRD_MODE is written: a reset clears the tetrad, and a write with an      *)
(* access in flight disturbs it.                                            *)
LEMMA ModeStep ==
  ASSUME AccessTypes, AccessInv, NEW a, NEW new, WriteMode(a, new), op' = op
  PROVE  AccessTypes' /\ AccessInv'
<1>1. Clear \in [Regs -> SUBSET Users]
  BY DEF Clear
<1>2. AccessTypes'
  BY <1>1, ZeroReg DEF AccessTypes, WriteMode
<1>3. ASSUME ~raced'
      PROVE  /\ \A u \in Users : ~InFlight(u)
             /\ reg' = ghost'
  BY <1>3 DEF WriteMode, AccessInv
<1>4. ASSUME ~raced', NEW u \in Users
      PROVE  ~InFlight(u)' /\ Addressed(u)' /\ Current(u)'
  <2>1. ~InFlight(u)
    BY <1>3, <1>4
  <2> QED BY <2>1 DEF InFlight, Addressed, Current, Waits
<1> QED BY <1>2, <1>3, <1>4 DEF AccessInv

LEMMA BringUpAccess ==
  ASSUME AccessTypes, AccessInv, NEW a \in Agents, BringUp(a)
  PROVE  AccessTypes' /\ AccessInv'
<1>1. op' = op
  BY DEF BringUp, Begin, Release, Status, ResetOff, ReadMode, FlagsOut, FlagsIn, Fail, Report,
     FlagsOff, Only
<1>2. Reads \/ \E new : WriteMode(a, new)
  BY DEF BringUp, Begin, Release, Status, ResetOff, ReadMode, FlagsOut, FlagsIn, Fail, Report,
     FlagsOff
<1>3. CASE Reads
  <2>1. UNCHANGED <<mode, adr, reg, ghost, raced, op>>
    BY <1>1, <1>3 DEF Reads
  <2> QED BY <2>1 DEF AccessTypes, AccessInv, Running, InFlight, Addressed, Current
<1> QED BY <1>1, <1>2, <1>3, ModeStep

(* CMD_ADR is written: undisturbed, no other access is in flight.           *)
LEMMA AddressStep ==
  ASSUME AccessTypes, AccessInv, NEW u \in Users, NEW pc \in {"poll", "arm"},
         WriteAdr(u, op[u].r), Goto(u, pc), op[u].pc = "adr",
         pc = "poll" => op[u].kind \in {"peek", "poke"},
         pc = "arm" => op[u].kind \in {"read", "write"},
         UNCHANGED <<mode, reg, ghost>>
  PROVE  AccessTypes' /\ AccessInv'
<1>0. pc \in Places
  BY DEF Places, Waits
<1>1. /\ op' \in [Users -> Accesses]
      /\ op'[u].pc = pc /\ op'[u].kind = op[u].kind /\ op'[u].r = op[u].r
      /\ op'[u].v = op[u].v
      /\ \A w \in Users \ {u} : op'[w] = op[w]
  BY <1>0, Moved
<1>2. AccessTypes'
  <2>1. Fits(op'[u])
    BY <1>1 DEF Fits, Waits, AccessTypes
  <2>2. adr' \in Regs
    BY DEF WriteAdr, AccessTypes, Accesses
  <2> QED BY <1>1, <2>1, <2>2 DEF AccessTypes
<1>3. ASSUME ~raced', NEW w \in Users, w # u
      PROVE  ~raced /\ ~InFlight(w) /\ ~InFlight(w)'
  BY <1>1, <1>3, ZenonT(30) DEF WriteAdr, InFlight
<1>4. ASSUME ~raced'
      PROVE  ~raced /\ reg' = ghost'
  BY <1>4 DEF WriteAdr, AccessInv
<1>5. ASSUME ~raced', Running', NEW w \in Users
      PROVE  Addressed(w)' /\ Current(w)'
  <2>1. ~raced /\ Running
    BY <1>4, <1>5 DEF Running
  <2>2. CASE w = u
    <3>1. adr' = op[u].r /\ Current(u)
      BY <2>1 DEF WriteAdr, AccessInv
    <3> QED BY <2>2, <3>1, <1>1 DEF Addressed, Current
  <2>3. CASE w # u
    BY <1>3, <1>5, <2>3 DEF InFlight, Addressed, Current, Waits
  <2> QED BY <2>2, <2>3
<1> QED BY <1>2, <1>3, <1>4, <1>5 DEF AccessInv

LEMMA CallAccess ==
  ASSUME AccessTypes, AccessInv, NEW u \in Users, Call(u)
  PROVE  AccessTypes' /\ AccessInv'
<1>1. PICK k \in {"peek", "poke", "read"}, r \in Regs, v \in {{}, {u}} :
        /\ k = "read" => r = 0
        /\ op' = [op EXCEPT ![u] = [Idle EXCEPT !.pc = IF k = "read" THEN "down" ELSE "adr",
                                      !.kind = k, !.r = r, !.v = v]]
  BY DEF Call
<1> DEFINE pc == IF k = "read" THEN "down" ELSE "adr"
           o == [Idle EXCEPT !.pc = pc, !.kind = k, !.r = r, !.v = v]
<1>2. pc \in Places /\ pc \in {"down", "adr"} /\ (pc = "down" => k = "read")
  BY DEF Places
<1>3. op' = [op EXCEPT ![u] = o]
  BY <1>1
<1> HIDE DEF pc
<1>4. /\ o \in Accesses /\ o.pc = pc /\ o.kind = k /\ o.r = r
  BY <1>2 DEF Idle, Accesses
<1> HIDE DEF o
<1>5. /\ op' \in [Users -> Accesses] /\ op'[u] = o
      /\ \A w \in Users \ {u} : op'[w] = op[w]
  BY <1>3, <1>4 DEF AccessTypes
<1>6. Fits(op'[u])
  BY <1>1, <1>2, <1>4, <1>5 DEF Fits, Waits
<1>7. ~InFlight(u)' /\ op'[u].pc \notin {"poll", "data"} \cup Waits /\ op'[u].kind # "write"
  BY <1>2, <1>4, <1>5 DEF InFlight, Waits
<1>8. UNCHANGED <<mode, adr, reg, ghost, raced>>
  BY DEF Call, board
<1> QED BY <1>5, <1>6, <1>7, <1>8, QuietStep

LEMMA PollAccess ==
  ASSUME AccessTypes, AccessInv, NEW u \in Users, Poll(u) \/ PollExam(u)
  PROVE  AccessTypes' /\ AccessInv'
<1>1. UNCHANGED <<mode, adr, reg, ghost, raced>> /\ op[u].pc = "poll"
  BY DEF Poll, PollExam, board
<1>2. \/ Goto(u, "data") \/ Return(u)
      \/ op' = [op EXCEPT ![u].n = @ + 1]
  BY DEF Poll, PollExam, Return
<1>3. CASE Goto(u, "data")
  <2>1. "data" \in Places
    BY DEF Places
  <2>2. /\ op' \in [Users -> Accesses]
        /\ op'[u].pc = "data" /\ op'[u].kind = op[u].kind /\ op'[u].r = op[u].r
        /\ op'[u].v = op[u].v
        /\ \A w \in Users \ {u} : op'[w] = op[w]
    BY <1>3, <2>1, Moved
  <2>3. Fits(op'[u])
    BY <1>1, <2>2 DEF Fits, Waits, AccessTypes
  <2>4. InFlight(u)
    BY <1>1 DEF InFlight
  <2> QED BY <1>1, <2>2, <2>3, <2>4, QuietStep
<1>4. CASE Return(u)
  <2>1. /\ op' \in [Users -> Accesses]
        /\ op'[u].pc = "idle" /\ op'[u].kind = "none"
        /\ \A w \in Users \ {u} : op'[w] = op[w]
    BY <1>4, Returned
  <2>2. Fits(op'[u]) /\ ~InFlight(u)' /\ op'[u].pc \notin {"poll", "data"} \cup Waits
    BY <2>1 DEF Fits, InFlight, Waits
  <2> QED BY <1>1, <2>1, <2>2, QuietStep
<1>5. CASE op' = [op EXCEPT ![u].n = @ + 1]
  <2>1. /\ op' \in [Users -> Accesses]
        /\ op'[u].pc = op[u].pc /\ op'[u].kind = op[u].kind /\ op'[u].r = op[u].r
        /\ op'[u].v = op[u].v
        /\ \A w \in Users \ {u} : op'[w] = op[w]
    BY <1>5 DEF AccessTypes, Accesses
  <2>2. Fits(op'[u])
    BY <2>1 DEF Fits, AccessTypes
  <2>3. InFlight(u)
    BY <1>1 DEF InFlight
  <2> QED BY <1>1, <2>1, <2>2, <2>3, QuietStep
<1> QED BY <1>2, <1>3, <1>4, <1>5

(* The access to CMD_DATA: with an address of its own, it reaches the       *)
(* register it names.                                                       *)
LEMMA WriteStep ==
  ASSUME AccessTypes, AccessInv, NEW u \in Users, NEW v \in SUBSET Users,
         NEW e \in SUBSET Users, Return(u), InFlight(u),
         ~raced /\ Running => adr = op[u].r /\ e = v,
         op[u].r \in Regs,
         reg' = IF Running THEN [reg EXCEPT ![adr] = v] ELSE reg,
         ghost' = IF Running THEN [ghost EXCEPT ![op[u].r] = e] ELSE ghost,
         UNCHANGED <<mode, adr, raced>>
  PROVE  AccessTypes' /\ AccessInv'
<1>1. /\ op' \in [Users -> Accesses]
      /\ op'[u].pc = "idle" /\ op'[u].kind = "none"
      /\ \A w \in Users \ {u} : op'[w] = op[w]
  BY Returned
<1>2. AccessTypes'
  <2>1. Fits(op'[u])
    BY <1>1 DEF Fits, Waits
  <2>2. reg' \in [Regs -> SUBSET Users] /\ ghost' \in [Regs -> SUBSET Users]
    BY DEF AccessTypes
  <2> QED BY <1>1, <2>1, <2>2 DEF AccessTypes
<1>3. ASSUME ~raced'
      PROVE  reg' = ghost'
  BY <1>3 DEF AccessInv, AccessTypes
<1>4. ASSUME ~raced', NEW w \in Users
      PROVE  ~InFlight(w)' /\ Addressed(w)' /\ Current(w)'
  <2>1. CASE w = u
    BY <1>1, <2>1 DEF InFlight, Addressed, Current, Waits
  <2>2. CASE w # u
    <3>1. ~InFlight(w)
      BY <1>4, <2>2 DEF AccessInv
    <3> QED BY <1>1, <2>2, <3>1 DEF InFlight, Addressed, Current, Waits
  <2> QED BY <2>1, <2>2
<1> QED BY <1>2, <1>3, <1>4 DEF AccessInv

LEMMA LibraryAccess ==
  ASSUME AccessTypes, AccessInv, NEW u \in Users, Library(u)
  PROVE  AccessTypes' /\ AccessInv'
<1>1. CASE SetAddress(u)
  <2>1. /\ WriteAdr(u, op[u].r) /\ Goto(u, "poll") /\ op[u].pc = "adr"
        /\ op[u].kind \in {"peek", "poke"} /\ UNCHANGED <<mode, reg, ghost>>
    BY <1>1 DEF SetAddress, Direct, board
  <2> QED BY <2>1, AddressStep
<1>2. CASE Poll(u) \/ PollExam(u)
  BY <1>2, PollAccess
<1>3. CASE Peek(u)
  <2>1. /\ Return(u) /\ UNCHANGED <<mode, adr, reg, ghost, raced>>
    BY <1>3 DEF Peek, board
  <2>2. /\ op' \in [Users -> Accesses]
        /\ op'[u].pc = "idle" /\ op'[u].kind = "none"
        /\ \A w \in Users \ {u} : op'[w] = op[w]
    BY <2>1, Returned
  <2>3. Fits(op'[u]) /\ ~InFlight(u)' /\ op'[u].pc \notin {"poll", "data"} \cup Waits
    BY <2>2 DEF Fits, InFlight, Waits
  <2> QED BY <2>1, <2>2, <2>3, QuietStep
<1>4. CASE Poke(u)
  <2>1. /\ Return(u) /\ UNCHANGED <<mode, adr, raced>> /\ op[u].pc = "data"
        /\ reg' = IF Running THEN [reg EXCEPT ![adr] = op[u].v] ELSE reg
        /\ ghost' = IF Running THEN [ghost EXCEPT ![op[u].r] = op[u].v] ELSE ghost
    BY <1>4 DEF Poke, WriteData, board
  <2>2. InFlight(u) /\ (~raced /\ Running => adr = op[u].r)
    BY <2>1 DEF InFlight, AccessInv, Addressed
  <2>3. op[u].v \in SUBSET Users /\ op[u].r \in Regs
    BY DEF AccessTypes, Accesses
  <2> QED BY <2>1, <2>2, <2>3, WriteStep
<1> QED BY <1>1, <1>2, <1>3, <1>4 DEF Library

LEMMA DrqAccess ==
  ASSUME AccessTypes, AccessInv, NEW u \in Users, Drq(u)
  PROVE  AccessTypes' /\ AccessInv'
<1>1. CASE Down(u)
  <2>1. /\ Goto(u, "adr") /\ op[u].pc = "down" /\ UNCHANGED <<mode, adr, reg, ghost, raced>>
    BY <1>1 DEF Down, board
  <2>2. "adr" \in Places
    BY DEF Places
  <2>3. /\ op' \in [Users -> Accesses]
        /\ op'[u].pc = "adr" /\ op'[u].kind = op[u].kind /\ op'[u].r = op[u].r
        /\ op'[u].v = op[u].v
        /\ \A w \in Users \ {u} : op'[w] = op[w]
    BY <2>1, <2>2, Moved
  <2>4. Fits(op'[u]) /\ (InFlight(u)' => InFlight(u))
    BY <2>1, <2>3 DEF Fits, Waits, AccessTypes, InFlight
  <2>5. op'[u].pc \notin {"poll", "data"} \cup Waits
    BY <2>3 DEF Waits
  <2> QED BY <2>1, <2>3, <2>4, <2>5, QuietStep
<1>2. CASE CmdAddress(u)
  <2>1. op[u].pc = "adr" /\ ~Direct(u) /\ WriteAdr(u, 0) /\ Goto(u, "arm")
        /\ UNCHANGED <<mode, reg, ghost>>
    BY <1>2 DEF CmdAddress, board
  <2>2. op[u] \in Accesses /\ Fits(op[u])
    BY DEF AccessTypes
  <2>3. op[u].kind \in {"read", "write"} \/ op[u].kind = "none"
    BY <2>1, <2>2 DEF Direct, Accesses
  <2>4. op[u].kind # "none"
    BY <2>1, <2>2 DEF Fits
  <2>5. op[u].r = 0
    BY <2>2, <2>3, <2>4 DEF Fits
  <2> QED BY <2>1, <2>3, <2>4, <2>5, AddressStep
<1>3. CASE \/ SetRelativeTimer(u) \/ ReadStatus(u) \/ TestTimeout(u) \/ CancelTimer(u)
           \/ (Result(u) /\ ~tmo)
  <2>1. PICK pc \in Waits : Goto(u, pc)
    BY <1>3 DEF SetRelativeTimer, ReadStatus, TestTimeout, CancelTimer, Result, Waits
  <2>2. op[u].pc \in Waits /\ UNCHANGED <<mode, adr, reg, ghost, raced>>
    BY <1>3 DEF SetRelativeTimer, ReadStatus, TestTimeout, CancelTimer, Result, Waits, board
  <2>3. pc \in Places
    BY <2>1 DEF Places
  <2>4. /\ op' \in [Users -> Accesses]
        /\ op'[u].pc = pc /\ op'[u].kind = op[u].kind /\ op'[u].r = op[u].r
        /\ op'[u].v = op[u].v
        /\ \A w \in Users \ {u} : op'[w] = op[w]
    BY <2>1, <2>3, Moved
  <2>5. Fits(op'[u]) /\ InFlight(u)
    BY <2>1, <2>2, <2>4 DEF Fits, Waits, AccessTypes, InFlight
  <2> QED BY <2>2, <2>4, <2>5, QuietStep
<1>4. CASE Result(u) /\ tmo
  <2>1. Return(u) /\ UNCHANGED <<mode, adr, reg, ghost, raced>>
    BY <1>4 DEF Result, board
  <2>2. /\ op' \in [Users -> Accesses]
        /\ op'[u].pc = "idle" /\ op'[u].kind = "none"
        /\ \A w \in Users \ {u} : op'[w] = op[w]
    BY <2>1, Returned
  <2>3. Fits(op'[u]) /\ ~InFlight(u)' /\ op'[u].pc \notin {"poll", "data"} \cup Waits
    BY <2>2 DEF Fits, InFlight, Waits
  <2> QED BY <2>1, <2>2, <2>3, QuietStep
<1>5. CASE ReadRegData(u)
  <2> DEFINE val == reg[adr] \cup {u}
  <2>1. /\ op[u].pc = "access" /\ op[u].kind = "read"
        /\ UNCHANGED <<mode, adr, reg, ghost, raced>>
        /\ op' = [op EXCEPT ![u].kind = "write", ![u].pc = "adr", ![u].v = val]
    BY <1>5 DEF ReadRegData, board
  <2>2. val \in SUBSET Users
    BY DEF AccessTypes
  <2>3. ~raced /\ Running => val = ghost[0] \cup {u}
    BY <2>1 DEF AccessInv, Addressed, AccessTypes, Fits, Waits
  <2> HIDE DEF val
  <2>4. /\ op' \in [Users -> Accesses]
        /\ op'[u].pc = "adr" /\ op'[u].kind = "write" /\ op'[u].r = op[u].r
        /\ op'[u].v = val
        /\ \A w \in Users \ {u} : op'[w] = op[w]
    BY <2>1, <2>2 DEF AccessTypes, Accesses, Places
  <2>5. AccessTypes'
    BY <2>1, <2>4 DEF AccessTypes, Fits, Waits
  <2>6. ASSUME ~raced', NEW w \in Users, w # u
        PROVE  ~InFlight(w) /\ ~InFlight(w)'
    BY <2>1, <2>4, <2>6 DEF AccessInv, InFlight
  <2>7. ASSUME ~raced', Running', NEW w \in Users
        PROVE  Addressed(w)' /\ Current(w)'
    <3>1. CASE w = u
      BY <2>1, <2>3, <2>4, <2>7, <3>1 DEF Addressed, Current, Running, Waits
    <3>2. CASE w # u
      BY <2>6, <2>4, <2>7, <3>2 DEF InFlight, Addressed, Current, Waits
    <3> QED BY <3>1, <3>2
  <2>8. ~raced' => reg' = ghost'
    BY <2>1 DEF AccessInv
  <2> QED BY <2>5, <2>6, <2>7, <2>8 DEF AccessInv
<1>6. CASE WriteRegData(u)
  <2> DEFINE e == ghost[0] \cup {u}
  <2>1. /\ Return(u) /\ UNCHANGED <<mode, adr, raced>>
        /\ op[u].pc = "access" /\ op[u].kind = "write"
        /\ reg' = IF Running THEN [reg EXCEPT ![adr] = op[u].v] ELSE reg
        /\ ghost' = IF Running THEN [ghost EXCEPT ![0] = e] ELSE ghost
    BY <1>6 DEF WriteRegData, board
  <2>2. op[u].r = 0 /\ op[u].v \in SUBSET Users /\ e \in SUBSET Users
    BY <2>1, ZeroReg DEF AccessTypes, Accesses, Fits
  <2>3. InFlight(u) /\ (~raced /\ Running => adr = op[u].r /\ e = op[u].v)
    BY <2>1 DEF InFlight, AccessInv, Addressed, Current, Waits
  <2> HIDE DEF e
  <2> QED BY <2>1, <2>2, <2>3, ZeroReg, WriteStep
<1> QED BY <1>1, <1>2, <1>3, <1>4, <1>5, <1>6 DEF Drq

LEMMA AccessInit == Init => AccessTypes /\ AccessInv
<1> SUFFICES ASSUME Init PROVE AccessTypes /\ AccessInv
  OBVIOUS
<1>1. /\ Idle \in Accesses /\ Idle.pc = "idle" /\ Idle.kind = "none"
  BY ZeroReg DEF Idle, Accesses, Places
<1>2. Clear \in [Regs -> SUBSET Users]
  BY DEF Clear
<1>3. /\ op \in [Users -> Accesses]
      /\ \A u \in Users : op[u].pc = "idle" /\ op[u].kind = "none"
  BY <1>1 DEF Init
<1>4. AccessTypes
  BY <1>2, <1>3, ZeroReg DEF AccessTypes, Fits, Init, Waits
<1> QED BY <1>3, <1>4 DEF AccessInv, Init, InFlight, Addressed, Current, Waits

LEMMA AccessStep == AccessTypes /\ AccessInv /\ [Next]_vars => AccessTypes' /\ AccessInv'
<1> SUFFICES ASSUME AccessTypes, AccessInv, [Next]_vars
             PROVE  AccessTypes' /\ AccessInv'
  OBVIOUS
<1>1. CASE \E a \in Agents : BringUp(a)
  BY <1>1, BringUpAccess
<1>2. CASE \E u \in Users : Call(u) \/ Library(u) \/ Drq(u)
  BY <1>2, CallAccess, LibraryAccess, DrqAccess
<1>3. CASE Expire \/ TimeoutTimerCallback \/ UNCHANGED vars
  <2>1. UNCHANGED <<mode, adr, reg, ghost, raced, op>>
    BY <1>3 DEF Expire, TimeoutTimerCallback, vars, board
  <2> QED BY <2>1 DEF AccessTypes, AccessInv, Running, InFlight, Addressed, Current
<1> QED BY <1>1, <1>2, <1>3 DEF Next

(* Any number of programs that share the one CMD_ADR of a tetrad with each  *)
(* other and with IOCTL_AMB_SET_DRQ: an access that nobody and no reset came*)
(* between reaches the register it names, the registers are as if accesses  *)
(* were atomic, and no DRQ flag is lost.                                    *)
THEOREM AccessesAreAtomic == Spec => []AtomicRegisters
<1>1. AccessInv => AtomicRegisters
  BY DEF AccessInv, AtomicRegisters, Addressed
<1> QED BY <1>1, AccessInit, AccessStep, PTL DEF Spec

-----------------------------------------------------------------------------
(* The bring-up: types, ...                                                 *)
Modes == [m : Nat, out : Nat]
Pcs == {"off", "clkOut", "sleep", "clkIn", "status", "reset", "flags", "out", "in", "fail",
        "pld", "last", "done"}
BringUps == [pc : Pcs, kind : {"none", "InitializeBoard", "core_init", "board_init"},
             i : Nat, temp : BOOLEAN, brd : Modes, idx : Nat]

Suits(a) ==
  LET s == init[a] IN
  /\ s.pc = "off" <=> s.kind = "none"
  /\ s.kind = "InitializeBoard" => a = "driver"
  /\ a = "driver" => s.kind \in {"none", "InitializeBoard"}
  /\ s.kind = "core_init" => s.pc \in {"clkOut", "sleep", "clkIn", "status", "reset", "done"}

BringUpTypes ==
  /\ mode \in Modes
  /\ slv \in BOOLEAN /\ pld \in BOOLEAN /\ mixed \in BOOLEAN
  /\ init \in [Agents -> BringUps]
  /\ \A a \in Agents : Suits(a)

(* ... who may be at the board while nothing is mixed, ...                  *)
Alone ==
  /\ init["driver"].pc # "done" => \A u \in Users : init[u].pc = "off"
  /\ \A a \in Agents, b \in Agents :
       a # b /\ Busy(a) /\ Busy(b) => init[a].kind = "core_init" /\ init[b].kind = "core_init"

(* ... what one that tests the clock and the flags has written, ...         *)
Good == IF slv THEN 15 ELSE 0
Tracked(a) ==
  LET s == init[a] IN
  s.kind # "core_init" =>
    /\ s.pc = "reset" => s.temp = slv
    /\ s.pc = "flags" => slv /\ mode.m = 15
    /\ s.pc = "out" => slv /\ s.brd.m = 15
    /\ s.pc = "in" => slv /\ s.brd.m = 15 /\ mode.m = 15 /\ mode.out = s.idx
    /\ s.pc = "fail" => ~slv /\ ~s.temp
    /\ s.pc = "pld" => s.temp = slv /\ mode.m = Good
    /\ s.pc = "last" => s.brd.m = Good

(* ... and what is left when everyone has finished.                         *)
Used(kind) == \E u \in Users : init[u].kind = kind
Settled ==
  /\ init["driver"].pc \in {"last", "done"} => pld = slv
  /\ init["driver"].pc = "done" /\ (\A u \in Users : ~Busy(u)) =>
       /\ slv \/ (Used("core_init") /\ ~Used("board_init")) => mode = Mode(15, 0)
       /\ ~slv /\ ~Used("core_init") => mode = Mode(0, 0)

BringUpInv == ~mixed => Alone /\ (\A a \in Agents : Tracked(a)) /\ Settled

-----------------------------------------------------------------------------
(* A step of a is described by its record and by what it does to BRD_MODE.  *)
LEMMA BringUpFrame ==
  ASSUME BringUpTypes, NEW a \in Agents, BringUp(a)
  PROVE  /\ slv' = slv
         /\ init[a].pc # "done"
         /\ Reads \/ \E new \in Modes : WriteMode(a, new)
<1>1. slv' = slv
  BY DEF BringUp, Begin, Release, Status, ResetOff, ReadMode, FlagsOut, FlagsIn, Fail, Report,
     FlagsOff, Only
<1>2. init[a].pc # "done"
  BY DEF BringUp, Begin, Release, Status, ResetOff, ReadMode, FlagsOut, FlagsIn, Fail, Report,
     FlagsOff, Sequence
<1>3. CASE Release(a)
  <2>1. PICK s \in {1, 3, 7} : WriteMode(a, Mode(s, 0))
    BY <1>3 DEF Release, Sequence
  <2> QED BY <1>1, <1>2, <2>1 DEF Mode, Modes
<1>4. CASE FlagsOut(a) \/ FlagsOff(a)
  <2>1. init[a] \in BringUps
    BY DEF BringUpTypes
  <2>2. init[a].brd.m \in Nat /\ init[a].idx \in Nat
    BY <2>1 DEF BringUps, Modes
  <2>3. Mode(init[a].brd.m, init[a].idx) \in Modes /\ Mode(init[a].brd.m, 0) \in Modes
    BY <2>2 DEF Mode, Modes
  <2> QED BY <1>1, <1>2, <1>4, <2>3 DEF FlagsOut, FlagsOff
<1>5. CASE Begin(a) \/ ResetOff(a) \/ Fail(a)
  BY <1>1, <1>2, <1>5 DEF Begin, ResetOff, Fail, Mode, Modes
<1>6. CASE Status(a) \/ ReadMode(a) \/ FlagsIn(a) \/ Report(a)
  BY <1>1, <1>2, <1>6 DEF Status, ReadMode, FlagsIn, Report
<1> QED BY <1>3, <1>4, <1>5, <1>6 DEF BringUp

(* The others, and who may be at the board.                                 *)
LEMMA OthersStep ==
  ASSUME BringUpTypes, BringUpInv, ~mixed', NEW a \in Agents,
         slv' = slv, init[a].pc # "done",
         init' \in [Agents -> BringUps], \A b \in Agents \ {a} : init'[b] = init[b],
         \/ Reads /\ Busy(a) /\ init'[a].kind = init[a].kind
         \/ \E new \in Modes : WriteMode(a, new)
  PROVE  /\ ~mixed /\ Alone'
         /\ \A b \in Agents \ {a} : Tracked(b)'
<1>1. ~mixed
  BY DEF Reads, WriteMode
<1>a. "driver" \in Agents /\ (\A u \in Users : u \in Agents) /\ (a # "driver" => a \in Users)
  BY DEF Agents
<1>b. Alone /\ \A b \in Agents : Tracked(b)
  BY <1>1 DEF BringUpInv
<1>2. ASSUME init'["driver"].pc # "done", NEW u \in Users
      PROVE  init'[u].pc = "off"
  <2>1. init["driver"].pc # "done"
    BY <1>2, <1>a
  <2>2. init[u].pc = "off"
    BY <1>b, <2>1 DEF Alone
  <2>3. a = "driver"
    <3>1. CASE Reads /\ Busy(a)
      BY <3>1, <1>a, <1>b, <2>1 DEF Alone, Busy
    <3>2. CASE \E new \in Modes : WriteMode(a, new)
      BY <3>2, <2>1 DEF WriteMode
    <3> QED BY <3>1, <3>2
  <2>4. u # "driver"
    BY RegistersAssumption
  <2> QED BY <2>2, <2>3, <2>4, <1>a
<1>3. ASSUME NEW b \in Agents, b # a, Busy(b)
      PROVE  init'[a].kind = "core_init" /\ init[b].kind = "core_init"
  <2>1. CASE Reads /\ Busy(a) /\ init'[a].kind = init[a].kind
    BY <2>1, <1>3, <1>b DEF Alone
  <2>2. CASE \E new \in Modes : WriteMode(a, new)
    BY <2>2, <1>3 DEF WriteMode, BothLibrary
  <2> QED BY <2>1, <2>2
<1>4. ASSUME NEW b \in Agents, NEW c \in Agents, b # c, Busy(b)', Busy(c)'
      PROVE  init'[b].kind = "core_init" /\ init'[c].kind = "core_init"
  <2>1. CASE b = a
    BY <2>1, <1>3, <1>4 DEF Busy
  <2>2. CASE c = a
    BY <2>2, <1>3, <1>4 DEF Busy
  <2>3. CASE b # a /\ c # a
    BY <2>3, <1>4, <1>b DEF Busy, Alone
  <2> QED BY <2>1, <2>2, <2>3
<1>5. ASSUME NEW b \in Agents \ {a}
      PROVE  Tracked(b)'
  <2>1. CASE Reads
    BY <2>1, <1>5, <1>b DEF Reads, Tracked, Good
  <2>2. CASE ~Busy(b)
    BY <2>2, <1>5 DEF Tracked, Busy
  <2>3. CASE Busy(b) /\ ~Reads
    BY <2>3, <1>3, <1>5 DEF Tracked
  <2> QED BY <2>1, <2>2, <2>3
<1>6. Alone'
  BY <1>2, <1>4 DEF Alone
<1> QED BY <1>1, <1>5, <1>6

(* A step of a, once what it does to a's own record is known.               *)
LEMMA OwnStep ==
  ASSUME BringUpTypes, BringUpInv, NEW a \in Agents, BringUp(a),
         init' \in [Agents -> BringUps], \A b \in Agents \ {a} : init'[b] = init[b],
         Suits(a)', pld' \in BOOLEAN,
         \/ Reads /\ Busy(a) /\ init'[a].kind = init[a].kind
         \/ \E new \in Modes : WriteMode(a, new),
         ~mixed' /\ ~mixed /\ Alone /\ Tracked(a) /\ Settled /\ slv' = slv => Tracked(a)' /\ Settled'
  PROVE  BringUpTypes' /\ BringUpInv'
<1>1. /\ slv' = slv
      /\ init[a].pc # "done"
  BY BringUpFrame
<1>2. mode' \in Modes /\ mixed' \in BOOLEAN
  BY <1>1 DEF Reads, WriteMode, BringUpTypes
<1>3. \A b \in Agents : Suits(b)'
  BY DEF BringUpTypes, Suits
<1>4. BringUpTypes'
  BY <1>1, <1>2, <1>3 DEF BringUpTypes
<1>5. ASSUME ~mixed'
      PROVE  Alone' /\ (\A b \in Agents : Tracked(b)') /\ Settled'
  <2>1. /\ ~mixed /\ Alone'
        /\ \A b \in Agents \ {a} : Tracked(b)'
    BY <1>1, <1>5, OthersStep
  <2>2. Alone /\ Tracked(a) /\ Settled
    BY <2>1 DEF BringUpInv
  <2>3. Tracked(a)' /\ Settled'
    BY <1>1, <1>5, <2>1, <2>2
  <2> QED BY <2>1, <2>3
<1>6. BringUpInv'
  BY <1>5 DEF BringUpInv
<1> QED BY <1>4, <1>6

(* Before a has reported, nothing is settled. *)
LEMMA StillBusy ==
  ASSUME NEW a \in Agents, Settled, slv' = slv, pld' = pld,
         \A b \in Agents \ {a} : init'[b] = init[b],
         init'[a].pc \notin {"off", "last", "done"}
  PROVE  Settled'
<1>1. "driver" \in Agents /\ (a # "driver" => a \in Users)
  BY DEF Agents
<1>2. CASE a = "driver"
  BY <1>2 DEF Settled
<1>3. CASE a # "driver"
  <2>1. Busy(a)' /\ init'["driver"] = init["driver"]
    BY <1>1, <1>3 DEF Busy
  <2> QED BY <1>1, <1>3, <2>1 DEF Settled
<1> QED BY <1>2, <1>3

LEMMA ToStep ==
  ASSUME BringUpTypes, NEW a \in Agents, NEW pc \in Pcs, To(a, pc)
  PROVE  /\ init' \in [Agents -> BringUps]
         /\ \A b \in Agents \ {a} : init'[b] = init[b]
         /\ init'[a].pc = pc /\ init'[a].kind = init[a].kind
         /\ init'[a].temp = init[a].temp /\ init'[a].brd = init[a].brd
         /\ init'[a].idx = init[a].idx
BY DEF BringUpTypes, BringUps, To

LEMMA DoneStep ==
  ASSUME BringUpTypes, NEW a \in Agents, Done(a)
  PROVE  /\ init' \in [Agents -> BringUps]
         /\ \A b \in Agents \ {a} : init'[b] = init[b]
         /\ init'[a].pc = "done" /\ init'[a].kind = init[a].kind
<1> DEFINE k == init[a].kind
           s == [Off EXCEPT !.pc = "done", !.kind = k]
<1>1. k \in {"none", "InitializeBoard", "core_init", "board_init"}
  BY DEF BringUpTypes, BringUps
<1>2. init' = [init EXCEPT ![a] = s]
  BY DEF Done
<1> HIDE DEF k
<1>3. s \in BringUps /\ s.pc = "done" /\ s.kind = k
  BY <1>1 DEF Off, BringUps, Pcs, Modes, Mode
<1> HIDE DEF s
<1> QED BY <1>2, <1>3 DEF BringUpTypes, k

LEMMA BeginUp ==
  ASSUME BringUpTypes, BringUpInv, NEW a \in Agents, Begin(a)
  PROVE  BringUpTypes' /\ BringUpInv'
<1>1. PICK k \in {"InitializeBoard", "core_init", "board_init"} :
        /\ k = "InitializeBoard" <=> a = "driver"
        /\ init' = [init EXCEPT ![a].pc = "clkOut", ![a].kind = k]
  BY DEF Begin
<1>2. /\ init' \in [Agents -> BringUps]
      /\ \A b \in Agents \ {a} : init'[b] = init[b]
      /\ init'[a].pc = "clkOut" /\ init'[a].kind = k
  BY <1>1, ZenonT(30) DEF BringUpTypes, BringUps, Pcs
<1>3. Suits(a)' /\ Tracked(a)'
  BY <1>1, <1>2 DEF Suits, Tracked
<1>4. pld' = pld /\ WriteMode(a, Mode(0, 0)) /\ init[a].pc = "off"
  BY DEF Begin
<1>5. Settled /\ slv' = slv => Settled'
  BY <1>2, <1>4, StillBusy
<1>6. Mode(0, 0) \in Modes
  BY DEF Mode, Modes
<1> QED BY <1>2, <1>3, <1>4, <1>5, <1>6, OwnStep DEF BringUp, BringUpTypes

LEMMA ReleaseUp ==
  ASSUME BringUpTypes, BringUpInv, NEW a \in Agents, Release(a)
  PROVE  BringUpTypes' /\ BringUpInv'
<1>1. PICK m \in {1, 3, 7}, pc \in {"sleep", "clkIn", "status"} :
        To(a, pc) /\ WriteMode(a, Mode(m, 0))
  BY DEF Release, Sequence
<1>2. pc \in Pcs /\ Mode(m, 0) \in Modes
  BY DEF Pcs, Mode, Modes
<1>3. /\ init' \in [Agents -> BringUps]
      /\ \A b \in Agents \ {a} : init'[b] = init[b]
      /\ init'[a].pc = pc /\ init'[a].kind = init[a].kind
  BY <1>1, <1>2, ToStep
<1>4. init[a].pc \in {"clkOut", "sleep", "clkIn"} /\ pld' = pld
  BY DEF Release, Sequence
<1>5. Suits(a)' /\ Tracked(a)'
  <2>1. Suits(a)
    BY DEF BringUpTypes
  <2> QED BY <2>1, <1>3, <1>4 DEF Suits, Tracked
<1>6. Settled /\ slv' = slv => Settled'
  BY <1>3, <1>4, StillBusy
<1> QED BY <1>1, <1>2, <1>3, <1>4, <1>5, <1>6, OwnStep DEF BringUp, BringUpTypes

LEMMA StatusUp ==
  ASSUME BringUpTypes, BringUpInv, NEW a \in Agents, Status(a)
  PROVE  BringUpTypes' /\ BringUpInv'
<1> DEFINE pc == IF slv \/ init[a].i + 1 = MaxTries THEN "reset" ELSE "clkOut"
           n == init[a].i + 1
<1>1. pc \in {"reset", "clkOut"} /\ pc \in Pcs /\ n \in Nat
  BY DEF Pcs, BringUpTypes, BringUps
<1>2. init' = [init EXCEPT ![a].temp = slv, ![a].i = n, ![a].pc = pc]
  BY DEF Status
<1> HIDE DEF pc, n
<1>3. /\ init' \in [Agents -> BringUps]
      /\ \A b \in Agents \ {a} : init'[b] = init[b]
      /\ init'[a].pc = pc /\ init'[a].kind = init[a].kind
      /\ init'[a].temp = slv
  BY <1>1, <1>2, ZenonT(30) DEF BringUpTypes, BringUps
<1>4. init[a].pc = "status" /\ pld' = pld /\ Reads
  BY DEF Status
<1>5. Suits(a)' /\ (slv' = slv => Tracked(a)')
  <2>1. Suits(a)
    BY DEF BringUpTypes
  <2> QED BY <2>1, <1>1, <1>3, <1>4 DEF Suits, Tracked
<1>6. Settled /\ slv' = slv => Settled'
  BY <1>1, <1>3, <1>4, StillBusy
<1> QED BY <1>3, <1>4, <1>5, <1>6, OwnStep DEF BringUp, BringUpTypes, Busy

LEMMA ResetUp ==
  ASSUME BringUpTypes, BringUpInv, NEW a \in Agents, ResetOff(a)
  PROVE  BringUpTypes' /\ BringUpInv'
<1>1. init[a].pc = "reset" /\ pld' = pld /\ WriteMode(a, Mode(15, 0)) /\ Suits(a)
  BY DEF ResetOff, BringUpTypes
<1>2. Mode(15, 0) \in Modes /\ Mode(15, 0).m = 15 /\ mode' = Mode(15, 0)
  BY <1>1 DEF Mode, Modes, WriteMode
<1>3. CASE init[a].kind = "core_init"
  <2>1. /\ init' \in [Agents -> BringUps]
        /\ \A b \in Agents \ {a} : init'[b] = init[b]
        /\ init'[a].pc = "done" /\ init'[a].kind = init[a].kind
    BY <1>3, DoneStep DEF ResetOff
  <2>2. Suits(a)' /\ Tracked(a)'
    BY <2>1, <1>1, <1>3 DEF Suits, Tracked
  <2>3. a # "driver" /\ a \in Users /\ "driver" \in Agents
    BY <1>1, <1>3 DEF Suits, Agents
  <2>4. Used("core_init")'
    BY <2>1, <2>3, <1>3 DEF Used
  <2>5. Settled /\ slv' = slv => Settled'
    <3>1. init'["driver"] = init["driver"]
      BY <2>1, <2>3
    <3> QED BY <3>1, <2>4, <1>1, <1>2 DEF Settled, Mode
  <2> QED BY <1>1, <1>2, <2>1, <2>2, <2>5, OwnStep DEF BringUp, BringUpTypes
<1>4. CASE init[a].kind # "core_init"
  <2> DEFINE pc == IF init[a].temp THEN "flags" ELSE "fail"
  <2>1. pc \in Pcs /\ pc \in {"flags", "fail"} /\ To(a, pc)
    BY <1>4 DEF ResetOff, Pcs
  <2>2. /\ init' \in [Agents -> BringUps]
        /\ \A b \in Agents \ {a} : init'[b] = init[b]
        /\ init'[a].pc = pc /\ init'[a].kind = init[a].kind
        /\ init'[a].temp = init[a].temp
    BY <2>1, ToStep
  <2>3. Suits(a)'
    BY <2>1, <2>2, <1>1, <1>4 DEF Suits
  <2>4. Tracked(a) /\ slv' = slv => Tracked(a)'
    <3>1. SUFFICES ASSUME Tracked(a), slv' = slv PROVE Tracked(a)'
      OBVIOUS
    <3>2. init[a].temp = slv
      BY <3>1, <1>1, <1>4 DEF Tracked
    <3>3. CASE slv
      BY <3>1, <3>2, <3>3, <2>2, <1>2 DEF Tracked
    <3>4. CASE ~slv
      BY <3>1, <3>2, <3>4, <2>2, <1>2 DEF Tracked
    <3> QED BY <3>3, <3>4
  <2>5. Settled /\ slv' = slv => Settled'
    BY <1>1, <2>1, <2>2, StillBusy
  <2> HIDE DEF pc
  <2> QED BY <1>1, <1>2, <2>2, <2>3, <2>4, <2>5, OwnStep DEF BringUp, BringUpTypes
<1> QED BY <1>3, <1>4

LEMMA FlagsUp ==
  ASSUME BringUpTypes, BringUpInv, NEW a \in Agents, ReadMode(a) \/ FlagsOut(a)
  PROVE  BringUpTypes' /\ BringUpInv'
<1>0. Suits(a) /\ mode \in Modes /\ init[a] \in BringUps
  BY DEF BringUpTypes
<1>1. CASE ReadMode(a)
  <2>1. /\ init' \in [Agents -> BringUps]
        /\ \A b \in Agents \ {a} : init'[b] = init[b]
        /\ init'[a].pc = "out" /\ init'[a].kind = init[a].kind /\ init'[a].brd = mode
    <3> DEFINE r == [init[a] EXCEPT !.pc = "out", !.brd = mode]
    <3>1. init' = [init EXCEPT ![a] = r]
      BY <1>1 DEF ReadMode, BringUpTypes
    <3>2. /\ r \in BringUps /\ r.pc = "out" /\ r.kind = init[a].kind /\ r.brd = mode
      BY <1>0 DEF BringUps, Pcs
    <3> HIDE DEF r
    <3> QED BY <3>1, <3>2 DEF BringUpTypes
  <2>2. init[a].pc = "flags" /\ pld' = pld /\ Reads
    BY <1>1 DEF ReadMode
  <2>3. Suits(a)'
    BY <1>0, <2>1, <2>2 DEF Suits
  <2>4. Tracked(a) /\ slv' = slv => Tracked(a)'
    BY <2>1, <2>2 DEF Tracked
  <2>5. Settled /\ slv' = slv => Settled'
    BY <2>1, <2>2, StillBusy
  <2> QED BY <1>1, <2>1, <2>2, <2>3, <2>4, <2>5, OwnStep DEF BringUp, BringUpTypes, Busy
<1>2. CASE FlagsOut(a)
  <2> DEFINE new == Mode(init[a].brd.m, init[a].idx)
  <2>1. new \in Modes /\ new.m = init[a].brd.m /\ new.out = init[a].idx
    BY <1>0 DEF BringUps, Modes, Mode
  <2>2. /\ init[a].pc = "out" /\ pld' = pld /\ WriteMode(a, new) /\ To(a, "in")
    BY <1>2 DEF FlagsOut
  <2>3. mode' = new
    BY <2>2 DEF WriteMode
  <2> HIDE DEF new
  <2>4. "in" \in Pcs
    BY DEF Pcs
  <2>5. /\ init' \in [Agents -> BringUps]
        /\ \A b \in Agents \ {a} : init'[b] = init[b]
        /\ init'[a].pc = "in" /\ init'[a].kind = init[a].kind /\ init'[a].idx = init[a].idx
        /\ init'[a].brd = init[a].brd
    BY <2>2, <2>4, ToStep
  <2>6. Suits(a)'
    BY <1>0, <2>2, <2>5 DEF Suits
  <2>7. Tracked(a) /\ slv' = slv => Tracked(a)'
    BY <2>1, <2>2, <2>3, <2>5 DEF Tracked
  <2>8. Settled /\ slv' = slv => Settled'
    BY <2>2, <2>5, StillBusy
  <2> QED BY <1>2, <2>1, <2>2, <2>5, <2>6, <2>7, <2>8, OwnStep DEF BringUp, BringUpTypes
<1> QED BY <1>1, <1>2

LEMMA FlagsInUp ==
  ASSUME BringUpTypes, BringUpInv, NEW a \in Agents, FlagsIn(a)
  PROVE  BringUpTypes' /\ BringUpInv'
<1>0. Suits(a) /\ mode \in Modes /\ init[a] \in BringUps
  BY DEF BringUpTypes
<1> DEFINE j == IF mode.out = init[a].idx /\ init[a].idx < 3 THEN init[a].idx + 1
                ELSE init[a].idx
           t == (mode.out = init[a].idx)
           pc == IF mode.out # init[a].idx THEN "fail"
                 ELSE IF init[a].idx < 3 THEN "out" ELSE "pld"
<1>1. /\ j \in Nat /\ t \in BOOLEAN /\ pc \in Pcs /\ pc \in {"fail", "out", "pld"}
      /\ mode.out = init[a].idx => t = TRUE /\ pc \in {"out", "pld"}
  BY <1>0 DEF BringUps, Pcs
<1>2. init' = [init EXCEPT ![a].idx = j, ![a].temp = t, ![a].pc = pc]
  BY DEF FlagsIn
<1> HIDE DEF j, t, pc
<1>3. /\ init' \in [Agents -> BringUps]
      /\ \A b \in Agents \ {a} : init'[b] = init[b]
      /\ init'[a].pc = pc /\ init'[a].kind = init[a].kind
      /\ init'[a].temp = t /\ init'[a].brd = init[a].brd
  BY <1>1, <1>2, ZenonT(30) DEF BringUpTypes, BringUps
<1>4. init[a].pc = "in" /\ pld' = pld /\ Reads /\ mode' = mode
  BY DEF FlagsIn, Reads
<1>5. Suits(a)'
  BY <1>0, <1>1, <1>3, <1>4 DEF Suits
<1>6. ASSUME Tracked(a), slv' = slv
      PROVE  Tracked(a)'
  <2>1. CASE init[a].kind = "core_init"
    BY <1>3, <2>1 DEF Tracked
  <2>2. CASE init[a].kind # "core_init"
    <3>1. slv /\ init[a].brd.m = 15 /\ mode.m = 15 /\ mode.out = init[a].idx
      BY <1>4, <1>6, <2>2 DEF Tracked
    <3>2. t = TRUE /\ pc \in {"out", "pld"}
      BY <1>1, <3>1
    <3> QED BY <1>3, <1>4, <1>6, <3>1, <3>2 DEF Tracked, Good
  <2> QED BY <2>1, <2>2
<1>7. Settled /\ slv' = slv => Settled'
  BY <1>1, <1>3, <1>4, StillBusy
<1> QED BY <1>3, <1>4, <1>5, <1>6, <1>7, OwnStep DEF BringUp, BringUpTypes, Busy

LEMMA FailUp ==
  ASSUME BringUpTypes, BringUpInv, NEW a \in Agents, Fail(a)
  PROVE  BringUpTypes' /\ BringUpInv'
<1>0. Suits(a)
  BY DEF BringUpTypes
<1>1. /\ init[a].pc = "fail" /\ pld' = pld /\ WriteMode(a, Mode(0, 0)) /\ To(a, "pld")
  BY DEF Fail
<1>2. Mode(0, 0) \in Modes /\ mode'.m = 0 /\ "pld" \in Pcs
  BY <1>1 DEF Mode, Modes, WriteMode, Pcs
<1>3. /\ init' \in [Agents -> BringUps]
      /\ \A b \in Agents \ {a} : init'[b] = init[b]
      /\ init'[a].pc = "pld" /\ init'[a].kind = init[a].kind
      /\ init'[a].temp = init[a].temp
  BY <1>1, <1>2, ToStep
<1>4. Suits(a)'
  BY <1>0, <1>1, <1>3 DEF Suits
<1>5. Tracked(a) /\ slv' = slv => Tracked(a)'
  <2>1. init[a] \in BringUps /\ init[a].temp \in BOOLEAN /\ slv \in BOOLEAN
    BY DEF BringUpTypes, BringUps
  <2> QED BY <2>1, <1>1, <1>2, <1>3 DEF Tracked, Good
<1>6. Settled /\ slv' = slv => Settled'
  BY <1>1, <1>3, StillBusy
<1> QED BY <1>1, <1>2, <1>3, <1>4, <1>5, <1>6, OwnStep DEF BringUp, BringUpTypes

LEMMA ReportUp ==
  ASSUME BringUpTypes, BringUpInv, NEW a \in Agents, Report(a)
  PROVE  BringUpTypes' /\ BringUpInv'
<1>0. /\ Suits(a) /\ mode \in Modes /\ init[a] \in BringUps /\ init[a].temp \in BOOLEAN
      /\ "driver" \in Agents /\ (a # "driver" => a \in Users)
  BY DEF BringUpTypes, BringUps, Agents
<1>1. /\ init' \in [Agents -> BringUps]
      /\ \A b \in Agents \ {a} : init'[b] = init[b]
      /\ init'[a].pc = "last" /\ init'[a].kind = init[a].kind /\ init'[a].brd = mode
  <2> DEFINE r == [init[a] EXCEPT !.pc = "last", !.brd = mode]
  <2>1. init' = [init EXCEPT ![a] = r]
    BY DEF Report, BringUpTypes
  <2>2. /\ r \in BringUps /\ r.pc = "last" /\ r.kind = init[a].kind /\ r.brd = mode
    BY <1>0 DEF BringUps, Pcs
  <2> HIDE DEF r
  <2> QED BY <2>1, <2>2 DEF BringUpTypes
<1>2. /\ init[a].pc = "pld" /\ Reads
      /\ a = "driver" => pld' = init[a].temp
      /\ a # "driver" => pld' = pld
  BY DEF Report
<1>3. Suits(a)' /\ pld' \in BOOLEAN
  BY <1>0, <1>1, <1>2 DEF Suits, BringUpTypes
<1>4. Tracked(a) /\ slv' = slv => Tracked(a)'
  BY <1>1, <1>2 DEF Tracked, Good, Reads
<1>5. ASSUME Tracked(a), Settled, slv' = slv
      PROVE  Settled'
  <2>1. CASE a = "driver"
    <3>1. init[a].kind # "core_init"
      BY <1>0, <2>1 DEF Suits
    <3>2. pld' = slv'
      BY <1>2, <1>5, <2>1, <3>1 DEF Tracked
    <3> QED BY <1>1, <2>1, <3>2 DEF Settled
  <2>2. CASE a # "driver"
    <3>1. Busy(a)' /\ init'["driver"] = init["driver"]
      BY <1>0, <1>1, <2>2 DEF Busy
    <3> QED BY <1>0, <1>2, <1>5, <2>2, <3>1 DEF Settled
  <2> QED BY <2>1, <2>2
<1>6. Busy(a)
  BY <1>2 DEF Busy
<1> QED BY <1>1, <1>2, <1>3, <1>4, <1>5, <1>6, OwnStep DEF BringUp

LEMMA FlagsOffUp ==
  ASSUME BringUpTypes, BringUpInv, NEW a \in Agents, FlagsOff(a)
  PROVE  BringUpTypes' /\ BringUpInv'
<1>0. /\ Suits(a) /\ mode \in Modes /\ init[a] \in BringUps /\ slv \in BOOLEAN
      /\ "driver" \in Agents /\ (a # "driver" => a \in Users)
  BY DEF BringUpTypes, Agents
<1> DEFINE m == init[a].brd.m
<1>1. m \in Nat /\ Mode(m, 0) \in Modes
  BY <1>0 DEF BringUps, Modes, Mode
<1>2. /\ init[a].pc = "last" /\ pld' = pld /\ WriteMode(a, Mode(m, 0)) /\ Done(a)
  BY DEF FlagsOff
<1>3. /\ init' \in [Agents -> BringUps]
      /\ \A b \in Agents \ {a} : init'[b] = init[b]
      /\ init'[a].pc = "done" /\ init'[a].kind = init[a].kind
  BY <1>2, DoneStep
<1>4. init[a].kind \notin {"none", "core_init"} /\ mode' = Mode(m, 0)
  BY <1>0, <1>2 DEF Suits, WriteMode
<1>5. Suits(a)' /\ Tracked(a)'
  BY <1>0, <1>2, <1>3, <1>4 DEF Suits, Tracked
<1>6. ASSUME Tracked(a), Alone, Settled, slv' = slv
      PROVE  Settled'
  <2>1. m = Good
    BY <1>2, <1>4, <1>6 DEF Tracked
  <2>2. mode' = Mode(IF slv THEN 15 ELSE 0, 0)
    BY <1>4, <2>1 DEF Good
  <2>3. slv \/ ~(Used("core_init")' /\ ~Used("board_init")')
    <3>1. CASE a = "driver"
      <4>1. \A u \in Users : init[u].pc = "off" /\ u \in Agents /\ u # a
        BY <1>2, <1>6, <3>1, RegistersAssumption DEF Alone, Agents
      <4>2. \A u \in Users : init[u].kind = "none"
        BY <4>1 DEF BringUpTypes, Suits
      <4>3. \A u \in Users : init'[u].kind = "none"
        BY <1>3, <4>1, <4>2
      <4> QED BY <4>3 DEF Used
    <3>2. CASE a # "driver"
      <4>1. init[a].kind = "board_init"
        BY <1>0, <1>4, <3>2 DEF Suits, BringUps
      <4> QED BY <1>0, <1>3, <3>2, <4>1 DEF Used
    <3> QED BY <3>1, <3>2
  <2>4. init'["driver"].pc \in {"last", "done"} => pld' = slv'
    <3>1. CASE a = "driver"
      BY <1>2, <1>6, <3>1 DEF Settled
    <3>2. CASE a # "driver"
      BY <1>0, <1>2, <1>3, <1>6, <3>2 DEF Settled
    <3> QED BY <3>1, <3>2
  <2> QED BY <1>6, <2>2, <2>3, <2>4 DEF Settled
<1> HIDE DEF m
<1> QED BY <1>1, <1>2, <1>3, <1>5, <1>6, OwnStep DEF BringUp, BringUpTypes

LEMMA BringUpInit == Init => BringUpTypes /\ BringUpInv
<1> SUFFICES ASSUME Init PROVE BringUpTypes /\ BringUpInv
  OBVIOUS
<1>1. /\ Off \in BringUps /\ Off.pc = "off" /\ Off.kind = "none"
      /\ Mode(0, 0) \in Modes
  BY DEF Off, BringUps, Pcs, Mode, Modes
<1>2. /\ init \in [Agents -> BringUps]
      /\ \A a \in Agents : init[a].pc = "off" /\ init[a].kind = "none"
  BY <1>1 DEF Init
<1>3. BringUpTypes
  BY <1>1, <1>2 DEF BringUpTypes, Suits, Init
<1>4. "driver" \in Agents /\ \A u \in Users : u \in Agents
  BY DEF Agents
<1> QED BY <1>2, <1>3, <1>4 DEF BringUpInv, Alone, Tracked, Settled, Busy

LEMMA BringUpStep == BringUpTypes /\ BringUpInv /\ [Next]_vars => BringUpTypes' /\ BringUpInv'
<1> SUFFICES ASSUME BringUpTypes, BringUpInv, [Next]_vars
             PROVE  BringUpTypes' /\ BringUpInv'
  OBVIOUS
<1>1. ASSUME NEW a \in Agents, BringUp(a)
      PROVE  BringUpTypes' /\ BringUpInv'
  BY <1>1, BeginUp, ReleaseUp, StatusUp, ResetUp, FlagsUp, FlagsInUp, FailUp, ReportUp,
     FlagsOffUp DEF BringUp
<1>2. CASE UNCHANGED <<board, slv>>
  <2>1. UNCHANGED <<mode, init, pld, mixed, slv>>
    BY <1>2 DEF board
  <2> QED BY <2>1 DEF BringUpTypes, BringUpInv, Suits, Alone, Tracked, Good, Settled, Used, Busy
<1>3. ASSUME NEW u \in Users, Call(u) \/ Library(u) \/ Drq(u)
      PROVE  UNCHANGED <<board, slv>>
  <2>1. CASE Call(u)
    BY <2>1 DEF Call
  <2>2. CASE Library(u)
    BY <2>2 DEF Library, SetAddress, Poll, PollExam, Peek, Poke
  <2>3. CASE Drq(u)
    BY <2>3 DEF Drq, Down, CmdAddress, SetRelativeTimer, ReadStatus, TestTimeout, CancelTimer,
       Result, ReadRegData, WriteRegData
  <2> QED BY <1>3, <2>1, <2>2, <2>3
<1>4. Expire \/ TimeoutTimerCallback \/ UNCHANGED vars => UNCHANGED <<board, slv>>
  BY DEF Expire, TimeoutTimerCallback, vars
<1> QED BY <1>1, <1>2, <1>3, <1>4 DEF Next

(* Any number of programs that bring the board up with the library or with  *)
(* the exam program, after the driver and one exam program at a time: when  *)
(* nobody is at it BRD_MODE is what the clock and the last ones call for,   *)
(* and m_PldStatus tells of the clock.                                      *)
THEOREM BoardIsBroughtUp == Spec => []BroughtUp
<1>1. ASSUME BringUpInv
      PROVE  BroughtUp
  <2> DEFINE kinds == {init[u].kind : u \in Users}
  <2>1. \A k \in {"core_init", "board_init"} : k \in kinds <=> Used(k)
    BY DEF Used
  <2> HIDE DEF kinds
  <2>2. ~mixed => Settled
    BY <1>1 DEF BringUpInv
  <2>3. ~mixed /\ init["driver"].pc = "done" /\ ~(\E u \in Users : Busy(u)) =>
          /\ pld = slv
          /\ slv \/ ("core_init" \in kinds /\ "board_init" \notin kinds) => mode = Mode(15, 0)
          /\ ~slv /\ "core_init" \notin kinds => mode = Mode(0, 0)
    BY <2>1, <2>2 DEF Settled
  <2> QED BY <2>3 DEF BroughtUp, kinds
<1>2. BringUpInv => BroughtUp
  BY <1>1
<1> QED BY <1>2, BringUpInit, BringUpStep, PTL DEF Spec
===============================================================================
