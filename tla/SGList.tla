-------------------------------- MODULE SGList --------------------------------
(***************************************************************************)
(* The scatter/gather list of a channel: the driver builds it in tables of *)
(* DSCR_BLOCK_SIZE entries, one descriptor a block and a link to the next  *)
(* table after the descriptors of a full one, and marks the last           *)
(* descriptor at every start; the FPGA loads a table at a time, checks its *)
(* signature and CRC and follows the commands of the descriptors.          *)
(***************************************************************************)
EXTENDS Integers

CONSTANTS
  DSCR_BLOCK_SIZE,  \* entries of a table (64)
  BlockCounts       \* the sizes of buffers, in blocks

ASSUME SGListAssumption ==
  /\ DSCR_BLOCK_SIZE \in Nat /\ DSCR_BLOCK_SIZE > 2
  /\ BlockCounts \subseteq Nat \ {0}

VARIABLES
  pc,              \* "free", "fill": in the loop over the blocks, "ready"
  BlockCount,      \* m_BlockCount
  iBlock, iEntry,  \* of the loop
  table,           \* m_pScatterGatherTableExt, all tables in one array
  crc,             \* of each table: the contents its CRC was computed for
  cycling,         \* m_DmaCycling
  hw,              \* the walk of the FPGA: state, table, descriptor
  ram,             \* the table the FPGA has loaded
  filled           \* history: the block filled last, -1 at the start

driverVars == <<pc, BlockCount, iBlock, iEntry>>
tableVars == <<table, crc>>
vars == <<driverVars, tableVars, cycling, hw, ram, filled>>

(* An entry is a descriptor or, read with other field names, a link: addr   *)
(* holds the address of a block or of a table, cmd the bits of the command. *)
(* The signature of a link has the bits of some commands in it.             *)
Commands == {"JumpNextDescr", "JumpNextBlock", "JumpDescr0", "EndOfTrans"}
Signed == {"JumpNextDescr", "JumpNextBlock", "EndOfTrans", "Signature"}

Zero == [addr |-> <<"zero", 0>>, cmd |-> {}]
Descr(b, jump) == [addr |-> <<"block", b>>, cmd |-> {jump, "EndOfTrans"}]
Link(addr) == [addr |-> addr, cmd |-> Signed]

(* Mutant: m_ScatterGatherBlockCnt is not rounded up. *)
TablesDown(n) == n \div (DSCR_BLOCK_SIZE - 1)

(* m_ScatterGatherBlockCnt of a buffer of n blocks *)
Tables(n) ==
  IF n % (DSCR_BLOCK_SIZE - 1) # 0 THEN n \div (DSCR_BLOCK_SIZE - 1) + 1
  ELSE n \div (DSCR_BLOCK_SIZE - 1)

(* The entries of table t. *)
Contents(tab, t) ==
  [i \in 0 .. DSCR_BLOCK_SIZE - 1 |-> tab[DSCR_BLOCK_SIZE * t + i]]

NoTable == [i \in 0 .. DSCR_BLOCK_SIZE - 1 |-> Zero]
HwOff == [st |-> "off", tab |-> 0, idx |-> 0]

Init ==
  /\ pc = "free" /\ BlockCount = 0 /\ iBlock = 0 /\ iEntry = 0
  /\ table = <<>> /\ crc = <<>>
  /\ cycling = FALSE
  /\ hw = HwOff /\ ram = NoTable
  /\ filled = -1

-----------------------------------------------------------------------------
(* SetScatterGatherListExt: the tables are allocated and zeroed, ...        *)
Request(n) ==
  /\ pc = "free"
  /\ pc' = "fill"
  /\ BlockCount' = n /\ iBlock' = 0 /\ iEntry' = 0
  /\ table' = [e \in 0 .. DSCR_BLOCK_SIZE * Tables(n) - 1 |-> Zero]
  /\ filled' = -1
  /\ UNCHANGED <<crc, cycling, hw, ram>>

(* ... each block gets a descriptor, ...                                    *)
FillEntry ==
  /\ pc = "fill" /\ iBlock < BlockCount
  /\ (iEntry + 2) % DSCR_BLOCK_SIZE # 0
  /\ table' = [table EXCEPT ![iEntry] = Descr(iBlock, "JumpNextDescr")]
  /\ iEntry' = iEntry + 1 /\ iBlock' = iBlock + 1
  /\ UNCHANGED <<pc, BlockCount, crc, cycling, hw, ram, filled>>

(* Mutant: the link is not signed. *)
FillTableUnsigned ==
  /\ pc = "fill" /\ iBlock < BlockCount
  /\ (iEntry + 2) % DSCR_BLOCK_SIZE = 0
  /\ table' = [table EXCEPT
       ![iEntry] = Descr(iBlock, "JumpNextBlock"),
       ![iEntry + 1].addr = <<"table", (iEntry + 2) \div DSCR_BLOCK_SIZE>>]
  /\ iEntry' = iEntry + 2 /\ iBlock' = iBlock + 1
  /\ UNCHANGED <<pc, BlockCount, crc, cycling, hw, ram, filled>>

(* ... the last one of a table and a link to the next table, ...            *)
FillTable ==
  /\ pc = "fill" /\ iBlock < BlockCount
  /\ (iEntry + 2) % DSCR_BLOCK_SIZE = 0
  /\ table' = [table EXCEPT
       ![iEntry] = Descr(iBlock, "JumpNextBlock"),
       ![iEntry + 1] = Link(<<"table", (iEntry + 2) \div DSCR_BLOCK_SIZE>>)]
  /\ iEntry' = iEntry + 2 /\ iBlock' = iBlock + 1
  /\ UNCHANGED <<pc, BlockCount, crc, cycling, hw, ram, filled>>

(* The last descriptor does not go on, the entry after it has the address   *)
(* of the first table, and the last entry of the table is signed.           *)
Closed ==
  IF iEntry % DSCR_BLOCK_SIZE = 0 THEN table
  ELSE [table EXCEPT
         ![iEntry - 1].cmd = @ \ {"JumpNextDescr"},
         ![iEntry].addr = <<"table", 0>>,
         ![DSCR_BLOCK_SIZE * Tables(BlockCount) - 1] = Link(<<"zero", 0>>)]

(* ... the chain is closed and the CRC of every table computed.             *)
Close ==
  /\ pc = "fill" /\ iBlock = BlockCount
  /\ pc' = "ready"
  /\ table' = Closed
  /\ crc' = [t \in 0 .. Tables(BlockCount) - 1 |-> Contents(Closed, t)]
  /\ UNCHANGED <<BlockCount, iBlock, iEntry, cycling, hw, ram, filled>>

(* ReleaseSGList, once the channel is stopped *)
Release ==
  /\ pc = "ready" /\ hw.st = "off"
  /\ pc' = "free"
  /\ table' = <<>> /\ crc' = <<>>
  /\ UNCHANGED <<BlockCount, iBlock, iEntry, cycling, hw, ram, filled>>

-----------------------------------------------------------------------------
(* StartDmaTransfer: the last descriptor and the bit that makes it go on.   *)
LastDescr == BlockCount + Tables(BlockCount) - 2
CycleBit == IF Tables(BlockCount) = 1 THEN "JumpDescr0" ELSE "JumpNextBlock"

(* Mutant: the bit of an earlier cyclic transfer is left set. *)
MarkedSetOnly(c) ==
  IF c THEN [table EXCEPT ![LastDescr].cmd = @ \cup {CycleBit}] ELSE table

Marked(c) ==
  [table EXCEPT ![LastDescr].cmd =
     IF c THEN @ \cup {CycleBit} ELSE @ \ {CycleBit}]

(* Mutant: the CRC of the last table is not computed again. *)
StartNoCrc(c) ==
  /\ pc = "ready" /\ hw.st = "off"
  /\ cycling' = c /\ filled' = -1
  /\ table' = Marked(c)
  /\ hw' = [HwOff EXCEPT !.st = "load"]
  /\ UNCHANGED <<driverVars, crc, ram>>

(* The CRC of the last table is computed again; the channel is started.     *)
Start(c) ==
  /\ pc = "ready" /\ hw.st = "off"
  /\ cycling' = c /\ filled' = -1
  /\ table' = Marked(c)
  /\ crc' = [crc EXCEPT ![Tables(BlockCount) - 1] =
               Contents(Marked(c), Tables(BlockCount) - 1)]
  /\ hw' = [HwOff EXCEPT !.st = "load"]
  /\ UNCHANGED <<driverVars, ram>>

Stop ==
  /\ hw.st # "off"
  /\ hw' = HwOff
  /\ UNCHANGED <<driverVars, tableVars, cycling, ram, filled>>

-----------------------------------------------------------------------------
(* ctrl_ext_descriptor: the CRC is right and the last word is signed.       *)
Correct(t) ==
  /\ t \in DOMAIN crc /\ crc[t] = Contents(table, t)
  /\ "Signature" \in Contents(table, t)[DSCR_BLOCK_SIZE - 1].cmd

(* s1 .. s4, sr4 .. sr5_01: a table is loaded and checked; memory outside   *)
(* of the list holds no table.                                              *)
Load ==
  /\ hw.st = "load"
  /\ IF Correct(hw.tab)
     THEN ram' = Contents(table, hw.tab) /\ hw' = [hw EXCEPT !.st = "run", !.idx = 0]
     ELSE UNCHANGED ram /\ hw' = [hw EXCEPT !.st = "end"]
  /\ UNCHANGED <<driverVars, tableVars, cycling, filled>>

(* The table whose address the FPGA finds in entry i of the loaded one.     *)
TableAt(i) ==
  IF ram[i].addr[1] = "table" THEN ram[i].addr[2] ELSE Tables(BlockCount)

(* Mutant: JumpDescr0 does not go back to the first descriptor. *)
AfterNoReset(cmd) ==
  IF cmd \cap {"JumpNextDescr", "JumpDescr0"} # {}
  THEN [hw EXCEPT !.idx = @ + 1]
  ELSE IF "JumpNextBlock" \in cmd
  THEN [st |-> "load", tab |-> TableAt(hw.idx + 1), idx |-> 0]
  ELSE [hw EXCEPT !.st = "end"]

(* st2: where a descriptor with these commands leads *)
After(cmd) ==
  IF cmd \cap {"JumpNextDescr", "JumpDescr0"} # {}
  THEN [hw EXCEPT !.idx = IF "JumpDescr0" \in cmd THEN 0 ELSE @ + 1]
  ELSE IF "JumpNextBlock" \in cmd
  THEN [st |-> "load", tab |-> TableAt(hw.idx + 1), idx |-> 0]
  ELSE [hw EXCEPT !.st = "end"]

(* st1, st2: the block of the current descriptor is filled. *)
BlockEnd ==
  /\ hw.st = "run"
  /\ filled' = ram[hw.idx].addr[2]
  /\ hw' = After(ram[hw.idx].cmd)
  /\ UNCHANGED <<driverVars, tableVars, cycling, ram>>

-----------------------------------------------------------------------------
Next ==
  \/ \E n \in BlockCounts : Request(n)
  \/ FillEntry \/ FillTable \/ Close \/ Release
  \/ \E c \in BOOLEAN : Start(c)
  \/ Stop
  \/ Load \/ BlockEnd

Spec == Init /\ [][Next]_vars

(* The FPGA goes on. *)
FairSpec == Spec /\ WF_vars(Load) /\ WF_vars(BlockEnd)

-----------------------------------------------------------------------------
(* The loops stay in the tables, and a descriptor the FPGA works on is one  *)
(* of a block, never a link or an entry that was not filled.                *)
TypeOK ==
  /\ pc \in {"free", "fill", "ready"}
  /\ BlockCount \in BlockCounts \cup {0}
  /\ iBlock \in 0 .. BlockCount
  /\ iEntry \in 0 .. DSCR_BLOCK_SIZE * Tables(BlockCount)
  /\ cycling \in BOOLEAN
  /\ filled \in -1 .. BlockCount - 1
  /\ hw.st \in {"off", "load", "run", "end"} /\ hw.tab \in Nat
  /\ hw.st = "run" => ram[hw.idx].addr[1] = "block"

(* The FPGA loads only tables of the list. *)
WalkInList == hw.st = "load" => hw.tab < Tables(BlockCount)

(* A chain ends when every block is filled, and never in cyclic mode.       *)
EndsWhenFull == hw.st = "end" => ~cycling /\ filled = BlockCount - 1

Ring == INSTANCE BlockRing
          WITH count <- BlockCount, on <- hw.st # "off", last <- filled

(* The blocks are filled in order, round by round in cyclic mode only.      *)
RingSpec == Ring!Spec

(* A started transfer fills the whole buffer unless it is stopped.          *)
AllFilled ==
  hw.st = "load" /\ filled = -1 ~> filled = BlockCount - 1 \/ hw.st = "off"
===============================================================================
