------------------------------- MODULE DmaChan --------------------------------
(***************************************************************************)
(* The bookkeeping of one DMA channel in the driver (dmachan.c), as        *)
(* operators on two parts of struct CDmaChannel:                           *)
(*   stub  *m_pStub, shared with the user, and its copy m_State            *)
(*   run   m_DmaCycling, m_CurBlockNum, m_BlocksRemaining                  *)
(* Left out: totalCounter and m_CycleNum, which nothing in the driver      *)
(* tests, the stub's offset, which is always 0, and the agreed mode.       *)
(***************************************************************************)
EXTENDS Naturals

CONSTANTS
  BlockCount,  \* m_BlockCount, blocks of the circular buffer
  Word         \* 2^32, the modulus of u32; a small number when checking

ASSUME DmaChanAssumption ==
  /\ BlockCount \in Nat \ {0}
  /\ Word \in Nat /\ Word > BlockCount + 1

U32 == 0 .. Word - 1
MinusOne == Word - 1
Inc(u) == IF u = Word - 1 THEN 0 ELSE u + 1
Dec(u) == IF u = 0 THEN Word - 1 ELSE u - 1

Stub == [lastBlock : U32, state : {"NONE", "RUN", "STOP"}]
Run == [DmaCycling : BOOLEAN, CurBlockNum : U32, BlocksRemaining : U32]

(* RequestMemory, and kzalloc for what it leaves alone *)
NewStub == [lastBlock |-> MinusOne, state |-> "STOP"]
NewState == [lastBlock |-> 0, state |-> "NONE"]
NewRun == [DmaCycling |-> FALSE, CurBlockNum |-> 0, BlocksRemaining |-> 0]

(* StartDmaTransfer *)
StartStub == [lastBlock |-> MinusOne, state |-> "RUN"]
StartRun(cycling) == [DmaCycling |-> cycling, CurBlockNum |-> 0,
                      BlocksRemaining |-> BlockCount]

(* Mutant: off by one at the end of the buffer. *)
NextStubLate(s) ==
  [s EXCEPT !.lastBlock = IF Inc(@) > BlockCount THEN 0 ELSE Inc(@)]

(* NextDmaTransfer counts the block ... *)
NextStub(s) ==
  [s EXCEPT !.lastBlock = IF Inc(@) >= BlockCount THEN 0 ELSE Inc(@)]
NextRun(r) == [r EXCEPT !.CurBlockNum = Inc(@), !.BlocksRemaining = Dec(@)]

(* Mutant: a round ends one block early. *)
WrapRunEarly(r) ==
  IF r.BlocksRemaining <= 1 /\ r.DmaCycling
  THEN [r EXCEPT !.BlocksRemaining = BlockCount, !.CurBlockNum = 0]
  ELSE r

(* ... and, once the tasklet is scheduled, wraps round. *)
WrapRun(r) ==
  IF r.BlocksRemaining = 0 /\ r.DmaCycling
  THEN [r EXCEPT !.BlocksRemaining = BlockCount, !.CurBlockNum = 0]
  ELSE r

(* CompleteDmaTransfer *)
CompleteStub(s) == [s EXCEPT !.state = "STOP"]
===============================================================================
