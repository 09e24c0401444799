--------------------------- MODULE StreamRing_proof ---------------------------
(***************************************************************************)
(* StreamRing for every ring of at least four blocks, every number of      *)
(* blocks and every number of runs: its types, and that the program        *)
(* receives the data of this run in order as long as it is not lapped.     *)
(* The argument numbers the blocks of a run: three numbers, how many the   *)
(* channel has begun, how many the handler has counted and how many the    *)
(* program has taken, determine every index and counter of the driver and  *)
(* of the library, and the ring holds the last BlockCount blocks begun.    *)
(***************************************************************************)
EXTENDS StreamRing, Integers, TLAPS

(* The block of the ring that holds block number s of a run; the index kept *)
(* when the first k have been counted or taken.                             *)
At(s) == s % BlockCount
LastOf(k) == IF k = 0 THEN MinusOne ELSE At(k - 1)

-----------------------------------------------------------------------------
(* The arithmetic of the ring.  From here on `%' is not expanded.           *)

LEMMA Constants ==
  /\ BlockCount \in Nat /\ BlockCount >= 4
  /\ Word \in Nat /\ Word > BlockCount + 1
  /\ MinusOne = Word - 1 /\ MinusOne \in U32
  /\ MaxRuns \in Nat /\ MaxBlocks \in Nat
BY DmaChanAssumption, StreamRingAssumption DEF MinusOne, U32

(* Division with remainder, and that the remainder is unique.               *)
LEMMA Division ==
  ASSUME NEW s \in Nat
  PROVE  /\ s \div BlockCount \in Nat /\ At(s) \in 0 .. BlockCount - 1
         /\ s = BlockCount * (s \div BlockCount) + At(s)
BY Constants DEF At

LEMMA Remainder ==
  ASSUME NEW q \in Int, NEW r \in 0 .. BlockCount - 1
  PROVE  At(BlockCount * q + r) = r
BY Constants DEF At

(* A block number names a block of the ring.                                *)
LEMMA AtIsBlock ==
  ASSUME NEW s \in Nat
  PROVE  At(s) \in Blocks /\ At(s) \in Nat /\ At(s) < BlockCount /\ At(s) \in U32
BY Division, Constants DEF Blocks, U32

(* In the first round it is the block of that number.                       *)
LEMMA AtFirstRound ==
  ASSUME NEW s \in 0 .. BlockCount - 1
  PROVE  At(s) = s
BY Constants DEF At

(* The next block number names the next block, the last one is followed by 0. *)
LEMMA AtNext ==
  ASSUME NEW s \in Nat
  PROVE  At(s + 1) = IF At(s) + 1 = BlockCount THEN 0 ELSE At(s) + 1
<1> DEFINE q == s \div BlockCount
           r == At(s)
<1>1. q \in Nat /\ r \in 0 .. BlockCount - 1 /\ s = BlockCount * q + r
  BY Division
<1> HIDE DEF q, r
<1>2. CASE r + 1 = BlockCount
  <2>1. s + 1 = BlockCount * (q + 1) + 0
    BY <1>1, <1>2, Constants
  <2>2. At(BlockCount * (q + 1) + 0) = 0
    BY <1>1, Remainder, Constants DEF At
  <2> QED BY <2>1, <2>2, <1>2 DEF r
<1>3. CASE r + 1 # BlockCount
  <2>1. s + 1 = BlockCount * q + (r + 1)
    BY <1>1, <1>3, Constants
  <2>2. At(BlockCount * q + (r + 1)) = r + 1
    BY <1>1, <1>3, Remainder, Constants DEF At
  <2> QED BY <2>1, <2>2, <1>3 DEF r
<1> QED BY <1>2, <1>3

(* A whole round later the block is the same ...                            *)
LEMMA AtRound ==
  ASSUME NEW s \in Nat
  PROVE  At(s + BlockCount) = At(s)
<1> DEFINE q == s \div BlockCount
           r == At(s)
<1>1. q \in Nat /\ r \in 0 .. BlockCount - 1 /\ s = BlockCount * q + r
  BY Division
<1> HIDE DEF q, r
<1>2. s + BlockCount = BlockCount * (q + 1) + r
  BY <1>1, Constants
<1>3. At(BlockCount * (q + 1) + r) = r
  BY <1>1, Remainder, Constants DEF At
<1> QED BY <1>2, <1>3 DEF r

(* ... and sooner it is another.                                            *)
LEMMA AtDistinct ==
  ASSUME NEW s \in Nat, NEW t \in Nat, s < t, t < s + BlockCount
  PROVE  At(s) # At(t)
<1> SUFFICES ASSUME At(s) = At(t) PROVE FALSE
  OBVIOUS
<1> DEFINE q == s \div BlockCount
           p == t \div BlockCount
           r == At(s)
<1>1. q \in Nat /\ r \in 0 .. BlockCount - 1 /\ s = BlockCount * q + r
  BY Division
<1>2. p \in Nat /\ t = BlockCount * p + r
  BY Division
<1> HIDE DEF q, p, r
<1>3. BlockCount * q < BlockCount * p /\ BlockCount * p < BlockCount * q + BlockCount
  BY <1>1, <1>2, Constants
<1>4. CASE p <= q
  BY <1>4, <1>3, <1>1, <1>2, Constants
<1>5. CASE p >= q + 1
  BY <1>5, <1>3, <1>1, <1>2, Constants
<1> QED BY <1>4, <1>5, <1>1, <1>2

(* NextIndex of the library and NextDmaTransfer of the driver step an index *)
(* alike.                                                                   *)
LEMMA LastOfNext ==
  ASSUME NEW k \in Nat
  PROVE  /\ LastOf(k) \in U32
         /\ NextIndex(LastOf(k)) = LastOf(k + 1)
         /\ LastOf(k + 1) = At(k)
<1>1. LastOf(k + 1) = At(k)
  BY DEF LastOf
<1>2. CASE k = 0
  BY <1>1, <1>2, Constants, AtFirstRound DEF LastOf, NextIndex, Inc, MinusOne
<1>3. CASE k # 0
  <2>1. k - 1 \in Nat /\ (k - 1) + 1 = k
    BY <1>3
  <2>2. At(k) = IF At(k - 1) + 1 = BlockCount THEN 0 ELSE At(k - 1) + 1
    BY <2>1, AtNext
  <2>3. At(k - 1) \in U32 /\ At(k - 1) \in Nat /\ At(k - 1) < BlockCount
    BY <2>1, AtIsBlock
  <2>4. LastOf(k) = At(k - 1)
    BY <1>3 DEF LastOf
  <2>5. Inc(At(k - 1)) = At(k - 1) + 1
    BY <2>3, Constants DEF Inc
  <2>6. NextIndex(At(k - 1)) = At(k)
    BY <2>2, <2>3, <2>5, Constants DEF NextIndex
  <2> QED BY <1>1, <2>3, <2>4, <2>6
<1> QED BY <1>2, <1>3

-----------------------------------------------------------------------------
(* The three numbers of blocks, the last reported done, and the runs that   *)
(* the agreed mode is to protect.                                           *)
Counted == filled - hw.pending
Begun == IF hw.filling THEN filled + 1 ELSE filled
Reported == IF pc = "done" THEN taken - 1 ELSE taken
Guarded == cfg.agree /\ cfg.cycle /\ ~ignored /\ ~raced

(* The channel holds after two interrupts and fills only what is there.     *)
ChannelInv ==
  /\ hw.held <=> hw.pending = 2
  /\ hw.filling => hw.start /\ ~hw.held /\ hw.pos < BlockCount /\ filled < MaxBlocks
  /\ pc = "stopped" => hw = Off

(* The driver's counters say how many blocks the handler has counted.       *)
CountInv ==
  /\ hw.pending <= filled
  /\ run.DmaCycling = cfg.cycle
  /\ stub.lastBlock = LastOf(Counted)
  /\ \A k \in 1 .. 3 : done.pre[k] = At(Counted + k)

CycleInv == cfg.cycle =>
  /\ hw.start /\ hw.pos = At(filled)
  /\ run.CurBlockNum = At(Counted) /\ run.BlocksRemaining = BlockCount - At(Counted)

SingleInv == ~cfg.cycle =>
  /\ run.CurBlockNum = Counted /\ run.BlocksRemaining = BlockCount - Counted
  /\ filled <= BlockCount
  /\ IF hw.start THEN hw.pos = filled ELSE hw = Off /\ filled = BlockCount

(* The library's indices say how many blocks the program has taken, and,    *)
(* unless it was lapped, of how many it knows.                              *)
ReaderInv ==
  /\ strm.indexPc = LastOf(taken)
  /\ IF pc = "poll" THEN released = taken ELSE taken = released + 1
  /\ pc \in {"done", "flag"} => cfg.agree
  /\ lapped => filled >= BlockCount
  /\ ~lapped => /\ Begun <= released + BlockCount
                /\ \E k \in taken .. Counted : strm.indexDma = LastOf(k)

(* The ring holds the last BlockCount blocks begun.                         *)
RingInv ==
  /\ \A s \in 0 .. MaxBlocks : s < Begun /\ Begun <= s + BlockCount =>
       /\ ring[At(s)].run = runs /\ ring[At(s)].seq = s
       /\ ring[At(s)].whole <=> s < filled
  /\ \A b \in Blocks : b < Begun => ring[b].run = runs

(* The agreed mode: with the flag up the channel is far enough behind the   *)
(* block reported last that one more interrupt cannot bring it there.       *)
AgreeInv ==
  /\ cfg.agree => done.DoneBlock = LastOf(Reported)
  /\ Guarded =>
       /\ ~lapped /\ Begun + 2 <= Reported + BlockCount
       /\ done.DoneFlag => \/ Counted + 5 <= Reported + BlockCount
                           \/ Reported = 0 /\ Counted + 4 <= BlockCount
       /\ pc = "flag" => Counted + 5 <= taken + BlockCount

RunInv == pc # "stopped" =>
  CountInv /\ CycleInv /\ SingleInv /\ ReaderInv /\ RingInv /\ AgreeInv

Inv == TypeOK /\ ChannelInv /\ RunInv

-----------------------------------------------------------------------------
(* What the invariant says in arithmetic alone. *)
LEMMA Numbers ==
  ASSUME Inv
  PROVE  /\ filled \in Nat /\ taken \in Nat /\ released \in Nat /\ released <= taken
         /\ hw.pending \in 0 .. 2 /\ filled <= MaxBlocks
         /\ hw.start \in BOOLEAN /\ hw.filling \in BOOLEAN /\ hw.held \in BOOLEAN
         /\ hw.pos \in 0 .. BlockCount
         /\ Begun \in Nat /\ Begun <= MaxBlocks
         /\ pc # "stopped" => Counted \in Nat /\ filled = Counted + hw.pending
         /\ cfg.cycle \in BOOLEAN /\ cfg.agree \in BOOLEAN
<1>1. cfg \in [cycle : BOOLEAN, agree : BOOLEAN]
  BY StreamRingAssumption DEF Inv, TypeOK
<1>2. Begun \in Nat /\ Begun <= MaxBlocks
  BY Constants DEF Inv, TypeOK, ChannelInv, Begun
<1>3. pc # "stopped" => Counted \in Nat /\ filled = Counted + hw.pending
  BY DEF Inv, TypeOK, RunInv, CountInv, Counted
<1> QED BY <1>1, <1>2, <1>3 DEF Inv, TypeOK

LEMMA InitStep == Init => Inv
<1> SUFFICES ASSUME Init PROVE Inv
  OBVIOUS
<1>1. <<1, 2, 3>> \in [1 .. 3 -> Blocks]
  BY Constants DEF Blocks
<1>2. NewDone \in [DoneBlock : U32, DoneFlag : BOOLEAN, pre : [1 .. 3 -> Blocks]]
  BY <1>1, Constants DEF NewDone
<1>3. NewStub \in Stub /\ NewRun \in Run /\ NoIndex \in [indexDma : U32, indexPc : U32]
  BY Constants DEF NewStub, NewRun, NoIndex, Stub, Run, U32
<1>4. TypeOK
  <2>1. hw \in [start : BOOLEAN, filling : BOOLEAN, pending : 0 .. 2, held : BOOLEAN,
                pos : 0 .. BlockCount]
    BY Constants DEF Init, Off
  <2>2. ring \in [Blocks -> [run : 0 .. MaxRuns, seq : 0 .. MaxBlocks, whole : BOOLEAN]]
    BY Constants DEF Init
  <2>3. /\ stub \in Stub /\ run \in Run
        /\ done \in [DoneBlock : U32, DoneFlag : BOOLEAN, pre : [1 .. 3 -> Blocks]]
        /\ strm \in [indexDma : U32, indexPc : U32]
    BY <1>2, <1>3 DEF Init
  <2>4. /\ runs \in 0 .. MaxRuns /\ filled \in 0 .. MaxBlocks
        /\ taken \in Nat /\ released \in 0 .. taken
    BY Constants DEF Init
  <2>5. /\ cfg \in Configs /\ sched \in BOOLEAN
        /\ pc \in {"stopped", "poll", "done", "flag", "use"}
        /\ lapped \in BOOLEAN /\ ignored \in BOOLEAN /\ raced \in BOOLEAN
    BY DEF Init
  <2> QED BY <2>1, <2>2, <2>3, <2>4, <2>5 DEF TypeOK
<1>5. ChannelInv /\ RunInv
  BY DEF Init, ChannelInv, RunInv, Off
<1> QED BY <1>4, <1>5 DEF Inv

(* The channel begins a block: it overwrites the one BlockCount before it.  *)
LEMMA FillBeginStep ==
  ASSUME Inv, FillBegin
  PROVE  Inv'
<1> USE DEF FillBegin, hwVars, drvVars, userVars
<1>1. pc # "stopped" /\ hw.pending # 2
  BY DEF Inv, ChannelInv, TypeOK, Off
<1>2. /\ filled \in Nat /\ Counted \in Nat /\ filled = Counted + hw.pending
      /\ hw.pending \in 0 .. 2 /\ taken \in Nat /\ released \in Nat /\ hw.pos \in 0 .. BlockCount
      /\ hw.start \in BOOLEAN /\ hw.filling \in BOOLEAN /\ cfg.cycle \in BOOLEAN
  BY <1>1, Numbers
<1>3. /\ hw'.filling /\ hw'.start = hw.start /\ hw'.pos = hw.pos
      /\ hw'.pending = hw.pending /\ hw'.held = hw.held
  BY DEF Inv, TypeOK
<1>4. hw.pos = At(filled)
  <2>1. CASE cfg.cycle
    BY <1>1, <2>1 DEF Inv, RunInv, CycleInv
  <2>2. CASE ~cfg.cycle
    BY <1>1, <1>2, <2>2, AtFirstRound, Constants DEF Inv, RunInv, SingleInv
  <2> QED BY <2>1, <2>2
<1>5. Counted' = Counted /\ Begun' = filled + 1 /\ Begun = filled /\ Reported' = Reported
  BY <1>3 DEF Counted, Begun, Reported
<1>6. TypeOK'
  BY <1>2, Constants DEF Inv, TypeOK, Blocks
<1>7. ChannelInv'
  BY <1>1, <1>3 DEF Inv, ChannelInv
<1>8. CountInv'
  BY <1>1, <1>3, <1>5 DEF Inv, RunInv, CountInv
<1>9. CycleInv' /\ SingleInv'
  BY <1>1, <1>3, <1>5 DEF Inv, RunInv, CycleInv, SingleInv
<1>10. ReaderInv'
  <2>1. ReaderInv
    BY <1>1 DEF Inv, RunInv
  <2>2. lapped' => filled >= BlockCount
    BY <2>1, <1>2, Constants DEF ReaderInv
  <2>3. ~lapped' => ~lapped /\ filled + 1 <= released + BlockCount
    BY <1>2, Constants DEF Inv, TypeOK
  <2> QED BY <2>1, <2>2, <2>3, <1>5 DEF ReaderInv
<1>11. RingInv'
  <2>1. ASSUME NEW s \in 0 .. MaxBlocks, s < filled + 1, filled + 1 <= s + BlockCount
        PROVE  /\ ring'[At(s)].run = runs /\ ring'[At(s)].seq = s
               /\ ring'[At(s)].whole <=> s < filled
    <3>1. At(s) \in Blocks /\ At(filled) \in Blocks
      BY <1>2, AtIsBlock
    <3>2. CASE s = filled
      <4>1. ring'[At(s)] = [run |-> runs, seq |-> s, whole |-> FALSE]
        BY <3>1, <3>2, <1>4 DEF Inv, TypeOK
      <4> QED BY <4>1, <3>2, <1>2
    <3>3. CASE s < filled
      <4>1. At(s) # At(filled)
        BY <2>1, <3>3, <1>2, AtDistinct, Constants
      <4>2. /\ ring[At(s)].run = runs /\ ring[At(s)].seq = s
            /\ ring[At(s)].whole <=> s < filled
        BY <2>1, <3>3, <1>1, <1>2, <1>5, Constants DEF Inv, RunInv, RingInv
      <4> QED BY <4>1, <4>2, <3>1, <1>4 DEF Inv, TypeOK
    <3> QED BY <2>1, <3>2, <3>3, <1>2
  <2>2. ASSUME NEW b \in Blocks, b < filled + 1
        PROVE  ring'[b].run = runs
    <3>1. CASE b = hw.pos
      BY <3>1 DEF Inv, TypeOK
    <3>2. CASE b # hw.pos
      <4>1. b # filled
        BY <3>2, <1>4, AtFirstRound DEF Blocks
      <4>2. ring[b].run = runs
        BY <4>1, <2>2, <1>1, <1>2, <1>5, Constants DEF Inv, RunInv, RingInv, Blocks
      <4> QED BY <3>2, <4>2 DEF Inv, TypeOK
    <3> QED BY <3>1, <3>2
  <2> QED BY <2>1, <2>2, <1>5 DEF RingInv
<1>12. AgreeInv'
  <2>1. ASSUME Guarded'
        PROVE  /\ ~lapped' /\ Begun' + 2 <= Reported + BlockCount
    <3>1. Guarded /\ done.DoneFlag /\ ~lapped
      BY <2>1, <1>1 DEF Guarded, Inv, RunInv, AgreeInv
    <3>2. Reported <= released + 1 /\ Reported \in Nat
      BY <1>1, <1>2 DEF Inv, RunInv, ReaderInv, Reported
    <3>3. filled + 3 <= Reported + BlockCount
      BY <3>1, <3>2, <1>1, <1>2, Constants DEF Inv, RunInv, AgreeInv
    <3> QED BY <3>1, <3>2, <3>3, <1>2, <1>5, Constants
  <2>2. Guarded' => Guarded
    BY <1>1 DEF Guarded, Inv, TypeOK
  <2> QED BY <2>1, <2>2, <1>1, <1>5 DEF Inv, RunInv, AgreeInv
<1> QED BY <1>6, <1>7, <1>8, <1>9, <1>10, <1>11, <1>12 DEF Inv, RunInv

(* Records. *)
HwSet == [start : BOOLEAN, filling : BOOLEAN, pending : 0 .. 2, held : BOOLEAN,
          pos : 0 .. BlockCount]

LEMMA RunCount ==
  ASSUME NEW r \in Run, NEW b \in U32, NEW c \in U32
  PROVE  LET w == [r EXCEPT !.BlocksRemaining = b, !.CurBlockNum = c] IN
         w \in Run /\ w.BlocksRemaining = b /\ w.CurBlockNum = c /\ w.DmaCycling = r.DmaCycling
BY DEF Run

(* A block that is being filled is the one of number filled.                *)
LEMMA PosIsFilled ==
  ASSUME Inv, hw.start, pc # "stopped", hw.pos < BlockCount
  PROVE  hw.pos = At(filled)
<1>1. CASE cfg.cycle
  BY <1>1 DEF Inv, RunInv, CycleInv
<1>2. CASE ~cfg.cycle
  BY <1>2, Numbers, AtFirstRound, Constants DEF Inv, RunInv, SingleInv
<1> QED BY <1>1, <1>2

(* The channel completes a block and moves on.                              *)
LEMMA FillEndStep ==
  ASSUME Inv, FillEnd
  PROVE  Inv'
<1> USE DEF FillEnd, hwVars, drvVars, userVars
<1>1. /\ pc # "stopped" /\ ~hw.held /\ hw.start /\ hw.pending # 2
      /\ hw.pos < BlockCount /\ filled < MaxBlocks
  BY DEF Inv, ChannelInv, TypeOK, Off
<1>2. /\ filled \in Nat /\ Counted \in Nat /\ filled = Counted + hw.pending
      /\ hw.pending \in 0 .. 1 /\ taken \in Nat /\ released \in Nat /\ hw.pos \in 0 .. BlockCount - 1
      /\ cfg.cycle \in BOOLEAN
  BY <1>1, Numbers, Constants
<1> DEFINE p == hw.pending + 1
           b == hw.pending = 1
           q == IF hw.pos + 1 = BlockCount /\ run.DmaCycling THEN 0 ELSE hw.pos + 1
<1>3. /\ hw' \in HwSet /\ ~hw'.filling /\ hw'.start = hw.start
      /\ hw'.pending = hw.pending + 1 /\ hw'.held <=> hw.pending = 1
      /\ hw'.pos = IF hw.pos + 1 = BlockCount /\ run.DmaCycling THEN 0 ELSE hw.pos + 1
  <2>1. hw \in HwSet
    BY DEF Inv, TypeOK, HwSet
  <2>2. p \in 0 .. 2 /\ b \in BOOLEAN /\ q \in 0 .. BlockCount
    BY <1>2, Constants
  <2>3. hw' = [hw EXCEPT !.filling = FALSE, !.pending = p, !.held = b, !.pos = q]
    BY <2>1 DEF HwSet
  <2> HIDE DEF p, b, q, FillEnd
  <2>4. /\ hw' \in HwSet /\ hw'.filling = FALSE /\ hw'.start = hw.start
        /\ hw'.pending = p /\ hw'.held = b /\ hw'.pos = q
    BY <2>1, <2>2, <2>3 DEF HwSet
  <2> QED BY <2>4 DEF p, b, q
<1> HIDE DEF p, b, q
<1>4. hw.pos = At(filled) /\ run.DmaCycling = cfg.cycle
  BY <1>1, PosIsFilled DEF Inv, RunInv, CountInv
<1>5. Counted' = Counted /\ Begun' = filled + 1 /\ Begun = filled + 1 /\ Reported' = Reported
  BY <1>2, <1>3 DEF Counted, Begun, Reported
<1>6. TypeOK'
  <2>2. ring' \in [Blocks -> [run : 0 .. MaxRuns, seq : 0 .. MaxBlocks, whole : BOOLEAN]]
    BY <1>2, ZenonT(30) DEF Inv, TypeOK, Blocks
  <2>3. filled' \in 0 .. MaxBlocks
    BY <1>1, <1>2, Constants
  <2> QED BY <1>3, <2>2, <2>3 DEF Inv, TypeOK, HwSet
<1>7. ChannelInv'
  BY <1>1, <1>2, <1>3 DEF ChannelInv
<1>8. CountInv'
  BY <1>1, <1>2, <1>3, <1>5 DEF Inv, RunInv, CountInv
<1>9. CycleInv'
  BY <1>1, <1>2, <1>3, <1>4, <1>5, AtNext DEF Inv, RunInv, CycleInv
<1>10. SingleInv'
  BY <1>1, <1>2, <1>3, <1>4, <1>5, Constants DEF Inv, RunInv, SingleInv
<1>11. ReaderInv'
  <2>1. ReaderInv
    BY <1>1 DEF Inv, RunInv
  <2>2. lapped => filled + 1 >= BlockCount
    BY <2>1, <1>2, Constants DEF ReaderInv
  <2> QED BY <2>1, <2>2, <1>5 DEF ReaderInv
<1>12. RingInv'
  <2>1. ASSUME NEW s \in 0 .. MaxBlocks, s < filled + 1, filled + 1 <= s + BlockCount
        PROVE  /\ ring'[At(s)].run = runs /\ ring'[At(s)].seq = s
               /\ ring'[At(s)].whole <=> s < filled + 1
    <3>1. At(s) \in Blocks /\ At(filled) \in Blocks
      BY <1>2, AtIsBlock
    <3>2. /\ ring[At(s)].run = runs /\ ring[At(s)].seq = s
          /\ ring[At(s)].whole <=> s < filled
      BY <2>1, <1>1, <1>5 DEF Inv, RunInv, RingInv
    <3>3. CASE s = filled
      <4>1. ring'[At(s)] = [ring[At(s)] EXCEPT !.whole = TRUE]
        BY <3>1, <3>3, <1>4 DEF Inv, TypeOK
      <4>2. ring[At(s)] \in [run : 0 .. MaxRuns, seq : 0 .. MaxBlocks, whole : BOOLEAN]
        BY <3>1 DEF Inv, TypeOK
      <4>3. /\ ring'[At(s)].run = ring[At(s)].run /\ ring'[At(s)].seq = ring[At(s)].seq
            /\ ring'[At(s)].whole
        BY <4>1, <4>2
      <4> QED BY <4>3, <3>2, <3>3, <1>2
    <3>4. CASE s < filled
      <4>1. At(s) # At(filled)
        BY <2>1, <3>4, <1>2, AtDistinct, Constants
      <4>2. ring'[At(s)] = ring[At(s)]
        BY <4>1, <3>1, <1>4 DEF Inv, TypeOK
      <4> QED BY <4>2, <3>2, <3>4, <1>2
    <3> QED BY <2>1, <3>3, <3>4, <1>2
  <2>2. ASSUME NEW d \in Blocks, d < filled + 1
        PROVE  ring'[d].run = runs
    <3>1. ring[d].run = runs
      BY <2>2, <1>1, <1>5 DEF Inv, RunInv, RingInv
    <3> QED BY <3>1 DEF Inv, TypeOK
  <2> QED BY <2>1, <2>2, <1>5 DEF RingInv
<1>13. AgreeInv'
  <2>1. Guarded' = Guarded
    BY DEF Guarded
  <2> QED BY <2>1, <1>1, <1>5 DEF Inv, RunInv, AgreeInv
<1> QED BY <1>6, <1>7, <1>8, <1>9, <1>10, <1>11, <1>12, <1>13 DEF Inv, RunInv

(* NextDmaTransfer counts one block more in the run ...                     *)
LEMMA CountStep ==
  ASSUME Inv, pc # "stopped", hw.pending > 0, NEW r, r = WrapRun(NextRun(run))
  PROVE  /\ r \in Run /\ r.DmaCycling = run.DmaCycling
         /\ cfg.cycle => /\ r.CurBlockNum = At(Counted + 1)
                         /\ r.BlocksRemaining = BlockCount - At(Counted + 1)
         /\ ~cfg.cycle => /\ r.CurBlockNum = Counted + 1
                          /\ r.BlocksRemaining = BlockCount - (Counted + 1)
<1>1. /\ Counted \in Nat /\ filled = Counted + hw.pending /\ hw.pending \in 1 .. 2
      /\ cfg.cycle \in BOOLEAN /\ run \in Run /\ (run.DmaCycling <=> cfg.cycle)
  BY Numbers DEF Inv, TypeOK, RunInv, CountInv
<1> DEFINE n == NextRun(run)
<1>2. Inc(run.CurBlockNum) \in U32 /\ Dec(run.BlocksRemaining) \in U32 =>
        /\ n \in Run /\ n.DmaCycling = run.DmaCycling /\ (n.DmaCycling <=> cfg.cycle)
        /\ n.CurBlockNum = Inc(run.CurBlockNum)
        /\ n.BlocksRemaining = Dec(run.BlocksRemaining)
  BY <1>1, RunCount DEF NextRun, Run
<1>3. r = WrapRun(n)
  OBVIOUS
<1> HIDE DEF n
<1>4. CASE cfg.cycle
  <2>1. At(Counted) \in Nat /\ At(Counted) < BlockCount
    BY <1>1, AtIsBlock
  <2>2. run.CurBlockNum = At(Counted) /\ run.BlocksRemaining = BlockCount - At(Counted)
    BY <1>4 DEF Inv, RunInv, CycleInv
  <2>3. /\ Inc(run.CurBlockNum) = At(Counted) + 1
        /\ Dec(run.BlocksRemaining) = BlockCount - (At(Counted) + 1)
        /\ At(Counted) + 1 \in U32 /\ BlockCount - (At(Counted) + 1) \in U32
    BY <2>1, <2>2, Constants DEF Inc, Dec, U32
  <2>4. At(Counted + 1) = IF At(Counted) + 1 = BlockCount THEN 0 ELSE At(Counted) + 1
    BY <1>1, AtNext
  <2>5. /\ n \in Run /\ n.DmaCycling = run.DmaCycling /\ n.DmaCycling
        /\ n.CurBlockNum = At(Counted) + 1
        /\ n.BlocksRemaining = BlockCount - (At(Counted) + 1)
    BY <1>2, <1>4, <2>3
  <2>6. CASE At(Counted) + 1 = BlockCount
    <3>1. n.BlocksRemaining = 0
      BY <2>1, <2>5, <2>6, Constants
    <3>2. BlockCount \in U32 /\ 0 \in U32
      BY Constants DEF U32
    <3>3. r = [n EXCEPT !.BlocksRemaining = BlockCount, !.CurBlockNum = 0]
      BY <1>3, <2>5, <3>1 DEF WrapRun
    <3>4. /\ r \in Run /\ r.BlocksRemaining = BlockCount /\ r.CurBlockNum = 0
          /\ r.DmaCycling = n.DmaCycling
      BY <2>5, <3>2, <3>3 DEF Run
    <3> QED BY <1>4, <2>4, <2>5, <2>6, <3>4, Constants
  <2>7. CASE At(Counted) + 1 # BlockCount
    <3>1. n.BlocksRemaining # 0
      BY <2>1, <2>5, <2>7, Constants
    <3>2. r = n
      BY <1>3, <3>1 DEF WrapRun
    <3> QED BY <1>4, <2>4, <2>5, <2>7, <3>2
  <2> QED BY <2>6, <2>7
<1>5. CASE ~cfg.cycle
  <2>1. /\ run.CurBlockNum = Counted /\ run.BlocksRemaining = BlockCount - Counted
        /\ Counted + 1 <= BlockCount
    BY <1>1, <1>5, Constants DEF Inv, RunInv, SingleInv
  <2>2. /\ Inc(run.CurBlockNum) = Counted + 1
        /\ Dec(run.BlocksRemaining) = BlockCount - (Counted + 1)
        /\ Counted + 1 \in U32 /\ BlockCount - (Counted + 1) \in U32
    BY <1>1, <2>1, Constants DEF Inc, Dec, U32
  <2>3. r = n
    BY <1>2, <1>3, <1>5, <2>2 DEF WrapRun
  <2> QED BY <1>2, <1>5, <2>2, <2>3
<1> QED BY <1>1, <1>4, <1>5

(* ... steps the three blocks kept for the agreed mode ...                  *)
LEMMA PreStep ==
  ASSUME Inv, pc # "stopped"
  PROVE  /\ NextPre(done.pre) \in [1 .. 3 -> Blocks]
         /\ \A k \in 1 .. 3 : NextPre(done.pre)[k] = At(Counted + 1 + k)
<1>1. Counted \in Nat
  BY Numbers
<1>2. ASSUME NEW k \in 1 .. 3
      PROVE  NextPre(done.pre)[k] = At(Counted + 1 + k) /\ At(Counted + 1 + k) \in Blocks
  <2>1. done.pre[k] = At(Counted + k) /\ Counted + k \in Nat
    BY <1>1 DEF Inv, RunInv, CountInv
  <2>2. At(Counted + k) \in Nat /\ At(Counted + k) < BlockCount
    BY <2>1, AtIsBlock
  <2>3. Inc(done.pre[k]) = At(Counted + k) + 1
    BY <2>1, <2>2, Constants DEF Inc
  <2>4. At((Counted + k) + 1) =
          IF At(Counted + k) + 1 = BlockCount THEN 0 ELSE At(Counted + k) + 1
    BY <2>1, AtNext
  <2>5. (Counted + k) + 1 = Counted + 1 + k
    BY <1>1
  <2>6. NextPre(done.pre)[k] =
          IF Inc(done.pre[k]) = BlockCount THEN 0 ELSE Inc(done.pre[k])
    BY DEF NextPre
  <2>7. Counted + 1 + k \in Nat
    BY <1>1
  <2> QED BY <2>3, <2>4, <2>5, <2>6, <2>7, AtIsBlock
<1> QED BY <1>2 DEF NextPre

(* ... and leaves the flag up only when the third is not the block done     *)
(* last.                                                                    *)
DoneSet == [DoneBlock : U32, DoneFlag : BOOLEAN, pre : [1 .. 3 -> Blocks]]

LEMMA DropStep ==
  ASSUME done \in DoneSet, NEW p \in [1 .. 3 -> Blocks], run.DmaCycling = cfg.cycle,
         NEW e, e = DropFlag([done EXCEPT !.pre = p])
  PROVE  /\ e \in DoneSet /\ e.DoneBlock = done.DoneBlock /\ e.pre = p
         /\ e.DoneFlag => done.DoneFlag
         /\ e.DoneFlag /\ cfg.agree /\ cfg.cycle =>
              p[3] # done.DoneBlock /\ (p[3] = 0 => done.DoneBlock # MinusOne)
<1> DEFINE d == [done EXCEPT !.pre = p]
<1>1. d \in DoneSet /\ d.DoneBlock = done.DoneBlock /\ d.DoneFlag = done.DoneFlag /\ d.pre = p
  BY DEF DoneSet
<1>2. e = DropFlag(d)
  OBVIOUS
<1> HIDE DEF d
<1> DEFINE hit == cfg.agree /\ run.DmaCycling
                  /\ ((d.pre[3] = 0 /\ d.DoneBlock = MinusOne) \/ d.pre[3] = d.DoneBlock)
<1>3. CASE hit
  <2>1. e = [d EXCEPT !.DoneFlag = FALSE]
    BY <1>2, <1>3 DEF DropFlag
  <2> HIDE DEF hit
  <2>2. e \in DoneSet /\ e.DoneBlock = d.DoneBlock /\ e.pre = d.pre /\ e.DoneFlag = FALSE
    BY <1>1, <2>1 DEF DoneSet
  <2> QED BY <1>1, <2>2
<1>4. CASE ~hit
  <2>1. e = d
    BY <1>2, <1>4 DEF DropFlag
  <2> QED BY <1>1, <1>4, <2>1
<1> QED BY <1>3, <1>4

(* NextDmaTransfer counts the block in the stub too.                        *)
LEMMA StubStep ==
  ASSUME NEW k \in Nat, NEW s \in Stub, s.lastBlock = LastOf(k)
  PROVE  NextStub(s) \in Stub /\ NextStub(s).lastBlock = LastOf(k + 1)
<1> DEFINE i == NextIndex(LastOf(k))
<1>1. i \in U32 /\ i = LastOf(k + 1)
  BY LastOfNext
<1>2. NextStub(s) = [s EXCEPT !.lastBlock = i]
  BY DEF NextStub, NextIndex, Stub
<1> HIDE DEF i
<1> QED BY <1>1, <1>2 DEF Stub

(* The handler. *)
LEMMA IsrStep ==
  ASSUME Inv, Isr
  PROVE  Inv'
<1>1. pc # "stopped" /\ hw.pending > 0
  BY DEF Isr, Inv, ChannelInv, Off
<1>2. /\ filled \in Nat /\ Counted \in Nat /\ filled = Counted + hw.pending
      /\ hw.pending \in 1 .. 2 /\ taken \in Nat /\ released \in Nat
      /\ cfg.cycle \in BOOLEAN /\ cfg.agree \in BOOLEAN
  BY <1>1, Numbers
<1>3. /\ hw' \in HwSet /\ hw'.filling = hw.filling /\ hw'.start = hw.start
      /\ hw'.pending = hw.pending - 1 /\ ~hw'.held /\ hw'.pos = hw.pos
  <2> DEFINE p == hw.pending - 1
  <2>1. hw \in HwSet /\ p \in 0 .. 2
    BY <1>2 DEF Inv, TypeOK, HwSet
  <2>2. hw' = [hw EXCEPT !.pending = p, !.held = FALSE]
    BY <2>1 DEF Isr, HwSet
  <2> HIDE DEF p
  <2>3. /\ hw' \in HwSet /\ hw'.filling = hw.filling /\ hw'.start = hw.start
        /\ hw'.pending = p /\ hw'.held = FALSE /\ hw'.pos = hw.pos
    BY <2>1, <2>2 DEF HwSet
  <2> QED BY <2>3 DEF p
<1>4. /\ UNCHANGED <<cfg, ring, filled, lapped, ignored, strm, pc, taken, released, runs>>
      /\ sched' = TRUE /\ raced' = (raced \/ pc = "flag")
  BY DEF Isr, userVars
<1>5. Counted' = Counted + 1 /\ Begun' = Begun /\ Reported' = Reported
  BY <1>2, <1>3, <1>4 DEF Counted, Begun, Reported
<1>6. /\ run' \in Run /\ run'.DmaCycling = cfg.cycle
      /\ cfg.cycle => /\ run'.CurBlockNum = At(Counted + 1)
                      /\ run'.BlocksRemaining = BlockCount - At(Counted + 1)
      /\ ~cfg.cycle => /\ run'.CurBlockNum = Counted + 1
                       /\ run'.BlocksRemaining = BlockCount - (Counted + 1)
  <2>1. run' = WrapRun(NextRun(run)) /\ run.DmaCycling = cfg.cycle
    BY <1>1 DEF Isr, Inv, RunInv, CountInv
  <2> QED BY <1>1, <2>1, CountStep
<1>7. stub' \in Stub /\ stub'.lastBlock = LastOf(Counted + 1)
  BY <1>1, <1>2, StubStep DEF Isr, Inv, TypeOK, RunInv, CountInv
<1>8. /\ done' \in DoneSet /\ done'.DoneBlock = done.DoneBlock
      /\ \A k \in 1 .. 3 : done'.pre[k] = At(Counted + 1 + k)
      /\ done'.DoneFlag => done.DoneFlag
      /\ done'.DoneFlag /\ cfg.agree /\ cfg.cycle =>
           /\ At(Counted + 4) # done.DoneBlock
           /\ At(Counted + 4) = 0 => done.DoneBlock # MinusOne
  <2> DEFINE p == NextPre(done.pre)
  <2>1. p \in [1 .. 3 -> Blocks] /\ \A k \in 1 .. 3 : p[k] = At(Counted + 1 + k)
    BY <1>1, PreStep
  <2>2. done \in DoneSet /\ run.DmaCycling = cfg.cycle
    BY <1>1 DEF Inv, TypeOK, DoneSet, RunInv, CountInv
  <2>3. done' = DropFlag([done EXCEPT !.pre = p])
    BY <2>2 DEF Isr, DoneSet
  <2> HIDE DEF p
  <2>4. p[3] = At(Counted + 4)
    <3>1. Counted + 1 + 3 = Counted + 4
      BY <1>2
    <3> QED BY <2>1, <3>1
  <2> QED BY <2>1, <2>2, <2>3, <2>4, DropStep
<1>9. TypeOK'
  <2>1. raced' \in BOOLEAN /\ sched' \in BOOLEAN
    BY <1>4
  <2> QED BY <1>3, <1>4, <1>6, <1>7, <1>8, <2>1 DEF Inv, TypeOK, HwSet, DoneSet
<1>10. ChannelInv'
  <2>1. hw'.filling => hw'.start /\ ~hw'.held /\ hw'.pos < BlockCount /\ filled' < MaxBlocks
    BY <1>3, <1>4 DEF Inv, ChannelInv
  <2>2. hw'.pending # 2
    BY <1>2, <1>3
  <2> QED BY <1>1, <1>3, <1>4, <2>1, <2>2 DEF ChannelInv
<1>11. CountInv'
  BY <1>1, <1>2, <1>3, <1>4, <1>5, <1>6, <1>7, <1>8 DEF CountInv
<1>12. CycleInv'
  BY <1>1, <1>3, <1>4, <1>5, <1>6 DEF Inv, RunInv, CycleInv
<1>13. SingleInv'
  <2> SUFFICES ASSUME ~cfg.cycle PROVE SingleInv'
    BY <1>4 DEF SingleInv
  <2>1. hw.start /\ hw.pos = filled /\ filled <= BlockCount
    BY <1>1 DEF Inv, RunInv, SingleInv, Off
  <2> QED BY <2>1, <1>3, <1>4, <1>5, <1>6 DEF SingleInv
<1>14. ReaderInv'
  <2>1. ReaderInv
    BY <1>1 DEF Inv, RunInv
  <2>2. \A k \in taken .. Counted : k \in taken .. Counted + 1
    BY <1>2
  <2> QED BY <2>1, <2>2, <1>4, <1>5 DEF ReaderInv
<1>15. RingInv'
  BY <1>1, <1>4, <1>5 DEF Inv, RunInv, RingInv
<1>16. AgreeInv'
  <2>1. cfg.agree => done'.DoneBlock = LastOf(Reported)
    BY <1>1, <1>8 DEF Inv, RunInv, AgreeInv
  <2>2. Guarded' => Guarded /\ pc # "flag"
    BY <1>4 DEF Guarded, Inv, TypeOK
  <2>3. ASSUME Guarded
        PROVE  ~lapped /\ Begun + 2 <= Reported + BlockCount
    BY <2>3, <1>1 DEF Inv, RunInv, AgreeInv
  <2>4. ASSUME Guarded, done'.DoneFlag
        PROVE  \/ Counted + 6 <= Reported + BlockCount
               \/ Reported = 0 /\ Counted + 5 <= BlockCount
    <3>1. /\ At(Counted + 4) # LastOf(Reported)
          /\ At(Counted + 4) = 0 => LastOf(Reported) # MinusOne
      BY <2>1, <2>4, <1>8 DEF Guarded
    <3>2. \/ Counted + 5 <= Reported + BlockCount
          \/ Reported = 0 /\ Counted + 4 <= BlockCount
      BY <2>4, <1>1, <1>8 DEF Inv, RunInv, AgreeInv
    <3>3. Reported \in Nat
      BY <1>1, <1>2 DEF Inv, RunInv, ReaderInv, Reported
    <3>4. CASE Reported = 0
      <4>1. Counted + 4 <= BlockCount
        BY <3>2, <3>4, <1>2, Constants
      <4>2. Counted + 4 # BlockCount
        <5> SUFFICES ASSUME Counted + 4 = BlockCount PROVE FALSE
          OBVIOUS
        <5>1. 0 \in Nat /\ 0 + BlockCount = Counted + 4 /\ 0 \in 0 .. BlockCount - 1
          BY Constants
        <5>2. At(Counted + 4) = 0
          BY <5>1, AtRound, AtFirstRound
        <5>3. LastOf(Reported) = MinusOne
          BY <3>4 DEF LastOf
        <5> QED BY <5>2, <5>3, <3>1
      <4> QED BY <3>4, <4>1, <4>2, <1>2, Constants
    <3>5. CASE Reported # 0
      <4>1. Counted + 5 <= Reported + BlockCount
        BY <3>2, <3>5
      <4>2. Counted + 5 # Reported + BlockCount
        <5> SUFFICES ASSUME Counted + 5 = Reported + BlockCount PROVE FALSE
          OBVIOUS
        <5>1. Reported - 1 \in Nat /\ (Reported - 1) + BlockCount = Counted + 4
          BY <1>2, <3>3, <3>5, Constants
        <5>2. At(Counted + 4) = At(Reported - 1)
          BY <5>1, AtRound
        <5> QED BY <5>2, <3>1, <3>5 DEF LastOf
      <4> QED BY <4>1, <4>2, <3>3, <1>2, Constants
    <3> QED BY <3>4, <3>5
  <2>5. Guarded /\ done'.DoneFlag => \/ Counted' + 5 <= Reported' + BlockCount
                                     \/ Reported' = 0 /\ Counted' + 4 <= BlockCount
    BY <2>4, <1>2, <1>5, Constants
  <2> QED BY <2>1, <2>2, <2>3, <2>5, <1>4, <1>5 DEF AgreeInv
<1> QED BY <1>9, <1>10, <1>11, <1>12, <1>13, <1>14, <1>15, <1>16 DEF Inv, RunInv

(* The tasklet can end a single pass only, and only when it is complete.    *)
LEMMA DpcStep ==
  ASSUME Inv, Dpc
  PROVE  Inv'
<1>1. UNCHANGED <<cfg, ring, filled, lapped, ignored, run, done, strm, pc, taken, released,
                  runs, raced>>
  BY DEF Dpc, userVars
<1>2. sched' \in BOOLEAN
  BY DEF Dpc
<1>3. CASE run.CurBlockNum < BlockCount
  <2>1. UNCHANGED <<hw, stub>>
    BY <1>3, Constants DEF Dpc, Inv, TypeOK, Run, U32
  <2> QED BY <1>1, <1>2, <2>1 DEF Inv, TypeOK, ChannelInv, RunInv, CountInv, CycleInv,
             SingleInv, ReaderInv, RingInv, AgreeInv, Counted, Begun, Reported, Guarded
<1>4. CASE run.CurBlockNum >= BlockCount
  <2>1. hw' = Off /\ stub' = CompleteStub(stub)
    BY <1>4 DEF Dpc
  <2>2. stub' \in Stub /\ stub'.lastBlock = stub.lastBlock
    BY <2>1 DEF CompleteStub, Stub, Inv, TypeOK
  <2>3. /\ ~hw'.start /\ ~hw'.filling /\ hw'.pending = 0 /\ ~hw'.held /\ hw'.pos = 0
        /\ hw' \in HwSet
    BY <2>1, Constants DEF Off, HwSet
  <2>4. TypeOK'
    BY <1>1, <1>2, <2>2, <2>3 DEF Inv, TypeOK, HwSet
  <2>5. ChannelInv'
    BY <2>1, <2>3 DEF ChannelInv
  <2>6. ASSUME pc # "stopped"
        PROVE  /\ ~cfg.cycle /\ hw.pending = 0 /\ ~hw.filling /\ filled = BlockCount
               /\ Counted \in Nat /\ filled \in Nat
    <3>1. Counted \in Nat /\ filled \in Nat /\ filled = Counted + hw.pending /\ hw.pending \in 0 .. 2
      BY <2>6, Numbers
    <3>2. ~cfg.cycle
      BY <1>4, <2>6, <3>1, AtIsBlock, Constants DEF Inv, RunInv, CycleInv
    <3>3. run.CurBlockNum = Counted /\ filled <= BlockCount
      BY <2>6, <3>2 DEF Inv, RunInv, SingleInv
    <3>4. hw.pending = 0 /\ filled = BlockCount
      BY <1>4, <3>1, <3>3, Constants
    <3>5. ~hw.filling
      BY <2>6, <3>2, <3>4, Constants DEF Inv, RunInv, SingleInv, ChannelInv
    <3> QED BY <3>1, <3>2, <3>4, <3>5
  <2>7. ASSUME pc # "stopped"
        PROVE  Counted' = Counted /\ Begun' = Begun /\ Reported' = Reported /\ Guarded' = Guarded
    BY <1>1, <2>3, <2>6, <2>7 DEF Counted, Begun, Reported, Guarded
  <2>8. ASSUME pc # "stopped"
        PROVE  CountInv' /\ CycleInv' /\ SingleInv'
    BY <1>1, <2>1, <2>2, <2>3, <2>6, <2>7, <2>8 DEF Inv, RunInv, CountInv, CycleInv, SingleInv
  <2>9. ASSUME pc # "stopped"
        PROVE  ReaderInv' /\ RingInv' /\ AgreeInv'
    BY <1>1, <2>7, <2>9 DEF Inv, RunInv, ReaderInv, RingInv, AgreeInv
  <2> QED BY <1>1, <2>4, <2>5, <2>8, <2>9 DEF Inv, RunInv
<1> QED BY <1>3, <1>4, Constants DEF Inv, TypeOK, Run, U32

(* A new run numbers its blocks from 0. *)
LEMMA StreamStartStep ==
  ASSUME Inv, StreamStart
  PROVE  Inv'
<1>1. /\ UNCHANGED <<cfg, ring, sched>> /\ pc' = "poll"
      /\ runs' = runs + 1 /\ runs < MaxRuns
      /\ filled' = 0 /\ taken' = 0 /\ released' = 0
      /\ ~lapped' /\ ~ignored' /\ ~raced'
      /\ lapped' \in BOOLEAN /\ ignored' \in BOOLEAN /\ raced' \in BOOLEAN
  BY DEF StreamStart
<1>2. strm' = NoIndex /\ NoIndex \in [indexDma : U32, indexPc : U32]
  BY Constants DEF StreamStart, NoIndex
<1>3. stub' \in Stub /\ stub'.lastBlock = MinusOne
  BY Constants DEF StreamStart, StartStub, Stub
<1>4. /\ run' \in Run /\ run'.DmaCycling = cfg.cycle
      /\ run'.CurBlockNum = 0 /\ run'.BlocksRemaining = BlockCount
  <2>1. cfg.cycle \in BOOLEAN /\ 0 \in U32 /\ BlockCount \in U32
    BY Numbers, Constants DEF U32
  <2> QED BY <2>1 DEF StreamStart, StartRun, Run
<1>5. /\ hw' \in HwSet /\ hw'.start /\ ~hw'.filling /\ hw'.pending = 0 /\ ~hw'.held
      /\ hw'.pos = 0
  <2>1. 0 \in 0 .. BlockCount /\ 0 \in 0 .. 2
    BY Constants
  <2> QED BY <2>1 DEF StreamStart, Off, HwSet
<1>6. /\ done' \in DoneSet /\ done'.DoneBlock = MinusOne
      /\ \A k \in 1 .. 3 : done'.pre[k] = k
  <2>1. <<1, 2, 3>> \in [1 .. 3 -> Blocks]
    BY Constants DEF Blocks
  <2>2. \A k \in 1 .. 3 : <<1, 2, 3>>[k] = k
    OBVIOUS
  <2> QED BY <2>1, <2>2, Constants DEF StreamStart, NewDone, DoneSet
<1>7. Counted' = 0 /\ Begun' = 0 /\ Reported' = 0
  BY <1>1, <1>5 DEF Counted, Begun, Reported
<1>8. LastOf(0) = MinusOne /\ \A k \in 0 .. 3 : At(0 + k) = k
  BY AtFirstRound, Constants DEF LastOf
<1>9. TypeOK'
  <2>1. runs' \in 0 .. MaxRuns
    BY <1>1, Constants DEF Inv, TypeOK
  <2>2. filled' \in 0 .. MaxBlocks /\ taken' \in Nat /\ released' \in 0 .. taken'
    BY <1>1, Constants
  <2> QED BY <1>1, <1>2, <1>3, <1>4, <1>5, <1>6, <2>1, <2>2 DEF Inv, TypeOK, HwSet, DoneSet
<1>10. ChannelInv'
  BY <1>1, <1>5 DEF ChannelInv
<1>11. CountInv' /\ CycleInv' /\ SingleInv'
  <2>1. At(0) = 0
    BY AtFirstRound, Constants
  <2> QED BY <1>1, <1>3, <1>4, <1>5, <1>6, <1>7, <1>8, <2>1, Constants
          DEF CountInv, CycleInv, SingleInv
<1>12. ReaderInv'
  <2>1. 0 \in 0 .. 0 /\ 0 <= 0 + BlockCount
    BY Constants
  <2>2. strm'.indexPc = LastOf(0) /\ strm'.indexDma = LastOf(0)
    BY <1>2, <1>8 DEF NoIndex
  <2> QED BY <1>1, <1>7, <2>1, <2>2 DEF ReaderInv
<1>13. RingInv'
  BY <1>1, <1>7, Constants DEF RingInv, Blocks
<1>14. AgreeInv'
  BY <1>1, <1>6, <1>7, <1>8, Constants DEF AgreeInv
<1> QED BY <1>9, <1>10, <1>11, <1>12, <1>13, <1>14 DEF Inv, RunInv

LEMMA StreamStopStep ==
  ASSUME Inv, StreamStop
  PROVE  Inv'
<1>1. /\ pc' = "stopped" /\ hw' = Off
      /\ UNCHANGED <<cfg, ring, filled, lapped, ignored, run, sched, done, strm, taken,
                     released, runs, raced>>
  BY DEF StreamStop
<1>2. stub' \in Stub
  BY DEF StreamStop, CompleteStub, Stub, Inv, TypeOK
<1>3. /\ hw' \in HwSet /\ hw'.pending = 0 /\ ~hw'.held /\ ~hw'.filling
  BY <1>1, Constants DEF Off, HwSet
<1>4. TypeOK'
  BY <1>1, <1>2, <1>3 DEF Inv, TypeOK, HwSet
<1> QED BY <1>1, <1>3, <1>4 DEF Inv, ChannelInv, RunInv

-----------------------------------------------------------------------------
(* What the steps of the program leave alone they do not disturb.           *)
LEMMA ChannelKept ==
  ASSUME Inv, pc # "stopped", pc' # "stopped",
         UNCHANGED <<cfg, hwVars, stub, run, sched, runs, raced>>,
         done'.pre = done.pre
  PROVE  /\ ChannelInv' /\ CountInv' /\ CycleInv' /\ SingleInv' /\ RingInv'
         /\ Counted' = Counted /\ Begun' = Begun /\ Guarded' = Guarded
BY DEF Inv, RunInv, ChannelInv, CountInv, CycleInv, SingleInv, RingInv, hwVars,
       Counted, Begun, Guarded

(* StreamGetBuf: the block after the last one taken.  Unless it was lapped, *)
(* it is one the handler has counted: the index it knows is that of a later *)
(* block, or none is known and the one in the stub is.                      *)
LEMMA StreamGetBufStep ==
  ASSUME Inv, StreamGetBuf
  PROVE  Inv'
<1>1. /\ pc = "poll" /\ taken' = taken + 1 /\ pc' = (IF cfg.agree THEN "done" ELSE "use")
      /\ UNCHANGED <<cfg, hw, ring, filled, lapped, ignored, stub, run, sched, done,
                     released, runs, raced>>
  BY DEF StreamGetBuf, hwVars, drvVars
<1>2. /\ taken \in Nat /\ released = taken /\ Counted \in Nat /\ cfg.agree \in BOOLEAN
      /\ strm.indexPc = LastOf(taken)
  BY <1>1, Numbers DEF Inv, RunInv, ReaderInv
<1>3. LastOf(taken) \in U32 /\ LastOf(taken + 1) \in U32
      /\ NextIndex(LastOf(taken)) = LastOf(taken + 1)
  BY <1>2, LastOfNext
<1>4. strm' = [indexDma |-> IndexDma, indexPc |-> LastOf(taken + 1)]
  BY <1>2, <1>3 DEF StreamGetBuf
<1>5. IndexDma \in U32
  BY <1>1, <1>2 DEF IndexDma, Inv, TypeOK, Stub
<1>6. TypeOK'
  <2>1. strm' \in [indexDma : U32, indexPc : U32]
    BY <1>3, <1>4, <1>5
  <2>2. taken' \in Nat /\ released' \in 0 .. taken'
    BY <1>1, <1>2
  <2>3. pc' \in {"stopped", "poll", "done", "flag", "use"}
    BY <1>1
  <2> QED BY <1>1, <2>1, <2>2, <2>3 DEF Inv, TypeOK
<1>7. /\ ChannelInv' /\ CountInv' /\ CycleInv' /\ SingleInv' /\ RingInv'
      /\ Counted' = Counted /\ Begun' = Begun /\ Guarded' = Guarded
  BY <1>1, ChannelKept DEF hwVars
<1>8. ReaderInv'
  <2>1. strm'.indexPc = LastOf(taken') /\ pc' # "poll" /\ taken' = released' + 1
    BY <1>1, <1>2, <1>4
  <2>2. ASSUME ~lapped
        PROVE  \E k \in taken + 1 .. Counted : IndexDma = LastOf(k)
    <3>1. PICK k \in taken .. Counted : strm.indexDma = LastOf(k)
      BY <2>2, <1>1 DEF Inv, RunInv, ReaderInv
    <3>2. IndexDma # LastOf(taken)
      BY <1>2 DEF StreamGetBuf
    <3>3. CASE strm.indexDma = LastOf(taken)
      <4>1. IndexDma = LastOf(Counted)
        BY <3>3, <1>1, <1>2 DEF IndexDma, Inv, RunInv, CountInv
      <4>2. Counted # taken
        BY <4>1, <3>2
      <4> QED BY <4>1, <4>2, <3>1, <1>2
    <3>4. CASE strm.indexDma # LastOf(taken)
      <4>1. IndexDma = LastOf(k) /\ k # taken
        BY <3>4, <3>1, <1>2 DEF IndexDma
      <4> QED BY <4>1, <3>1, <1>2
    <3> QED BY <3>3, <3>4
  <2>3. strm'.indexDma = IndexDma
    BY <1>4
  <2>4. lapped => filled >= BlockCount
    BY <1>1 DEF Inv, RunInv, ReaderInv
  <2>5. ~lapped => Begun <= released + BlockCount
    BY <1>1 DEF Inv, RunInv, ReaderInv
  <2>6. pc' \in {"done", "flag"} => cfg.agree
    BY <1>1
  <2> QED BY <2>1, <2>2, <2>3, <2>4, <2>5, <2>6, <1>1, <1>7 DEF ReaderInv
<1>9. AgreeInv'
  <2>1. CASE cfg.agree
    <3>1. Reported' = Reported /\ pc' = "done"
      BY <2>1, <1>1, <1>2 DEF Reported
    <3> QED BY <3>1, <1>1, <1>7 DEF Inv, RunInv, AgreeInv
  <2>2. CASE ~cfg.agree
    BY <2>2, <1>1 DEF AgreeInv, Guarded
  <2> QED BY <2>1, <2>2
<1> QED BY <1>6, <1>7, <1>8, <1>9 DEF Inv, RunInv

(* SetDoneBlock raises the flag only when the channel is more than three    *)
(* blocks behind the block reported.                                        *)
LEMMA SetDoneBlockStep ==
  ASSUME Inv, SetDoneBlock
  PROVE  Inv'
<1>1. /\ pc = "done"
      /\ UNCHANGED <<cfg, hw, ring, filled, lapped, ignored, stub, run, sched, strm, taken,
                     released, runs, raced>>
      /\ pc' = (IF strm.indexPc # done.DoneBlock /\ \A k \in 1 .. 3 : done.pre[k] # strm.indexPc
                THEN "flag" ELSE "use")
  BY DEF SetDoneBlock, hwVars
<1>2. /\ taken \in Nat \ {0} /\ released \in Nat /\ taken = released + 1 /\ Counted \in Nat
      /\ strm.indexPc = LastOf(taken) /\ cfg.agree
      /\ filled = Counted + hw.pending /\ hw.pending \in 0 .. 2
  BY <1>1, Numbers DEF Inv, RunInv, ReaderInv
<1>3. done' = [done EXCEPT !.DoneBlock = LastOf(taken)] /\ LastOf(taken) \in U32
  BY <1>2, LastOfNext DEF SetDoneBlock
<1>4. /\ done' \in DoneSet /\ done'.DoneBlock = LastOf(taken)
      /\ done'.pre = done.pre /\ done'.DoneFlag = done.DoneFlag
  BY <1>3 DEF Inv, TypeOK, DoneSet
<1>5. pc' \in {"flag", "use"}
  BY <1>1
<1>6. TypeOK'
  BY <1>1, <1>4, <1>5 DEF Inv, TypeOK, DoneSet
<1>7. /\ ChannelInv' /\ CountInv' /\ CycleInv' /\ SingleInv' /\ RingInv'
      /\ Counted' = Counted /\ Begun' = Begun /\ Guarded' = Guarded
  BY <1>1, <1>4, <1>5, ChannelKept DEF hwVars
<1>8. ReaderInv'
  BY <1>1, <1>2, <1>5, <1>7 DEF Inv, RunInv, ReaderInv
<1>9. AgreeInv'
  <2>1. Reported = taken - 1 /\ Reported' = taken
    BY <1>1, <1>5 DEF Reported
  <2>2. Begun \in Nat /\ Counted <= Begun
    BY <1>2, Numbers DEF Begun
  <2>3. ASSUME Guarded
        PROVE  ~lapped /\ Begun + 3 <= taken + BlockCount
    BY <2>1, <2>2, <2>3, <1>1, <1>2, Constants DEF Inv, RunInv, AgreeInv
  <2>4. ASSUME Guarded, done.DoneFlag
        PROVE  Counted + 5 <= taken + BlockCount
    BY <2>1, <2>4, <1>1, <1>2, Constants DEF Inv, RunInv, AgreeInv
  <2>5. ASSUME Guarded, pc' = "flag"
        PROVE  Counted + 5 <= taken + BlockCount
    <3>1. LastOf(taken) = At(taken - 1) /\ taken - 1 \in Nat
      BY <1>2 DEF LastOf
    <3>2. At((taken - 1) + BlockCount) = At(taken - 1)
      BY <3>1, AtRound
    <3>3. ASSUME NEW k \in 1 .. 3
          PROVE  Counted + k # (taken - 1) + BlockCount
      <4>1. done.pre[k] # strm.indexPc
        BY <2>5, <1>1
      <4>2. done.pre[k] = At(Counted + k)
        BY <1>1 DEF Inv, RunInv, CountInv
      <4> QED BY <4>1, <4>2, <3>1, <3>2, <1>2
    <3>4. /\ Counted + 1 # (taken - 1) + BlockCount
          /\ Counted + 2 # (taken - 1) + BlockCount
          /\ Counted + 3 # (taken - 1) + BlockCount
      BY <3>3
    <3> QED BY <3>4, <2>2, <2>3, <2>5, <1>2, Constants
  <2>6. Begun + 3 <= taken + BlockCount => Begun + 2 <= taken + BlockCount
    BY <2>2, <1>2, Constants
  <2> QED BY <2>1, <2>3, <2>4, <2>5, <2>6, <1>1, <1>4, <1>7 DEF AgreeInv
<1> QED BY <1>5, <1>6, <1>7, <1>8, <1>9 DEF Inv, RunInv

LEMMA RaiseFlagStep ==
  ASSUME Inv, RaiseFlag
  PROVE  Inv'
<1>1. /\ pc = "flag" /\ pc' = "use"
      /\ UNCHANGED <<cfg, hw, ring, filled, lapped, ignored, stub, run, sched, strm, taken,
                     released, runs, raced>>
  BY DEF RaiseFlag, hwVars
<1>2. done' \in DoneSet /\ done'.DoneBlock = done.DoneBlock /\ done'.pre = done.pre
  BY DEF RaiseFlag, Inv, TypeOK, DoneSet
<1>3. TypeOK'
  BY <1>1, <1>2 DEF Inv, TypeOK, DoneSet
<1>4. /\ ChannelInv' /\ CountInv' /\ CycleInv' /\ SingleInv' /\ RingInv'
      /\ Counted' = Counted /\ Begun' = Begun /\ Guarded' = Guarded
  BY <1>1, <1>2, ChannelKept DEF hwVars
<1>5. ReaderInv'
  BY <1>1, <1>4 DEF Inv, RunInv, ReaderInv
<1>6. AgreeInv'
  <2>1. Reported' = Reported /\ Reported = taken
    BY <1>1 DEF Reported
  <2> QED BY <2>1, <1>1, <1>2, <1>4 DEF Inv, RunInv, AgreeInv
<1> QED BY <1>1, <1>3, <1>4, <1>5, <1>6 DEF Inv, RunInv

LEMMA UsedStep ==
  ASSUME Inv, Used
  PROVE  Inv'
<1>1. /\ pc = "use" /\ pc' = "poll" /\ released' = taken
      /\ UNCHANGED <<cfg, hw, ring, filled, lapped, ignored, stub, run, sched, done, strm,
                     taken, runs, raced>>
  BY DEF Used, hwVars, drvVars
<1>2. /\ taken \in Nat /\ released \in Nat /\ taken = released + 1 /\ Begun \in Nat
  BY <1>1, Numbers DEF Inv, RunInv, ReaderInv
<1>3. TypeOK'
  BY <1>1, <1>2 DEF Inv, TypeOK
<1>4. /\ ChannelInv' /\ CountInv' /\ CycleInv' /\ SingleInv' /\ RingInv'
      /\ Counted' = Counted /\ Begun' = Begun /\ Guarded' = Guarded
  BY <1>1, ChannelKept DEF hwVars
<1>5. ReaderInv'
  <2>1. Begun <= released + BlockCount => Begun <= taken + BlockCount
    BY <1>2, Constants
  <2> QED BY <2>1, <1>1, <1>4 DEF Inv, RunInv, ReaderInv
<1>6. AgreeInv'
  <2>1. Reported' = Reported
    BY <1>1 DEF Reported
  <2> QED BY <2>1, <1>1, <1>4 DEF Inv, RunInv, AgreeInv
<1> QED BY <1>1, <1>3, <1>4, <1>5, <1>6 DEF Inv, RunInv

-----------------------------------------------------------------------------
LEMMA InvStep == Inv /\ [Next]_vars => Inv'
<1> SUFFICES ASSUME Inv, [Next]_vars PROVE Inv'
  OBVIOUS
<1>1. CASE FillBegin
  BY <1>1, FillBeginStep
<1>2. CASE FillEnd
  BY <1>2, FillEndStep
<1>3. CASE Isr
  BY <1>3, IsrStep
<1>4. CASE Dpc
  BY <1>4, DpcStep
<1>5. CASE StreamStart
  BY <1>5, StreamStartStep
<1>6. CASE StreamStop
  BY <1>6, StreamStopStep
<1>7. CASE Reader
  BY <1>7, StreamGetBufStep, SetDoneBlockStep, RaiseFlagStep, UsedStep DEF Reader
<1>8. CASE UNCHANGED vars
  BY <1>8 DEF vars, hwVars, drvVars, userVars, Inv, TypeOK, ChannelInv, RunInv, CountInv,
     CycleInv, SingleInv, ReaderInv, RingInv, AgreeInv, Counted, Begun, Reported, Guarded
<1> QED BY <1>1, <1>2, <1>3, <1>4, <1>5, <1>6, <1>7, <1>8 DEF Next

(* What the driver, the library and the channel keep: for every ring and    *)
(* every number of runs and blocks the numbering above holds throughout.    *)
THEOREM StreamInvariant == Spec => []Inv
BY InitStep, InvStep, PTL DEF Spec

(* The indices of the driver and of the library stay 32-bit words, and the  *)
(* three blocks kept for the agreed mode are blocks of the ring.            *)
THEOREM StreamTypes == Spec => []TypeOK
<1>1. Inv => TypeOK
  BY DEF Inv
<1> QED BY <1>1, StreamInvariant, PTL

(* Every block handed out is the next of this run, complete and not yet     *)
(* overwritten, as long as the channel has not lapped the program.          *)
THEOREM StreamInOrder == Spec => []HandedInOrder
<1>1. ASSUME Inv PROVE HandedInOrder
  <2> SUFFICES ASSUME InUse, ~lapped
               PROVE  ring[strm.indexPc] = [run |-> runs, seq |-> taken - 1, whole |-> TRUE]
    BY DEF HandedInOrder
  <2>1. pc # "stopped" /\ pc # "poll"
    BY DEF InUse
  <2>2. /\ taken \in Nat /\ released \in Nat /\ Counted \in Nat /\ taken = released + 1
        /\ strm.indexPc = LastOf(taken) /\ Begun \in Nat /\ Begun <= MaxBlocks
        /\ filled = Counted + hw.pending /\ hw.pending \in 0 .. 2 /\ filled \in Nat
        /\ Begun <= released + BlockCount
    BY <1>1, <2>1, Numbers DEF Inv, RunInv, ReaderInv
  <2>3. taken <= Counted
    <3>1. PICK k \in taken .. Counted : strm.indexDma = LastOf(k)
      BY <1>1, <2>1 DEF Inv, RunInv, ReaderInv
    <3> QED BY <3>1, <2>2
  <2>4. released \in 0 .. MaxBlocks /\ released < filled /\ released < Begun
    BY <2>2, <2>3, Constants DEF Begun
  <2>5. strm.indexPc = At(released) /\ At(released) \in Blocks
    BY <2>2, AtIsBlock DEF LastOf
  <2>6. /\ ring[At(released)].run = runs /\ ring[At(released)].seq = released
        /\ ring[At(released)].whole
    BY <1>1, <2>1, <2>2, <2>4 DEF Inv, RunInv, RingInv
  <2>7. ring[At(released)] \in [run : 0 .. MaxRuns, seq : 0 .. MaxBlocks, whole : BOOLEAN]
    BY <1>1, <2>5 DEF Inv, TypeOK
  <2>8. ring[At(released)] = [run |-> runs, seq |-> released, whole |-> TRUE]
    BY <2>6, <2>7
  <2>9. released = taken - 1
    BY <2>2
  <2> QED BY <2>5, <2>8, <2>9
<1> QED BY <1>1, StreamInvariant, PTL

(* Lapped or not, no block left over from an earlier run is handed out.     *)
THEOREM StreamThisRun == Spec => []FilledThisRun
<1>1. ASSUME Inv PROVE FilledThisRun
  <2> SUFFICES ASSUME InUse PROVE ring[strm.indexPc].run = runs
    BY DEF FilledThisRun
  <2>1. pc # "stopped" /\ pc # "poll"
    BY DEF InUse
  <2>2. /\ taken \in Nat /\ released \in Nat /\ Counted \in Nat /\ taken = released + 1
        /\ strm.indexPc = LastOf(taken) /\ Begun \in Nat
        /\ filled = Counted + hw.pending /\ hw.pending \in 0 .. 2 /\ filled \in Nat
    BY <1>1, <2>1, Numbers DEF Inv, RunInv, ReaderInv
  <2>3. strm.indexPc = At(released) /\ At(released) \in Blocks
    BY <2>2, AtIsBlock DEF LastOf
  <2>4. filled <= Begun
    BY <2>2 DEF Begun
  <2>5. CASE lapped
    <3>1. filled >= BlockCount /\ At(released) < BlockCount /\ At(released) \in Nat
      BY <1>1, <2>1, <2>2, <2>5, AtIsBlock DEF Inv, RunInv, ReaderInv
    <3>2. At(released) < Begun
      BY <3>1, <2>2, <2>4, Constants
    <3> QED BY <3>2, <2>3, <1>1, <2>1 DEF Inv, RunInv, RingInv
  <2>6. CASE ~lapped
    <3>1. HandedInOrder => ring[strm.indexPc].run = runs
      BY <2>6 DEF HandedInOrder
    <3>2. PICK k \in taken .. Counted : strm.indexDma = LastOf(k)
      BY <1>1, <2>1, <2>6 DEF Inv, RunInv, ReaderInv
    <3>3. released \in 0 .. MaxBlocks /\ released < Begun /\ Begun <= released + BlockCount
      BY <1>1, <2>1, <2>2, <2>4, <2>6, <3>2, Numbers, Constants DEF Inv, RunInv, ReaderInv
    <3> QED BY <3>3, <2>3, <1>1, <2>1 DEF Inv, RunInv, RingInv
  <2> QED BY <2>5, <2>6
<1> QED BY <1>1, StreamInvariant, PTL

(* If the channel honoured m_DoneFlag, the agreed mode would keep it from   *)
(* lapping the program, whatever the number of blocks from four up.         *)
THEOREM StreamFlagProtects == Spec => []FlagProtects
<1>1. Init => FlagProtects
  BY DEF Init, FlagProtects
<1>2. ASSUME Inv, Inv', FlagProtects, [Next]_vars
      PROVE  FlagProtects'
  <2>1. CASE pc' # "stopped"
    BY <1>2, <2>1 DEF Inv, RunInv, AgreeInv, Guarded, FlagProtects
  <2>2. CASE pc' = "stopped"
    <3>1. ASSUME pc = "stopped" PROVE hw = Off
      BY <1>2, <3>1 DEF Inv, ChannelInv
    <3>2. UNCHANGED <<cfg, lapped, ignored, raced>>
      BY <1>2, <2>2, <3>1 DEF Next, FillBegin, FillEnd, Isr, Dpc, StreamStart, StreamStop,
         Reader, StreamGetBuf, SetDoneBlock, RaiseFlag, Used, vars, hwVars, drvVars,
         userVars, Off
    <3> QED BY <1>2, <3>2 DEF FlagProtects
  <2> QED BY <2>1, <2>2
<1> QED BY <1>1, <1>2, StreamInvariant, PTL DEF Spec

===============================================================================
