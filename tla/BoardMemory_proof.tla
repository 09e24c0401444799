--------------------------- MODULE BoardMemory_proof ---------------------------
(***************************************************************************)
(* BoardMemory for any number of blocks, regions, programs and probes.     *)
(***************************************************************************)
EXTENDS BoardMemory, FiniteSetTheorems, WellFoundedInduction, TLAPS

-----------------------------------------------------------------------------
(* Free(k): the k-th of the free regions.                                   *)
LEMMA Greatest ==
  ASSUME NEW S \in SUBSET Int, IsFiniteSet(S), S # {}
  PROVE  \E m \in S : \A q \in S : q <= m
<1> DEFINE Above(x) == {q \in S : q > x}
           T == {Above(x) : x \in S}
           R == StrictSubsetOrdering(S)
<1>1. IsWellFoundedOn(R, SUBSET S)
  BY FS_StrictSubsetOrderingWellFounded, FS_FiniteSubsetsOfFinite
<1>2. T \subseteq SUBSET S /\ T # {}
  OBVIOUS
<1>3. PICK t \in T : \A u \in T : <<u, t>> \notin R
  <2> HIDE DEF T, R
  <2> QED BY <1>1, <1>2, WFMin
<1>4. PICK m \in S : t = Above(m)
  OBVIOUS
<1>5. ASSUME NEW q \in S, q > m
      PROVE  FALSE
  <2>1. Above(q) \in T
    OBVIOUS
  <2>2. q \in Above(m) /\ q \notin Above(q)
    BY <1>5
  <2>3. \A x \in S : x > q => x > m
    BY <1>5
  <2>4. Above(q) \subseteq Above(m) /\ Above(q) # Above(m)
    BY <2>2, <2>3
  <2>5. <<Above(q), t>> \in R
    BY <2>4, <1>4 DEF StrictSubsetOrdering
  <2> QED BY <2>1, <2>5, <1>3
<1> QED BY <1>5

LEMMA NthElement ==
  ASSUME NEW S \in SUBSET Int, IsFiniteSet(S), NEW k \in Nat, k > 0, k <= Cardinality(S)
  PROVE  \E r \in S : Cardinality({q \in S : q < r}) = k - 1
<1> DEFINE Initial(T) == \A x \in T, q \in S : q < x => q \in T
           F == {T \in SUBSET S : Cardinality(T) >= k /\ Initial(T)}
           R == StrictSubsetOrdering(S)
<1>1. IsWellFoundedOn(R, SUBSET S)
  BY FS_StrictSubsetOrderingWellFounded, FS_FiniteSubsetsOfFinite
<1>2. S \in F
  OBVIOUS
<1>3. PICK M \in F : \A U \in F : <<U, M>> \notin R
  <2>1. F \subseteq SUBSET S /\ F # {}
    BY <1>2
  <2> HIDE DEF F, R
  <2> QED BY <1>1, <2>1, WFMin
<1>4. M \subseteq S /\ Cardinality(M) >= k /\ Initial(M)
  OBVIOUS
<1>5. IsFiniteSet(M) /\ Cardinality(M) \in Nat /\ M # {}
  <2>1. IsFiniteSet(M)
    BY <1>4, FS_Subset
  <2>2. Cardinality(M) \in Nat
    BY <2>1, FS_CardinalityType
  <2>3. Cardinality({}) = 0
    BY FS_EmptySet
  <2> QED BY <2>1, <2>2, <2>3, <1>4, SMTT(30)
<1>6. PICK m \in M : \A q \in M : q <= m
  BY <1>4, <1>5, Greatest
<1> DEFINE U == M \ {m}
<1>7. U = {q \in S : q < m}
  <2>1. ASSUME NEW q \in S
        PROVE  q \in U <=> q < m
    <3>1. q \in Int /\ m \in Int
      BY <1>4
    <3>2. q < m => q \in M
      BY <1>4, <1>6
    <3>3. q \in M => q <= m
      BY <1>6
    <3> QED BY <3>1, <3>2, <3>3
  <2> HIDE DEF Initial, F
  <2> QED BY <2>1, <1>4
<1>8. Cardinality(U) = Cardinality(M) - 1
  BY <1>5, <1>6, FS_RemoveElement
<1>9. Initial(U)
  BY <1>7, <1>4
<1>10. <<U, M>> \in R
  BY <1>4, <1>6 DEF StrictSubsetOrdering
<1>11. U \notin F
  BY <1>3, <1>10
<1>12. ~ (Cardinality(U) >= k)
  BY <1>11, <1>9, <1>4
<1>13. Cardinality(U) = k - 1
  BY <1>12, <1>8, <1>4, <1>5
<1> QED BY <1>13, <1>7, <1>4, <1>6

(* The regions a request gets are free and all different. *)
LEMMA FreeRegions ==
  ASSUME NEW n \in Nat, Cardinality(Regions \ live) >= n
  PROVE  /\ \A k \in 1 .. n : Free(k) \in Regions \ live
         /\ \A j, k \in 1 .. n : Free(j) = Free(k) => j = k
<1> DEFINE S == Regions \ live
<1>1. S \in SUBSET Int /\ IsFiniteSet(S)
  <2>1. IsFiniteSet(Regions)
    BY BoardMemoryAssumption, FS_Interval DEF Regions
  <2>2. S \in SUBSET Int
    BY DEF Regions
  <2> QED BY <2>1, <2>2, FS_Difference
<1>2. Cardinality(S) \in Nat
  BY <1>1, FS_CardinalityType
<1>3. ASSUME NEW k \in 1 .. n
      PROVE  Free(k) \in S /\ Cardinality({q \in S : q < Free(k)}) = k - 1
  <2> DEFINE P(r) == Cardinality({q \in S : q < r}) = k - 1
             f == CHOOSE r \in S : P(r)
  <2>1. \E r \in S : P(r)
    <3>1. k \in Nat /\ k > 0 /\ k <= Cardinality(S)
      BY <1>2
    <3> HIDE DEF S
    <3> QED BY <3>1, <1>1, NthElement
  <2>2. Free(k) = f
    BY DEF Free
  <2>3. f \in S /\ P(f)
    <3> HIDE DEF P
    <3> QED BY <2>1
  <2> QED BY <2>2, <2>3
<1>4. \A k \in 1 .. n : Free(k) \in Regions \ live
  BY <1>3
<1>5. ASSUME NEW j \in 1 .. n, NEW k \in 1 .. n, Free(j) = Free(k)
      PROVE  j = k
  <2>1. j - 1 = k - 1
    BY <1>3, <1>5
  <2> QED BY <2>1
<1> QED BY <1>4, <1>5

-----------------------------------------------------------------------------
(* The inductive invariant.  A program in Busy has memory of the channel.   *)
Busy == {"set", "mapped", "ready", "run"}
Bare == {"unloaded", "unbound", "hollow"}

Pcs == {"none", "open"} \cup Busy
Descrs == [blocks : [Blocks -> Ptr], stub : Ptr]
Types == TypeOK /\ prog \in [pc : Pcs, descr : Descrs, map : SUBSET Regions]

(* No program has the board open that is not there; a channel or a class    *)
(* that is missing was refused.                                             *)
BoardInv ==
  /\ board \in {"unloaded"} => held = {}
  /\ board \in {"unbound", "hollow"} => held \cup {"class"} = Range(ModuleSteps)
  /\ board \in Bare => prog.pc = "none" /\ list = {}
  /\ "chan" \in held => board = "bound"
  /\ board = "bound" /\ "chan" \notin held => faulty
  /\ board # "unloaded" /\ "class" \notin held => faulty
  /\ prog.pc # "none" /\ board # "bound" => early
  /\ prog.pc \in Busy => board = "bound"

(* m_UseCount counts programs; the one that is to have memory is not in it. *)
CountInv ==
  /\ progs \in 0 .. MaxProgs
  /\ dma.use <= progs
  /\ prog.pc = "open" => dma.use + 1 <= progs

(* What the channel owns is allocated, and by no one else; so is what a     *)
(* table leads to while m_SGTableDscr has it.                               *)
OwnedBy(d) == {d.dscr, d.sg} \cup Range(d.blocks)
DmaInv ==
  /\ OwnedBy(dma) \subseteq live \cup {0} /\ dma.stub \in live \cup {0}
  /\ OwnedBy(dma) \cap list = {} /\ dma.stub \notin list
  /\ dma.stub # 0 => dma.stub \notin OwnedBy(dma)
  /\ dma.use > 0 => dma.stub # 0
  /\ dma.use = 0 => dma.sg = 0 /\ dma.dscr = 0 /\ dma.blocks = NoBlocks
  /\ dma.sg # 0 => /\ dma.table = dma.sg /\ dma.sg # dma.dscr
                   /\ Range(dma.chain) \subseteq live
                   /\ Range(dma.chain) \cap list = {} /\ dma.dscr \notin Range(dma.chain)

(* The FPGA uses allocated memory that a failed request does not free, and  *)
(* is off whenever ReleaseMemory is called.                                 *)
InUse == Range(hw.chain) \cup {hw.sg}
HwInv ==
  /\ hw.on => InUse \subseteq live /\ InUse \cap list = {} /\ dma.dscr \notin InUse
  /\ prog.pc = "ready" => ~hw.on

ProgInv ==
  /\ prog.pc \in Busy =>
       /\ dma.use > 0 /\ prog.descr = Descr(dma)
       /\ Range(dma.blocks) \subseteq live
       /\ prog.map \subseteq Range(dma.blocks) \cup {dma.stub}
  /\ prog.pc \notin Busy => prog.map = {}

(* As long as nothing failed, the channel has memory only for the program   *)
(* that has set it up, and nothing else is allocated but stubs and single   *)
(* blocks.                                                                  *)
CleanInv == ~faulty =>
  /\ live \subseteq stubs \cup list \cup OwnedBy(dma)
  /\ prog.pc \notin Busy => dma.use = 0
  /\ prog.pc \in Busy => /\ dma.use = 1
                         /\ dma.chain = dma.blocks /\ dma.table = dma.sg /\ dma.sg # 0
                         /\ dma.dscr # 0
  /\ prog.pc = "run" /\ hw.on => hw.chain = dma.blocks

MemInv == CountInv /\ DmaInv /\ HwInv /\ ProgInv /\ CleanInv
BoardMemoryInv == Types /\ BoardInv /\ MemInv /\ OopsExplained

-----------------------------------------------------------------------------
(* Module and probe. *)
LEMMA ModuleUndone ==
  ASSUME held = {}, NEW i \in DOMAIN ModuleSteps
  PROVE  HeldAfter(ModuleSteps, i, ModuleUndo[ModuleSteps[i]]) = {}
<1>1. DOMAIN ModuleSteps = 1 .. 3
  BY DEF ModuleSteps
<1>2. CASE i = 1
  BY <1>2 DEF HeldAfter, ModuleSteps, ModuleUndo
<1>3. CASE i = 2
  BY <1>3 DEF HeldAfter, ModuleSteps, ModuleUndo, Range
<1>4. CASE i = 3
  BY <1>4 DEF HeldAfter, ModuleSteps, ModuleUndo, Range
<1> QED BY <1>1, <1>2, <1>3, <1>4

LEMMA StepNames ==
  /\ Range(ModuleSteps) = {"chrdev", "class", "driver"}
  /\ Range(ProbeSteps) = {"brd", "enable", "dma_mask", "bar0", "bar1", "irq", "cdev", "device"}
BY DEF Range, ModuleSteps, ProbeSteps

LEMMA ProbeUndone ==
  ASSUME held \subseteq Range(ModuleSteps), NEW i \in DOMAIN ProbeSteps
  PROVE  HeldAfter(ProbeSteps, i, ProbeUndo(ProbeSteps[i])) = held
<1> DEFINE u == Range(ProbeUndo(ProbeSteps[i])) \cup {"dma_mask"}
<1>1. DOMAIN ProbeSteps = 1 .. 8
  BY DEF ProbeSteps
<1>2. u \cap Range(ModuleSteps) = {}
  <2>1. ProbeSteps[i] \in Range(ProbeSteps)
    BY DEF Range
  <2>2. Label[ProbeSteps[i]] \in 1 .. 7 /\ Len(Chain) = 6
    BY <2>1, StepNames DEF Label, Chain
  <2>3. Range(ProbeUndo(ProbeSteps[i])) \subseteq Range(Chain)
    BY <2>2 DEF ProbeUndo, Range, Chain
  <2>4. Range(Chain) = {"cdev", "irq", "bar1", "bar0", "enable", "brd"}
    BY DEF Range, Chain
  <2> QED BY <2>3, <2>4, StepNames
<1>3. ASSUME NEW j \in 1 .. i - 1
      PROVE  ProbeSteps[j] \in u
  <2> DEFINE n == Label[ProbeSteps[i]]
  <2>1. n \in 1 .. 7 /\ Len(Chain) = 6
    <3>1. ProbeSteps[i] \in Range(ProbeSteps)
      BY DEF Range
    <3> QED BY <3>1, StepNames DEF Label, Chain
  <2>2. ASSUME NEW m \in n .. 6
        PROVE  Chain[m] \in u
    <3>1. m - n + 1 \in 1 .. 7 - n
      BY <2>1
    <3>2. SubSeq(Chain, n, 6)[m - n + 1] = Chain[m] /\ DOMAIN SubSeq(Chain, n, 6) = 1 .. 7 - n
      <4> HIDE DEF n
      <4>1. SubSeq(Chain, n, 6) = [k \in 1 .. 7 - n |-> Chain[k + n - 1]]
        BY <2>1
      <4> QED BY <4>1, <3>1, <2>1, SMTT(30)
    <3>3. ProbeUndo(ProbeSteps[i]) = SubSeq(Chain, n, 6)
      BY <2>1 DEF ProbeUndo
    <3> HIDE DEF n
    <3> QED BY <3>1, <3>2, <3>3 DEF Range
  <2>3. \/ ProbeSteps[j] = "dma_mask"
        \/ \E m \in n .. 6 : Chain[m] = ProbeSteps[j]
    <3>1. i \in 2 .. 8 /\ j \in 1 .. i - 1
      BY <1>1
    <3>2. CASE j = 1
      <4>1. 6 \in n .. 6
        BY <3>1, <3>2 DEF ProbeSteps, Label
      <4> QED BY <4>1, <3>2 DEF ProbeSteps, Chain
    <3>3. CASE j = 2
      <4>1. 5 \in n .. 6
        BY <3>1, <3>3 DEF ProbeSteps, Label
      <4> QED BY <4>1, <3>3 DEF ProbeSteps, Chain
    <3>4. CASE j = 3
      BY <3>4 DEF ProbeSteps
    <3>5. CASE j = 4
      <4>1. 4 \in n .. 6
        BY <3>1, <3>5 DEF ProbeSteps, Label
      <4> QED BY <4>1, <3>5 DEF ProbeSteps, Chain
    <3>6. CASE j = 5
      <4>1. 3 \in n .. 6
        BY <3>1, <3>6 DEF ProbeSteps, Label
      <4> QED BY <4>1, <3>6 DEF ProbeSteps, Chain
    <3>7. CASE j = 6
      <4>1. 2 \in n .. 6
        BY <3>1, <3>7 DEF ProbeSteps, Label
      <4> QED BY <4>1, <3>7 DEF ProbeSteps, Chain
    <3>8. CASE j = 7
      <4>1. 1 \in n .. 6
        BY <3>1, <3>8 DEF ProbeSteps, Label
      <4> QED BY <4>1, <3>8 DEF ProbeSteps, Chain
    <3> QED BY <3>1, <3>2, <3>3, <3>4, <3>5, <3>6, <3>7, <3>8
  <2> QED BY <2>2, <2>3
<1> QED BY <1>2, <1>3 DEF HeldAfter

(* What only changes the board and what it holds leaves the memory alone.   *)
LEMMA ModuleStep ==
  ASSUME BoardMemoryInv,
         pex_module_init \/ Probe \/ InitializeBoard \/ pex_module_cleanup
  PROVE  BoardMemoryInv'
<1>1. /\ UNCHANGED <<list, live, dma, hw, prog, oops, stubs, early, progs>>
      /\ faulty => faulty'
      /\ faulty' \in BOOLEAN
  <2>1. faulty \in BOOLEAN
    BY DEF BoardMemoryInv, Types, TypeOK
  <2>2. UNCHANGED <<list, live, dma, hw, prog, oops, stubs, early, progs>>
    BY DEF pex_module_init, Probe, InitializeBoard, pex_module_cleanup, history
  <2>3. \/ faulty' = faulty
        \/ \E b \in BOOLEAN : faulty' = (faulty \/ b)
    <3>1. \A lost : (lost # {}) \in BOOLEAN
      OBVIOUS
    <3>2. CASE pex_module_init
      BY <3>1, <3>2, Zenon DEF pex_module_init
    <3>3. CASE Probe
      BY <3>1, <3>3, Zenon DEF Probe
    <3>4. CASE InitializeBoard \/ pex_module_cleanup
      BY <3>4 DEF InitializeBoard, pex_module_cleanup, history
    <3> QED BY <3>2, <3>3, <3>4
  <2> QED BY <2>1, <2>2, <2>3
<1>2. BoardInv' /\ held' \subseteq Range(ModuleSteps) \cup Range(ProbeSteps) \cup {"chan", "list"}
      /\ board' \in {"unloaded", "unbound", "hollow", "cdev", "mask", "bound"}
  <2>1. CASE pex_module_init
    <3>1. \/ /\ held' \cup {"class"} = Range(ModuleSteps) /\ board' = "unbound"
             /\ "class" \notin held' => faulty'
          \/ held' = {} /\ board' = "unloaded"
      <4>1. CASE \E lost \in SUBSET {"class"} :
                   /\ held' = Range(ModuleSteps) \ lost /\ board' = "unbound"
                   /\ faulty' = (faulty \/ lost # {})
        BY <4>1, StepNames
      <4>2. CASE \E i \in DOMAIN ModuleSteps :
                   /\ held' = HeldAfter(ModuleSteps, i, ModuleUndo[ModuleSteps[i]])
                   /\ UNCHANGED board
        BY <2>1, <4>2, ModuleUndone DEF pex_module_init, BoardMemoryInv, BoardInv
      <4> QED BY <2>1, <4>1, <4>2 DEF pex_module_init
    <3>2. board = "unloaded"
      BY <2>1 DEF pex_module_init
    <3> QED BY <3>1, <3>2, <1>1, StepNames DEF BoardMemoryInv, BoardInv, Bare, Busy
  <2>2. CASE Probe
    <3>1. /\ board = "unbound" /\ held \cup {"class"} = Range(ModuleSteps)
          /\ "class" \notin held => faulty
      BY <2>2 DEF Probe, BoardMemoryInv, BoardInv
    <3>2. \/ /\ held' \subseteq held \cup Range(ProbeSteps) /\ held \subseteq held'
             /\ board' = "cdev"
          \/ held' = held /\ board' \in {"hollow", "unbound"}
      <4>1. CASE \E lost \in SUBSET {"device"} :
                   /\ held' = held \cup (Range(ProbeSteps) \ ({"dma_mask"} \cup lost))
                   /\ board' = "cdev"
        BY <4>1
      <4>2. CASE \E i \in DOMAIN ProbeSteps :
                   /\ held' = HeldAfter(ProbeSteps, i, ProbeUndo(ProbeSteps[i]))
                   /\ board' = IF ProbeSteps[i] = "dma_mask" THEN "hollow" ELSE "unbound"
        BY <4>2, <3>1, ProbeUndone
      <4> QED BY <2>2, <4>1, <4>2 DEF Probe
    <3> QED BY <3>1, <3>2, <1>1, StepNames DEF BoardMemoryInv, BoardInv, Bare, Busy
  <2>3. CASE InitializeBoard
    BY <2>3, <1>1 DEF InitializeBoard, BoardMemoryInv, BoardInv, Bare, Busy, Types, TypeOK
  <2>4. CASE pex_module_cleanup
    <3>1. board = "unbound" /\ held' = {} /\ board' = "unloaded"
      BY <2>4, StepNames DEF pex_module_cleanup, BoardMemoryInv, BoardInv
    <3> QED BY <3>1, <1>1 DEF BoardMemoryInv, BoardInv, Bare, Busy
  <2> QED BY <2>1, <2>2, <2>3, <2>4
<1>3. Types'
  BY <1>1, <1>2 DEF BoardMemoryInv, Types, TypeOK
<1>4. MemInv'
  <2>1. CountInv' /\ DmaInv' /\ HwInv' /\ ProgInv'
    BY <1>1 DEF BoardMemoryInv, MemInv, CountInv, DmaInv, HwInv, ProgInv, InUse
  <2>2. CleanInv'
    BY <1>1 DEF BoardMemoryInv, MemInv, CleanInv
  <2> QED BY <2>1, <2>2 DEF MemInv
<1>5. OopsExplained'
  BY <1>1 DEF BoardMemoryInv, OopsExplained
<1> QED BY <1>2, <1>3, <1>4, <1>5 DEF BoardMemoryInv

LEMMA ZeroDma ==
  /\ NewDma \in [use : {0}, dscr : {0}, blocks : {NoBlocks}, stub : {0},
                 sg : {0}, table : {0}, chain : {NoBlocks}, state : {"STOP"}]
  /\ NoBlocks \in [Blocks -> Ptr] /\ Range(NoBlocks) = {0}
  /\ OwnedBy(NewDma) = {0} /\ 0 \in Ptr /\ 0 \notin Regions
<1>1. Range(NoBlocks) = {0}
  <2>1. 1 \in Blocks
    BY BoardMemoryAssumption DEF Blocks
  <2> QED BY <2>1 DEF NoBlocks, Range
<1>2. NoBlocks \in [Blocks -> Ptr] /\ 0 \in Ptr
  BY DEF NoBlocks, Ptr
<1>3. 0 \notin Regions
  BY BoardMemoryAssumption DEF Regions
<1> HIDE DEF NoBlocks
<1>4. OwnedBy(NewDma) = {0}
  BY <1>1 DEF OwnedBy, NewDma
<1> QED BY <1>1, <1>2, <1>3, <1>4 DEF NewDma

LEMMA CreateStep ==
  ASSUME BoardMemoryInv, CDmaChannelCreate
  PROVE  BoardMemoryInv'
<1>1. /\ board = "mask" /\ board' = "bound"
      /\ dma' = NewDma
      /\ \/ held' = held \cup {"chan", "list"} /\ faulty' = faulty
         \/ held' = held \cup {"list"} /\ faulty' = TRUE
      /\ UNCHANGED <<list, live, hw, prog, oops, stubs, early, progs>>
  BY DEF CDmaChannelCreate
<1>2. prog.pc \notin Busy
  BY <1>1 DEF BoardMemoryInv, BoardInv
<1>3. /\ dma'.use = 0 /\ dma'.dscr = 0 /\ dma'.sg = 0 /\ dma'.stub = 0
      /\ dma'.blocks = NoBlocks /\ dma'.chain = NoBlocks /\ OwnedBy(dma') = {0}
      /\ 0 \notin live /\ 0 \notin list /\ live \subseteq Regions /\ list \subseteq live
  BY <1>1, ZeroDma DEF BoardMemoryInv, Types, TypeOK
<1>4. Types'
  <2>1. dma' \in [use : 0 .. MaxProgs, dscr : Ptr, blocks : [Blocks -> Ptr], stub : Ptr,
                  sg : Ptr, table : Ptr, chain : [Blocks -> Ptr], state : {"RUN", "STOP"}]
    BY <1>1, ZeroDma, BoardMemoryAssumption
  <2> QED BY <1>1, <2>1 DEF BoardMemoryInv, Types, TypeOK
<1>5. BoardInv' /\ OopsExplained'
  BY <1>1 DEF BoardMemoryInv, BoardInv, OopsExplained, Bare
<1>6. CountInv'
  BY <1>1, <1>3, BoardMemoryAssumption DEF BoardMemoryInv, Types, TypeOK, MemInv, CountInv
<1>7. DmaInv'
  BY <1>1, <1>3 DEF DmaInv
<1>8. HwInv'
  <2>1. hw.on => 0 \notin InUse
    BY <1>3 DEF BoardMemoryInv, MemInv, HwInv
  <2> QED BY <1>1, <1>3, <2>1 DEF BoardMemoryInv, MemInv, HwInv, InUse
<1>9. ProgInv' /\ CleanInv'
  <2>1. ~faulty => OwnedBy(dma) = {0}
    BY <1>2, ZeroDma DEF BoardMemoryInv, MemInv, CleanInv, DmaInv, OwnedBy
  <2>2. ProgInv'
    BY <1>1, <1>2 DEF BoardMemoryInv, MemInv, ProgInv
  <2>3. CleanInv'
    <3>1. ~faulty' => ~faulty
      BY <1>1
    <3>2. ~faulty => live \subseteq stubs \cup list \cup OwnedBy(dma')
      BY <1>3, <2>1 DEF BoardMemoryInv, MemInv, CleanInv
    <3> QED BY <1>1, <1>2, <1>3, <3>1, <3>2, Zenon DEF CleanInv, Busy
  <2> QED BY <2>2, <2>3
<1> QED BY <1>4, <1>5, <1>6, <1>7, <1>8, <1>9 DEF BoardMemoryInv, MemInv

LEMMA RemoveStep ==
  ASSUME BoardMemoryInv, Remove
  PROVE  BoardMemoryInv'
<1>1. /\ board \in {"bound", "hollow"} /\ prog.pc = "none"
      /\ \/ /\ board = "bound" /\ "class" \notin held
            /\ board' = board /\ held' = held \ {"irq", "chan"} /\ oops' = TRUE
         \/ /\ board = "bound" => "class" \in held
            /\ board' = "unbound" /\ oops' = oops
            /\ held' = IF board = "bound" THEN Range(ModuleSteps) ELSE held
      /\ live' = live \ list /\ list' = {}
      /\ UNCHANGED <<dma, hw, prog, stubs, faulty, early, progs>>
  BY DEF Remove, free_memory, history
<1>2. Types'
  <2>1. held' \subseteq Range(ModuleSteps) \cup Range(ProbeSteps) \cup {"chan", "list"}
    BY <1>1 DEF BoardMemoryInv, Types, TypeOK
  <2> QED BY <1>1, <2>1 DEF BoardMemoryInv, Types, TypeOK
<1>3. BoardInv' /\ OopsExplained'
  <2>1. CASE board = "bound" /\ "class" \notin held
    <3>1. faulty /\ board' = "bound" /\ held' = held \ {"irq", "chan"}
      BY <2>1, <1>1 DEF BoardMemoryInv, BoardInv
    <3> QED BY <3>1, <2>1, <1>1 DEF BoardMemoryInv, BoardInv, OopsExplained, Bare, Busy
  <2>2. CASE board = "bound" => "class" \in held
    <3>1. /\ board' = "unbound" /\ oops' = oops
          /\ held' = IF board = "bound" THEN Range(ModuleSteps) ELSE held
      BY <2>2, <1>1
    <3>2. "class" \notin held' => faulty
      BY <3>1, <1>1, StepNames DEF BoardMemoryInv, BoardInv
    <3>3. held' \cup {"class"} = Range(ModuleSteps) /\ "chan" \notin held'
      BY <3>1, <1>1, StepNames DEF BoardMemoryInv, BoardInv
    <3>4. OopsExplained'
      BY <3>1, <1>1 DEF BoardMemoryInv, OopsExplained
    <3> QED BY <3>1, <3>2, <3>3, <3>4, <1>1 DEF BoardInv, Bare, Busy
  <2> QED BY <2>1, <2>2
<1>4. DmaInv'
  BY <1>1 DEF BoardMemoryInv, MemInv, DmaInv
<1>5. CountInv' /\ HwInv' /\ ProgInv' /\ CleanInv'
  <2>1. HwInv'
    BY <1>1 DEF BoardMemoryInv, MemInv, HwInv, InUse
  <2>2. CountInv' /\ ProgInv'
    BY <1>1 DEF BoardMemoryInv, MemInv, CountInv, ProgInv, Busy
  <2>3. CleanInv'
    BY <1>1 DEF BoardMemoryInv, MemInv, CleanInv, Busy
  <2> QED BY <2>1, <2>2, <2>3
<1> QED BY <1>2, <1>3, <1>4, <1>5 DEF BoardMemoryInv, MemInv

-----------------------------------------------------------------------------
(* The program.  Steps that leave live, list and all of dma but its state.  *)
SameDma == /\ dma'.use = dma.use /\ dma'.dscr = dma.dscr /\ dma'.blocks = dma.blocks
           /\ dma'.stub = dma.stub /\ dma'.sg = dma.sg /\ dma'.table = dma.table
           /\ dma'.chain = dma.chain

LEMMA ProgTypes ==
  ASSUME Types
  PROVE  /\ NoProg \in [pc : {"none"}, descr : Descrs, map : {{}}]
         /\ \A pc \in Pcs : /\ [prog EXCEPT !.pc = pc] \in [pc : Pcs, descr : Descrs, map : SUBSET Regions]
                            /\ [prog EXCEPT !.pc = pc].pc = pc
                            /\ [prog EXCEPT !.pc = pc].descr = prog.descr
                            /\ [prog EXCEPT !.pc = pc].map = prog.map
         /\ Off \in [on : {FALSE}, sg : Ptr, chain : [Blocks -> Ptr]]
<1>1. NoBlocks \in [Blocks -> Ptr] /\ 0 \in Ptr
  BY ZeroDma
<1> HIDE DEF NoBlocks
<1>2. NoProg \in [pc : {"none"}, descr : Descrs, map : {{}}]
  BY <1>1 DEF NoProg, NoDescr, Descrs
<1>3. Off \in [on : {FALSE}, sg : Ptr, chain : [Blocks -> Ptr]]
  BY <1>1 DEF Off
<1> QED BY <1>2, <1>3 DEF Types

LEMMA OpenStep ==
  ASSUME BoardMemoryInv, Open
  PROVE  BoardMemoryInv'
<1>1. /\ prog.pc = "none" /\ "device" \in held /\ progs < MaxProgs
      /\ prog' = [prog EXCEPT !.pc = "open"] /\ progs' = progs + 1
      /\ early' = (early \/ board # "bound")
      /\ UNCHANGED <<board, held, list, live, dma, hw, oops, stubs, faulty>>
  BY DEF Open, At, Goto, kernelVars
<1>2. /\ prog' \in [pc : Pcs, descr : Descrs, map : SUBSET Regions]
      /\ prog'.pc = "open" /\ prog'.descr = prog.descr /\ prog'.map = prog.map
  BY <1>1, ProgTypes DEF BoardMemoryInv, Pcs
<1>3. Types'
  BY <1>1, <1>2 DEF BoardMemoryInv, Types, TypeOK
<1>4. BoardInv'
  <2>1. board \notin Bare
    BY <1>1, StepNames DEF BoardMemoryInv, BoardInv, Bare
  <2> QED BY <2>1, <1>1, <1>2 DEF BoardMemoryInv, BoardInv, Bare, Busy
<1>5. CountInv'
  BY <1>1, <1>2, BoardMemoryAssumption DEF BoardMemoryInv, MemInv, CountInv, Types, TypeOK
<1>6. DmaInv' /\ HwInv' /\ ProgInv' /\ CleanInv'
  <2>1. DmaInv'
    BY <1>1 DEF BoardMemoryInv, MemInv, DmaInv
  <2>2. HwInv' /\ ProgInv'
    BY <1>1, <1>2 DEF BoardMemoryInv, MemInv, HwInv, InUse, ProgInv, Busy
  <2>3. CleanInv'
    BY <1>1, <1>2 DEF BoardMemoryInv, MemInv, CleanInv, Busy
  <2> QED BY <2>1, <2>2, <2>3
<1>7. OopsExplained'
  BY <1>1 DEF BoardMemoryInv, OopsExplained
<1> QED BY <1>3, <1>4, <1>5, <1>6, <1>7 DEF BoardMemoryInv, MemInv

LEMMA MapStep ==
  ASSUME BoardMemoryInv, Map
  PROVE  BoardMemoryInv'
<1>1. /\ prog.pc = "set"
      /\ \/ /\ prog' = [prog EXCEPT !.pc = "mapped",
                          !.map = Range(prog.descr.blocks) \cup {prog.descr.stub}]
            /\ faulty' = faulty
         \/ prog' = NoProg /\ faulty' = TRUE
      /\ UNCHANGED <<board, held, list, live, dma, hw, oops, stubs, early, progs>>
  BY DEF Map, At, kernelVars
<1>2. /\ dma.use > 0 /\ prog.descr = Descr(dma) /\ board = "bound"
      /\ Range(dma.blocks) \subseteq Regions /\ dma.stub \in Regions
  BY <1>1 DEF BoardMemoryInv, BoardInv, MemInv, ProgInv, DmaInv, Busy, Types, TypeOK
<1>3. /\ prog' \in [pc : Pcs, descr : Descrs, map : SUBSET Regions]
      /\ \/ /\ prog'.pc = "mapped" /\ prog'.descr = prog.descr /\ faulty' = faulty
            /\ prog'.map = Range(dma.blocks) \cup {dma.stub}
         \/ /\ prog'.pc = "none" /\ prog'.map = {} /\ faulty' = TRUE
  <2>1. CASE prog' = NoProg /\ faulty' = TRUE
    BY <2>1, ProgTypes DEF BoardMemoryInv, Pcs
  <2>2. CASE prog' = [prog EXCEPT !.pc = "mapped",
                        !.map = Range(prog.descr.blocks) \cup {prog.descr.stub}]
             /\ faulty' = faulty
    <3> DEFINE m == Range(dma.blocks) \cup {dma.stub}
    <3>1. m \in SUBSET Regions /\ prog' = [prog EXCEPT !.pc = "mapped", !.map = m]
      BY <2>2, <1>2 DEF Descr
    <3> HIDE DEF m
    <3>2. prog \in [pc : Pcs, descr : Descrs, map : SUBSET Regions]
      BY DEF BoardMemoryInv, Types
    <3>3. /\ prog' \in [pc : Pcs, descr : Descrs, map : SUBSET Regions]
          /\ prog'.pc = "mapped" /\ prog'.descr = prog.descr /\ prog'.map = m
      BY <3>1, <3>2 DEF Pcs, Busy
    <3> QED BY <3>3, <2>2 DEF m
  <2> QED BY <2>1, <2>2, <1>1
<1>4. Types'
  BY <1>1, <1>3 DEF BoardMemoryInv, Types, TypeOK, Pcs, Busy
<1>5. BoardInv'
  BY <1>1, <1>2, <1>3 DEF BoardMemoryInv, BoardInv, Bare, Busy
<1>6. CountInv' /\ DmaInv'
  BY <1>1, <1>3 DEF BoardMemoryInv, MemInv, CountInv, DmaInv
<1>7. HwInv' /\ ProgInv'
  BY <1>1, <1>2, <1>3 DEF BoardMemoryInv, MemInv, HwInv, InUse, ProgInv, Busy
<1>8. CleanInv' /\ OopsExplained'
  BY <1>1, <1>3 DEF BoardMemoryInv, MemInv, CleanInv, OopsExplained, Busy
<1> QED BY <1>4, <1>5, <1>6, <1>7, <1>8 DEF BoardMemoryInv, MemInv

(* The channel is stopped, by the program or at the end of a pass.          *)
LEMMA HaltStep ==
  ASSUME BoardMemoryInv, Prepare \/ Stop \/ HwDone
  PROVE  BoardMemoryInv'
<1>1. /\ UNCHANGED <<board, held, list, live, oops, stubs, faulty, early, progs>>
      /\ hw' = Off
  BY DEF Prepare, Stop, HwDone, kernelVars, history
<1>2. /\ SameDma
      /\ dma' \in [use : 0 .. MaxProgs, dscr : Ptr, blocks : [Blocks -> Ptr], stub : Ptr,
                   sg : Ptr, table : Ptr, chain : [Blocks -> Ptr], state : {"RUN", "STOP"}]
  <2>1. dma \in [use : 0 .. MaxProgs, dscr : Ptr, blocks : [Blocks -> Ptr], stub : Ptr,
                 sg : Ptr, table : Ptr, chain : [Blocks -> Ptr], state : {"RUN", "STOP"}]
    BY DEF BoardMemoryInv, Types, TypeOK
  <2>2. dma' = dma \/ dma' = [dma EXCEPT !.state = "STOP"]
    BY DEF Prepare, Stop, HwDone, Stopped
  <2> QED BY <2>1, <2>2 DEF SameDma
<1>3. /\ prog' \in [pc : Pcs, descr : Descrs, map : SUBSET Regions]
      /\ prog'.descr = prog.descr /\ prog'.map = prog.map
      /\ \/ prog'.pc = prog.pc
         \/ prog.pc \in Busy /\ prog'.pc = "ready"
  <2>1. \/ prog' = prog
        \/ prog.pc \in Busy /\ prog' = [prog EXCEPT !.pc = "ready"]
    BY DEF Prepare, Stop, HwDone, At, Goto, Busy
  <2> QED BY <2>1, ProgTypes DEF BoardMemoryInv, Types, Pcs, Busy
<1>4. hw' \in [on : {FALSE}, sg : Ptr, chain : [Blocks -> Ptr]]
  BY <1>1, ProgTypes DEF BoardMemoryInv
<1>5. Types'
  BY <1>1, <1>2, <1>3, <1>4 DEF BoardMemoryInv, Types, TypeOK, Pcs, Busy
<1>6. BoardInv' /\ OopsExplained'
  BY <1>1, <1>3 DEF BoardMemoryInv, BoardInv, OopsExplained, Bare, Busy
<1>7. CountInv' /\ DmaInv'
  <2>1. CountInv'
    BY <1>1, <1>2, <1>3 DEF BoardMemoryInv, MemInv, CountInv, SameDma, Busy
  <2>2. DmaInv'
    BY <1>1, <1>2 DEF BoardMemoryInv, MemInv, DmaInv, OwnedBy, SameDma
  <2> QED BY <2>1, <2>2
<1>8. HwInv' /\ ProgInv'
  BY <1>1, <1>2, <1>3, <1>4 DEF BoardMemoryInv, MemInv, HwInv, ProgInv, Descr, SameDma, Busy
<1>9. CleanInv'
  BY <1>1, <1>2, <1>3, <1>4 DEF BoardMemoryInv, MemInv, CleanInv, OwnedBy, SameDma, Busy
<1> QED BY <1>5, <1>6, <1>7, <1>8, <1>9 DEF BoardMemoryInv, MemInv

LEMMA StartStep ==
  ASSUME BoardMemoryInv, Start
  PROVE  BoardMemoryInv'
<1>1. /\ prog.pc = "ready" /\ prog' = [prog EXCEPT !.pc = "run"]
      /\ UNCHANGED <<board, held, list, live, stubs, faulty, early, progs>>
  BY DEF Start, At, Goto, kernelVars, history
<1>2. /\ prog' \in [pc : Pcs, descr : Descrs, map : SUBSET Regions]
      /\ prog'.pc = "run" /\ prog'.descr = prog.descr /\ prog'.map = prog.map
  BY <1>1, ProgTypes DEF BoardMemoryInv, Pcs, Busy
<1>3. dma \in [use : 0 .. MaxProgs, dscr : Ptr, blocks : [Blocks -> Ptr], stub : Ptr,
               sg : Ptr, table : Ptr, chain : [Blocks -> Ptr], state : {"RUN", "STOP"}]
  BY DEF BoardMemoryInv, Types, TypeOK
<1>4. CASE dma.table = 0 \/ dma.table # dma.sg
  <2>1. oops' = TRUE /\ UNCHANGED <<dma, hw>>
    BY <1>4 DEF Start
  <2>2. Types'
    BY <1>1, <1>2, <2>1 DEF BoardMemoryInv, Types, TypeOK, Pcs, Busy
  <2>3. ~hw.on /\ faulty
    BY <1>1, <1>4 DEF BoardMemoryInv, MemInv, HwInv, CleanInv, Busy
  <2>4. BoardInv' /\ CountInv' /\ OopsExplained'
    BY <1>1, <1>2, <2>1, <2>3
       DEF BoardMemoryInv, BoardInv, MemInv, CountInv, OopsExplained, Bare, Busy
  <2>5. DmaInv' /\ HwInv'
    BY <1>1, <1>2, <2>1 DEF BoardMemoryInv, MemInv, DmaInv, HwInv, InUse
  <2>6. ProgInv' /\ CleanInv'
    BY <1>1, <1>2, <2>1, <2>3 DEF BoardMemoryInv, MemInv, ProgInv, CleanInv, Busy
  <2> QED BY <2>2, <2>4, <2>5, <2>6 DEF BoardMemoryInv, MemInv
<1>5. CASE dma.table # 0 /\ dma.table = dma.sg
  <2>1. /\ dma' = [dma EXCEPT !.state = "RUN"] /\ oops' = oops
        /\ hw' = [on |-> TRUE, sg |-> dma.sg, chain |-> dma.chain]
    BY <1>5 DEF Start
  <2>2. /\ SameDma
        /\ dma' \in [use : 0 .. MaxProgs, dscr : Ptr, blocks : [Blocks -> Ptr], stub : Ptr,
                     sg : Ptr, table : Ptr, chain : [Blocks -> Ptr], state : {"RUN", "STOP"}]
    BY <2>1, <1>3 DEF SameDma
  <2>3. /\ hw' \in [on : BOOLEAN, sg : Ptr, chain : [Blocks -> Ptr]]
        /\ hw'.on = TRUE /\ hw'.sg = dma.sg /\ hw'.chain = dma.chain
    BY <2>1, <1>3
  <2>4. Types'
    BY <1>1, <1>2, <2>1, <2>2, <2>3 DEF BoardMemoryInv, Types, TypeOK, Pcs, Busy
  <2>5. BoardInv' /\ OopsExplained'
    BY <1>1, <1>2, <2>1 DEF BoardMemoryInv, BoardInv, OopsExplained, Bare, Busy
  <2>6. CountInv'
    BY <1>1, <1>2, <2>2 DEF BoardMemoryInv, MemInv, CountInv, SameDma
  <2>7. DmaInv'
    BY <1>1, <2>2 DEF BoardMemoryInv, MemInv, DmaInv, OwnedBy, SameDma
  <2>8. HwInv'
    <3>1. /\ dma.sg # 0 /\ dma.sg \in live /\ dma.sg \notin list /\ dma.dscr # dma.sg
          /\ Range(dma.chain) \subseteq live /\ Range(dma.chain) \cap list = {}
          /\ dma.dscr \notin Range(dma.chain)
      BY <1>5 DEF BoardMemoryInv, MemInv, DmaInv, OwnedBy
    <3> QED BY <3>1, <1>1, <1>2, <2>2, <2>3 DEF HwInv, InUse, SameDma
  <2>9. ProgInv'
    BY <1>1, <1>2, <2>2 DEF BoardMemoryInv, MemInv, ProgInv, Descr, SameDma, Busy
  <2>10. CleanInv'
    BY <1>1, <1>2, <2>2, <2>3 DEF BoardMemoryInv, MemInv, CleanInv, OwnedBy, SameDma, Busy
  <2> QED BY <2>4, <2>5, <2>6, <2>7, <2>8, <2>9, <2>10 DEF BoardMemoryInv, MemInv
<1> QED BY <1>4, <1>5

LEMMA DestroyStep ==
  ASSUME BoardMemoryInv, StreamDestroy
  PROVE  BoardMemoryInv'
<1>1. /\ prog.pc = "ready"
      /\ prog' = [prog EXCEPT !.pc = "open", !.descr = NoDescr, !.map = {}]
      /\ UNCHANGED <<board, held, list, hw, stubs, faulty, early, progs>>
  BY DEF StreamDestroy, At, kernelVars, history
<1>2. /\ dma.use > 0 /\ ~hw.on /\ Range(dma.blocks) \subseteq live
      /\ board = "bound"
      /\ dma \in [use : 0 .. MaxProgs, dscr : Ptr, blocks : [Blocks -> Ptr], stub : Ptr,
                  sg : Ptr, table : Ptr, chain : [Blocks -> Ptr], state : {"RUN", "STOP"}]
  BY <1>1 DEF BoardMemoryInv, BoardInv, MemInv, HwInv, ProgInv, Busy, Types, TypeOK
<1>3. Owned = OwnedBy(dma)
  BY DEF Owned, OwnedBy, SGList, SysBuf
<1>4. /\ oops' = ~(OwnedBy(dma) \subseteq live)
      /\ live' = live \ OwnedBy(dma)
      /\ dma' = [dma EXCEPT !.use = @ - 1, !.dscr = 0, !.sg = 0, !.blocks = NoBlocks]
  BY <1>1, <1>2, <1>3 DEF StreamDestroy, ReleaseMemory, ReleaseStub
<1>5. /\ dma' \in [use : 0 .. MaxProgs, dscr : Ptr, blocks : [Blocks -> Ptr], stub : Ptr,
                   sg : Ptr, table : Ptr, chain : [Blocks -> Ptr], state : {"RUN", "STOP"}]
      /\ dma'.use = dma.use - 1 /\ dma'.dscr = 0 /\ dma'.sg = 0 /\ dma'.blocks = NoBlocks
      /\ dma'.stub = dma.stub
      /\ OwnedBy(dma') = {0} /\ 0 \notin live
      /\ live \subseteq Regions /\ list \subseteq live
  <2>1. /\ 0 \in Ptr /\ NoBlocks \in [Blocks -> Ptr] /\ Range(NoBlocks) = {0} /\ 0 \notin Regions
    BY ZeroDma
  <2>2. dma.use - 1 \in 0 .. MaxProgs
    BY <1>2, BoardMemoryAssumption
  <2> HIDE DEF NoBlocks
  <2>3. live \subseteq Regions /\ list \subseteq live
    BY DEF BoardMemoryInv, Types, TypeOK
  <2> QED BY <2>1, <2>2, <2>3, <1>2, <1>4 DEF OwnedBy
<1>6. /\ prog' \in [pc : Pcs, descr : Descrs, map : SUBSET Regions]
      /\ prog'.pc = "open" /\ prog'.map = {}
  <2>1. NoDescr \in Descrs
    BY ZeroDma DEF NoDescr, Descrs
  <2> HIDE DEF NoDescr, Descrs
  <2>2. prog \in [pc : Pcs, descr : Descrs, map : SUBSET Regions]
    BY DEF BoardMemoryInv, Types
  <2> QED BY <2>1, <2>2, <1>1 DEF Pcs
<1>7. oops' \in BOOLEAN
  BY <1>4
<1>8. list' \subseteq live' /\ live' \subseteq Regions
  BY <1>1, <1>4, <1>5 DEF BoardMemoryInv, MemInv, DmaInv
<1>9. Types'
  BY <1>1, <1>5, <1>6, <1>7, <1>8 DEF BoardMemoryInv, Types, TypeOK
<1>10. BoardInv'
  BY <1>1, <1>2, <1>6 DEF BoardMemoryInv, BoardInv, Bare, Busy
<1>11. CountInv'
  BY <1>1, <1>2, <1>5, <1>6, BoardMemoryAssumption DEF BoardMemoryInv, MemInv, CountInv
<1>12. DmaInv'
  <2>1. /\ dma.stub \in live \cup {0} /\ dma.stub \notin list /\ dma.stub # 0
        /\ dma.stub \notin OwnedBy(dma)
    BY <1>2 DEF BoardMemoryInv, MemInv, DmaInv
  <2> QED BY <2>1, <1>1, <1>4, <1>5 DEF DmaInv
<1>13. HwInv' /\ ProgInv'
  BY <1>1, <1>2, <1>6 DEF HwInv, ProgInv, Busy
<1>14. CleanInv'
  <2>1. CASE faulty
    BY <2>1, <1>1 DEF CleanInv
  <2>2. CASE ~faulty
    <3>1. live \subseteq stubs \cup list \cup OwnedBy(dma) /\ dma.use = 1
      BY <2>2, <1>1 DEF BoardMemoryInv, MemInv, CleanInv, Busy
    <3>2. live' \subseteq stubs' \cup list' /\ dma'.use = 0
      BY <3>1, <1>1, <1>4, <1>5
    <3> QED BY <3>2, <1>6 DEF CleanInv, Busy
  <2> QED BY <2>1, <2>2
<1>15. OopsExplained'
  <2>1. ASSUME ~faulty
        PROVE  OwnedBy(dma) \subseteq live
    <3>1. dma.sg # 0 /\ dma.dscr # 0 /\ OwnedBy(dma) \subseteq live \cup {0}
      BY <1>1, <2>1 DEF BoardMemoryInv, MemInv, CleanInv, DmaInv, Busy
    <3> QED BY <3>1, <1>2 DEF OwnedBy
  <2> QED BY <2>1, <1>1, <1>4 DEF OopsExplained
<1> QED BY <1>9, <1>10, <1>11, <1>12, <1>13, <1>14, <1>15 DEF BoardMemoryInv, MemInv

LEMMA ExitStep ==
  ASSUME BoardMemoryInv, Exit
  PROVE  BoardMemoryInv'
<1>1. /\ prog.pc # "none" /\ prog' = NoProg
      /\ faulty' = (faulty \/ prog.pc # "open")
      /\ UNCHANGED <<board, held, list, live, dma, hw, oops, stubs, early, progs>>
  BY DEF Exit, kernelVars
<1>2. /\ prog' \in [pc : Pcs, descr : Descrs, map : SUBSET Regions]
      /\ prog'.pc = "none" /\ prog'.map = {}
  BY <1>1, ProgTypes DEF BoardMemoryInv, Pcs
<1>3. Types'
  BY <1>1, <1>2 DEF BoardMemoryInv, Types, TypeOK
<1>4. BoardInv' /\ CountInv' /\ OopsExplained'
  BY <1>1, <1>2 DEF BoardMemoryInv, BoardInv, MemInv, CountInv, OopsExplained, Bare, Busy
<1>5. DmaInv' /\ HwInv' /\ ProgInv'
  BY <1>1, <1>2 DEF BoardMemoryInv, MemInv, DmaInv, HwInv, InUse, ProgInv, Busy
<1>6. CleanInv'
  BY <1>1, <1>2 DEF BoardMemoryInv, MemInv, CleanInv, Busy
<1> QED BY <1>3, <1>4, <1>5, <1>6 DEF BoardMemoryInv, MemInv

(* A single block comes or goes.                                            *)
LEMMA BlockStep ==
  ASSUME BoardMemoryInv, MemoryAlloc \/ MemoryFree
  PROVE  BoardMemoryInv'
<1>1. /\ prog.pc = "open"
      /\ UNCHANGED <<board, held, dma, hw, prog, oops, stubs, faulty, early, progs>>
  BY DEF MemoryAlloc, MemoryFree, At, history
<1>2. /\ live \subseteq Regions /\ list \subseteq live /\ 0 \notin Regions
  BY ZeroDma DEF BoardMemoryInv, Types, TypeOK
<1>3. PICK r \in Regions :
        \/ r \notin live /\ live' = live \cup {r} /\ list' = list \cup {r}
        \/ r \in list /\ live' = live \ {r} /\ list' = list \ {r}
        \/ UNCHANGED <<list, live>>
  <2>1. CASE MemoryAlloc
    <3>1. Cardinality(Regions \ live) >= 1
      <4>1. IsFiniteSet(Regions \ live)
        <5>1. IsFiniteSet(Regions)
          BY BoardMemoryAssumption, FS_Interval DEF Regions
        <5> QED BY <5>1, FS_Difference
      <4>2. Cardinality(Regions \ live) \in Nat /\ Allocations \in Nat
        BY <4>1, FS_CardinalityType, BoardMemoryAssumption DEF Allocations
      <4> QED BY <2>1, <4>2, BoardMemoryAssumption DEF MemoryAlloc
    <3>2. Free(1) \in Regions \ live
      BY <3>1, FreeRegions
    <3> QED BY <2>1, <3>2 DEF MemoryAlloc, allocate_memory_block
  <2>2. CASE MemoryFree
    BY <2>2, <1>2 DEF MemoryFree, free_memory_block
  <2> QED BY <2>1, <2>2
<1>4. Types'
  BY <1>1, <1>2, <1>3 DEF BoardMemoryInv, Types, TypeOK
<1>5. BoardInv' /\ CountInv' /\ OopsExplained'
  BY <1>1 DEF BoardMemoryInv, BoardInv, MemInv, CountInv, OopsExplained, Bare, Busy
<1>6. DmaInv'
  BY <1>1, <1>2, <1>3 DEF BoardMemoryInv, MemInv, DmaInv
<1>7. HwInv' /\ ProgInv'
  BY <1>1, <1>2, <1>3 DEF BoardMemoryInv, MemInv, HwInv, InUse, ProgInv, Busy
<1>8. CleanInv'
  BY <1>1, <1>2, <1>3 DEF BoardMemoryInv, MemInv, CleanInv, Busy
<1> QED BY <1>4, <1>5, <1>6, <1>7, <1>8 DEF BoardMemoryInv, MemInv

-----------------------------------------------------------------------------
(* IOCTL_AMB_SET_MEMIO.  The regions a request gets.                        *)
LEMMA RequestRegions ==
  ASSUME BoardMemoryInv, Cardinality(Regions \ live) >= Allocations
  PROVE  /\ \A k \in 1 .. Allocations : Free(k) \in Regions /\ Free(k) \notin live /\ Free(k) # 0
         /\ \A j, k \in 1 .. Allocations : Free(j) = Free(k) => j = k
         /\ Allocations \in Nat /\ BlockCnt \in Nat /\ BlockCnt > 0 /\ Allocations = BlockCnt + 3
         /\ \A b \in Blocks : b + 2 \in 3 .. Allocations - 1
         /\ NewBlocks \in [Blocks -> Ptr] /\ Range(NewBlocks) = {Free(b + 2) : b \in Blocks}
<1>1. /\ Allocations \in Nat /\ BlockCnt \in Nat /\ BlockCnt > 0 /\ Allocations = BlockCnt + 3
  BY BoardMemoryAssumption DEF Allocations
<1>2. /\ \A k \in 1 .. Allocations : Free(k) \in Regions \ live
      /\ \A j, k \in 1 .. Allocations : Free(j) = Free(k) => j = k
  BY <1>1, FreeRegions
<1>3. \A b \in Blocks : b + 2 \in 3 .. Allocations - 1
  BY <1>1 DEF Blocks
<1>4. \A b \in Blocks : Free(b + 2) \in Ptr
  BY <1>1, <1>2, <1>3 DEF Ptr
<1>5. NewBlocks \in [Blocks -> Ptr] /\ Range(NewBlocks) = {Free(b + 2) : b \in Blocks}
  BY <1>4 DEF NewBlocks, Range
<1> QED BY <1>1, <1>2, <1>3, <1>5, ZeroDma

(* Memory in use is allocated again. *)
LEMMA RequestAgainDone ==
  ASSUME BoardMemoryInv, prog.pc = "open", board = "bound", dma.use > 0, dma.dscr # 0,
         Cardinality(Regions \ live) >= Allocations, RequestAgain(0),
         prog' = [prog EXCEPT !.pc = "set", !.descr = Descr(dma')], faulty' = faulty,
         UNCHANGED <<board, held, list, hw, oops, early, progs>>
  PROVE  BoardMemoryInv'
<1> DEFINE N == {Free(b + 2) : b \in Blocks}
<1>1. /\ N \subseteq Regions /\ N \cap live = {} /\ 0 \notin N
      /\ NewBlocks \in [Blocks -> Ptr] /\ Range(NewBlocks) = N
  BY RequestRegions
<1>2. /\ live' = live \cup N /\ stubs' = stubs
      /\ dma' = [dma EXCEPT !.use = @ + 1, !.blocks = NewBlocks]
  BY DEF RequestAgain
<1>3. /\ faulty /\ dma.use + 1 <= progs /\ progs \in 0 .. MaxProgs /\ prog.map = {}
      /\ live \subseteq Regions /\ list \subseteq live /\ 0 \notin Regions
  BY ZeroDma DEF BoardMemoryInv, MemInv, CleanInv, CountInv, ProgInv, Busy, Types, TypeOK
<1>4. /\ dma' \in [use : 0 .. MaxProgs, dscr : Ptr, blocks : [Blocks -> Ptr], stub : Ptr,
                   sg : Ptr, table : Ptr, chain : [Blocks -> Ptr], state : {"RUN", "STOP"}]
      /\ dma'.use = dma.use + 1 /\ dma'.dscr = dma.dscr /\ dma'.sg = dma.sg
      /\ dma'.blocks = NewBlocks /\ dma'.stub = dma.stub /\ dma'.table = dma.table
      /\ dma'.chain = dma.chain
  <2>1. dma \in [use : 0 .. MaxProgs, dscr : Ptr, blocks : [Blocks -> Ptr], stub : Ptr,
                 sg : Ptr, table : Ptr, chain : [Blocks -> Ptr], state : {"RUN", "STOP"}]
    BY DEF BoardMemoryInv, Types, TypeOK
  <2>2. dma.use + 1 \in 0 .. MaxProgs
    BY <2>1, <1>3, BoardMemoryAssumption
  <2> QED BY <2>1, <2>2, <1>1, <1>2
<1>5. /\ prog' \in [pc : Pcs, descr : Descrs, map : SUBSET Regions]
      /\ prog'.pc = "set" /\ prog'.descr = Descr(dma') /\ prog'.map = {}
  <2>1. Descr(dma') \in Descrs
    BY <1>4 DEF Descr, Descrs
  <2> HIDE DEF Descr, Descrs
  <2>2. prog \in [pc : Pcs, descr : Descrs, map : SUBSET Regions]
    BY DEF BoardMemoryInv, Types
  <2> QED BY <2>1, <2>2, <1>3 DEF Pcs, Busy
<1> HIDE DEF N
<1>6. Types'
  BY <1>1, <1>2, <1>3, <1>4, <1>5 DEF BoardMemoryInv, Types, TypeOK, Pcs, Busy
<1>7. BoardInv' /\ OopsExplained'
  BY <1>3, <1>5 DEF BoardMemoryInv, BoardInv, OopsExplained, Bare, Busy
<1>8. CountInv'
  BY <1>3, <1>4, <1>5 DEF CountInv
<1>9. DmaInv'
  <2>1. /\ dma.dscr \in live \cup {0} /\ dma.sg \in live \cup {0}
        /\ dma.dscr \notin list /\ dma.sg \notin list
        /\ dma.stub \in live /\ dma.stub # 0 /\ dma.stub \notin list
        /\ dma.stub # dma.dscr /\ dma.stub # dma.sg
        /\ dma.sg # 0 => /\ dma.table = dma.sg /\ dma.sg # dma.dscr
                         /\ Range(dma.chain) \subseteq live
                         /\ Range(dma.chain) \cap list = {} /\ dma.dscr \notin Range(dma.chain)
    BY DEF BoardMemoryInv, MemInv, DmaInv, OwnedBy
  <2>2. dma'.use > 0 /\ OwnedBy(dma') = {dma.dscr, dma.sg} \cup N
    BY <1>1, <1>4 DEF OwnedBy, BoardMemoryInv, Types, TypeOK
  <2> QED BY <2>1, <2>2, <1>1, <1>2, <1>3, <1>4 DEF DmaInv
<1>10. HwInv'
  BY <1>2, <1>4, <1>5 DEF BoardMemoryInv, MemInv, HwInv, InUse
<1>11. ProgInv'
  BY <1>1, <1>2, <1>4, <1>5 DEF ProgInv, Busy, BoardMemoryInv, Types, TypeOK
<1>12. CleanInv'
  BY <1>3 DEF CleanInv
<1> QED BY <1>6, <1>7, <1>8, <1>9, <1>10, <1>11, <1>12 DEF BoardMemoryInv, MemInv

(* The program is refused; dma', live' keep what matters.                   *)
LEMMA Refused ==
  ASSUME BoardMemoryInv, prog.pc = "open", board = "bound",
         prog' = NoProg, UNCHANGED <<board, held, list, hw, oops, early, progs, stubs>>,
         faulty => faulty', faulty' \in BOOLEAN,
         dma' \in [use : 0 .. MaxProgs, dscr : Ptr, blocks : [Blocks -> Ptr], stub : Ptr,
                   sg : Ptr, table : Ptr, chain : [Blocks -> Ptr], state : {"RUN", "STOP"}],
         dma'.use = dma.use, live' \subseteq Regions, list \subseteq live',
         DmaInv', HwInv', ~faulty' => live' = live /\ OwnedBy(dma') = OwnedBy(dma)
  PROVE  BoardMemoryInv'
<1>1. /\ prog' \in [pc : Pcs, descr : Descrs, map : SUBSET Regions]
      /\ prog'.pc = "none" /\ prog'.map = {}
  BY ProgTypes DEF BoardMemoryInv, Pcs
<1>2. Types'
  BY <1>1 DEF BoardMemoryInv, Types, TypeOK
<1>3. BoardInv' /\ CountInv' /\ OopsExplained'
  BY <1>1 DEF BoardMemoryInv, BoardInv, MemInv, CountInv, OopsExplained, Bare, Busy
<1>4. ProgInv' /\ CleanInv'
  BY <1>1 DEF BoardMemoryInv, MemInv, ProgInv, CleanInv, Busy
<1> QED BY <1>2, <1>3, <1>4 DEF BoardMemoryInv, MemInv

LEMMA RequestAgainFailed ==
  ASSUME BoardMemoryInv, prog.pc = "open", board = "bound", dma.use > 0, dma.dscr # 0,
         Cardinality(Regions \ live) >= Allocations,
         NEW fail \in 3 .. Allocations - 1, RequestAgain(fail),
         prog' = NoProg, faulty' = TRUE,
         UNCHANGED <<board, held, list, hw, oops, early, progs>>
  PROVE  BoardMemoryInv'
<1> DEFINE F == {Free(b + 2) : b \in 1 .. fail - 3}
<1>1. F \subseteq Regions /\ F \cap live = {}
  <2>1. \A b \in 1 .. fail - 3 : b \in Blocks
    BY RequestRegions DEF Blocks
  <2> QED BY <2>1, RequestRegions
<1>2. /\ live' = (live \cup F) \ {dma.dscr} /\ stubs' = stubs
      /\ dma' = [dma EXCEPT !.dscr = 0, !.blocks = NoBlocks]
  BY RequestRegions DEF RequestAgain
<1>3. live \subseteq Regions /\ list \subseteq live /\ 0 \notin Regions
  BY ZeroDma DEF BoardMemoryInv, Types, TypeOK
<1>4. /\ dma' \in [use : 0 .. MaxProgs, dscr : Ptr, blocks : [Blocks -> Ptr], stub : Ptr,
                   sg : Ptr, table : Ptr, chain : [Blocks -> Ptr], state : {"RUN", "STOP"}]
      /\ dma'.use = dma.use /\ dma'.dscr = 0 /\ dma'.sg = dma.sg
      /\ dma'.stub = dma.stub /\ dma'.table = dma.table /\ dma'.chain = dma.chain
      /\ OwnedBy(dma') = {0, dma.sg}
  <2>1. 0 \in Ptr /\ NoBlocks \in [Blocks -> Ptr] /\ Range(NoBlocks) = {0}
    BY ZeroDma
  <2> HIDE DEF NoBlocks
  <2> QED BY <2>1, <1>2 DEF BoardMemoryInv, Types, TypeOK, OwnedBy
<1> HIDE DEF F
<1>5. /\ dma.sg \in live \cup {0} /\ dma.dscr \notin list /\ dma.sg \notin list
      /\ dma.stub \in live /\ dma.stub # 0 /\ dma.stub \notin list
      /\ dma.stub # dma.dscr /\ dma.stub # dma.sg
      /\ dma.sg # 0 => /\ dma.table = dma.sg /\ dma.sg # dma.dscr
                       /\ Range(dma.chain) \subseteq live
                       /\ Range(dma.chain) \cap list = {} /\ dma.dscr \notin Range(dma.chain)
  BY DEF BoardMemoryInv, MemInv, DmaInv, OwnedBy
<1>6. DmaInv'
  BY <1>1, <1>2, <1>3, <1>4, <1>5 DEF DmaInv
<1>7. HwInv'
  <2>1. hw.on => InUse \subseteq live /\ InUse \cap list = {} /\ dma.dscr \notin InUse
    BY DEF BoardMemoryInv, MemInv, HwInv
  <2>2. prog'.pc = "none" /\ InUse' = InUse
    BY DEF NoProg, InUse
  <2> QED BY <2>1, <2>2, <1>2, <1>3, <1>4 DEF HwInv
<1>8. live' \subseteq Regions /\ list \subseteq live'
  BY <1>1, <1>2, <1>3, <1>5
<1> QED BY <1>2, <1>4, <1>6, <1>7, <1>8, Refused

(* Nothing is allocated, or only some of the blocks, which are then lost.   *)
LEMMA RequestRefused ==
  ASSUME BoardMemoryInv, prog.pc = "open", board = "bound", dma.use = 0,
         Cardinality(Regions \ live) >= Allocations,
         NEW fail \in 0 .. Allocations - 1,
         \/ fail = 0 /\ RequestUser
         \/ fail # 0 /\ RequestFailed(fail),
         prog' = NoProg, faulty' = (faulty \/ fail # 0),
         UNCHANGED <<board, held, list, hw, oops, early, progs>>
  PROVE  BoardMemoryInv'
<1> DEFINE F == {Free(b + 2) : b \in 1 .. fail - 3}
<1>1. F \subseteq Regions /\ F \cap live = {}
  <2>1. \A b \in 1 .. fail - 3 : b \in Blocks
    BY RequestRegions DEF Blocks
  <2> QED BY <2>1, RequestRegions
<1>2. /\ live' = live \/ live' = live \cup F
      /\ fail = 0 => live' = live
      /\ stubs' = stubs
      /\ dma' = dma \/ dma' = [dma EXCEPT !.stub = 0]
  BY DEF RequestUser, RequestFailed, ReleaseStub
<1>3. live \subseteq Regions /\ list \subseteq live /\ 0 \notin Regions
  BY ZeroDma DEF BoardMemoryInv, Types, TypeOK
<1> HIDE DEF F
<1>4. /\ dma' \in [use : 0 .. MaxProgs, dscr : Ptr, blocks : [Blocks -> Ptr], stub : Ptr,
                   sg : Ptr, table : Ptr, chain : [Blocks -> Ptr], state : {"RUN", "STOP"}]
      /\ dma'.use = dma.use /\ dma'.dscr = dma.dscr /\ dma'.sg = dma.sg
      /\ dma'.stub \in {dma.stub, 0} /\ dma'.blocks = dma.blocks
      /\ OwnedBy(dma') = OwnedBy(dma)
  <2>1. 0 \in Ptr
    BY ZeroDma
  <2>2. dma \in [use : 0 .. MaxProgs, dscr : Ptr, blocks : [Blocks -> Ptr], stub : Ptr,
                 sg : Ptr, table : Ptr, chain : [Blocks -> Ptr], state : {"RUN", "STOP"}]
    BY DEF BoardMemoryInv, Types, TypeOK
  <2> QED BY <2>1, <2>2, <1>2 DEF OwnedBy
<1>5. DmaInv'
  <2>1. /\ dma.sg = 0 /\ dma.dscr = 0 /\ dma.blocks = NoBlocks
        /\ dma.stub \in live \cup {0} /\ dma.stub \notin list
        /\ dma.stub # 0 => dma.stub \notin OwnedBy(dma)
        /\ OwnedBy(dma) \subseteq live \cup {0} /\ OwnedBy(dma) \cap list = {}
    BY DEF BoardMemoryInv, MemInv, DmaInv
  <2> QED BY <2>1, <1>2, <1>3, <1>4 DEF DmaInv
<1>6. HwInv'
  <2>1. prog'.pc = "none" /\ InUse' = InUse
    BY DEF NoProg, InUse
  <2> QED BY <2>1, <1>2, <1>4 DEF BoardMemoryInv, MemInv, HwInv
<1>7. live' \subseteq Regions /\ list \subseteq live'
  BY <1>1, <1>2, <1>3
<1>8. faulty' \in BOOLEAN /\ (faulty => faulty') /\ (~faulty' => live' = live)
  BY <1>2 DEF BoardMemoryInv, Types, TypeOK
<1> QED BY <1>2, <1>4, <1>5, <1>6, <1>7, <1>8, Refused

(* The first memory of the channel, but perhaps for the table.              *)
LEMMA RequestFirstDone ==
  ASSUME BoardMemoryInv, prog.pc = "open", board = "bound", dma.use = 0,
         Cardinality(Regions \ live) >= Allocations,
         NEW fail \in {0, Allocations}, RequestFirst(fail),
         prog' = [prog EXCEPT !.pc = "set", !.descr = Descr(dma')],
         faulty' = (faulty \/ fail # 0),
         UNCHANGED <<board, held, list, hw, oops, early, progs>>
  PROVE  BoardMemoryInv'
<1> DEFINE N == {Free(b + 2) : b \in Blocks}
           all == {Free(k) : k \in 1 .. Allocations - 1}
           sg == NewTable(fail)
           dscr == Free(1)
           stub == Free(2)
           last == Free(Allocations)
<1>1. /\ N \subseteq Regions /\ N \cap live = {} /\ 0 \notin N
      /\ NewBlocks \in [Blocks -> Ptr] /\ Range(NewBlocks) = N
      /\ dscr \in Regions /\ dscr \notin live /\ dscr # 0 /\ dscr \notin N
      /\ stub \in Regions /\ stub \notin live /\ stub # 0 /\ stub \notin N /\ stub # dscr
      /\ last \in Regions /\ last \notin live /\ last # 0 /\ last \notin N
      /\ last # dscr /\ last # stub
      /\ all = N \cup {dscr, stub}
      /\ fail = 0 => sg = last
      /\ fail # 0 => sg = 0
  <2>1. /\ 1 \in 1 .. Allocations /\ 2 \in 1 .. Allocations /\ Allocations \in 1 .. Allocations
        /\ Allocations # 1 /\ Allocations # 2
        /\ \A b \in Blocks : /\ b + 2 \in 1 .. Allocations
                             /\ b + 2 # 1 /\ b + 2 # 2 /\ b + 2 # Allocations
    BY RequestRegions
  <2>2. all = N \cup {dscr, stub}
    <3>1. 1 .. Allocations - 1 = {b + 2 : b \in Blocks} \cup {1, 2}
      <4>1. ASSUME NEW k \in 1 .. Allocations - 1, k # 1, k # 2
            PROVE  k - 2 \in Blocks /\ k = (k - 2) + 2
        BY <4>1, RequestRegions DEF Blocks
      <4>2. 1 \in 1 .. Allocations - 1 /\ 2 \in 1 .. Allocations - 1
        BY RequestRegions
      <4>3. \A b \in Blocks : b + 2 \in 1 .. Allocations - 1
        BY RequestRegions
      <4> QED BY <4>1, <4>2, <4>3
    <3> QED BY <3>1
  <2>3. \A k \in 1 .. Allocations : Free(k) \in Regions /\ Free(k) \notin live /\ Free(k) # 0
    BY RequestRegions
  <2>4. \A j, k \in 1 .. Allocations : Free(j) = Free(k) => j = k
    BY RequestRegions
  <2>5. NewBlocks \in [Blocks -> Ptr] /\ Range(NewBlocks) = N
    BY RequestRegions
  <2>6. (fail = 0 => sg = last) /\ (fail # 0 => sg = 0)
    BY DEF NewTable
  <2>7. dscr \notin N /\ stub \notin N /\ last \notin N
    BY <2>1, <2>4
  <2>8. stub # dscr /\ last # dscr /\ last # stub
    BY <2>1, <2>4
  <2> HIDE DEF sg, dscr, stub, last, all
  <2>9. N \subseteq Regions /\ N \cap live = {} /\ 0 \notin N
    BY <2>1, <2>3
  <2>10. /\ dscr \in Regions /\ dscr \notin live /\ dscr # 0
         /\ stub \in Regions /\ stub \notin live /\ stub # 0
         /\ last \in Regions /\ last \notin live /\ last # 0
    BY <2>1, <2>3 DEF dscr, stub, last
  <2> QED BY <2>2, <2>5, <2>6, <2>7, <2>8, <2>9, <2>10
<1>2. /\ live' = live \cup all \cup (IF sg = 0 THEN {} ELSE {sg})
      /\ dma' = [dma EXCEPT !.use = 1, !.dscr = dscr, !.stub = stub,
               !.blocks = NewBlocks, !.sg = sg, !.state = "STOP",
               !.table = IF sg = 0 THEN @ ELSE sg,
               !.chain = IF sg = 0 THEN @ ELSE NewBlocks]
      /\ stubs' = stubs \cup {stub}
  BY DEF RequestFirst, NewStub
<1>3. /\ 1 <= progs /\ progs \in 0 .. MaxProgs /\ prog.map = {}
      /\ live \subseteq Regions /\ list \subseteq live /\ 0 \notin Regions
      /\ MaxProgs \in Nat
  BY ZeroDma, BoardMemoryAssumption DEF BoardMemoryInv, MemInv, CountInv, ProgInv, Busy, Types, TypeOK
<1> HIDE DEF N, all, sg, dscr, stub, last
<1>4. /\ dma' \in [use : 0 .. MaxProgs, dscr : Ptr, blocks : [Blocks -> Ptr], stub : Ptr,
                   sg : Ptr, table : Ptr, chain : [Blocks -> Ptr], state : {"RUN", "STOP"}]
      /\ dma'.use = 1 /\ dma'.dscr = dscr /\ dma'.sg = sg
      /\ dma'.blocks = NewBlocks /\ dma'.stub = stub
      /\ sg # 0 => dma'.table = sg /\ dma'.chain = NewBlocks
  <2>1. dma \in [use : 0 .. MaxProgs, dscr : Ptr, blocks : [Blocks -> Ptr], stub : Ptr,
                 sg : Ptr, table : Ptr, chain : [Blocks -> Ptr], state : {"RUN", "STOP"}]
    BY DEF BoardMemoryInv, Types, TypeOK
  <2> DEFINE table == IF sg = 0 THEN dma.table ELSE sg
             chain == IF sg = 0 THEN dma.chain ELSE NewBlocks
  <2>2. /\ 1 \in 0 .. MaxProgs /\ sg \in Ptr /\ dscr \in Ptr /\ stub \in Ptr
        /\ table \in Ptr /\ chain \in [Blocks -> Ptr] /\ NewBlocks \in [Blocks -> Ptr]
    BY <2>1, <1>1, <1>3 DEF Ptr
  <2>3. dma' = [dma EXCEPT !.use = 1, !.dscr = dscr, !.stub = stub,
               !.blocks = NewBlocks, !.sg = sg, !.state = "STOP",
               !.table = table, !.chain = chain]
    BY <1>2
  <2>4. sg # 0 => table = sg /\ chain = NewBlocks
    OBVIOUS
  <2> HIDE DEF table, chain
  <2> QED BY <2>1, <2>2, <2>3, <2>4
<1>5. /\ prog' \in [pc : Pcs, descr : Descrs, map : SUBSET Regions]
      /\ prog'.pc = "set" /\ prog'.descr = Descr(dma') /\ prog'.map = {}
  <2>1. Descr(dma') \in Descrs
    BY <1>4 DEF Descr, Descrs
  <2> HIDE DEF Descr, Descrs
  <2>2. prog \in [pc : Pcs, descr : Descrs, map : SUBSET Regions]
    BY DEF BoardMemoryInv, Types
  <2> QED BY <2>1, <2>2, <1>3 DEF Pcs, Busy
<1>6. /\ live' = live \cup N \cup ({dscr, stub, sg} \ {0})
      /\ OwnedBy(dma') = {dscr, sg} \cup N
  BY <1>1, <1>2, <1>4 DEF OwnedBy
<1>7. sg = 0 \/ (sg = last /\ sg # 0)
  BY <1>1
<1>8. Types'
  <2>1. live' \subseteq Regions /\ list' \subseteq live' /\ stubs' \subseteq Regions
    BY <1>1, <1>2, <1>3, <1>6, <1>7 DEF BoardMemoryInv, Types, TypeOK
  <2>2. faulty' \in BOOLEAN
    BY DEF BoardMemoryInv, Types, TypeOK
  <2> QED BY <2>1, <2>2, <1>4, <1>5 DEF BoardMemoryInv, Types, TypeOK, Pcs, Busy
<1>9. BoardInv' /\ CountInv' /\ OopsExplained'
  BY <1>3, <1>4, <1>5 DEF BoardMemoryInv, BoardInv, CountInv, OopsExplained, Bare, Busy
<1>10. DmaInv'
  BY <1>1, <1>3, <1>4, <1>6, <1>7 DEF DmaInv
<1>11. HwInv'
  <2>1. hw.on => InUse \subseteq live /\ InUse \cap list = {}
    BY DEF BoardMemoryInv, MemInv, HwInv
  <2>2. InUse' = InUse
    BY DEF InUse
  <2> QED BY <2>1, <2>2, <1>1, <1>4, <1>5, <1>6 DEF HwInv
<1>12. ProgInv'
  BY <1>1, <1>4, <1>5, <1>6 DEF ProgInv, Busy
<1>13. CleanInv'
  <2>1. CASE faulty'
    BY <2>1 DEF CleanInv
  <2>2. CASE ~faulty'
    <3>1. ~faulty /\ fail = 0
      BY <2>2
    <3>2. live \subseteq stubs \cup list \cup {0}
      <4>1. dma.sg = 0 /\ dma.dscr = 0 /\ Range(dma.blocks) = {0}
        BY ZeroDma DEF BoardMemoryInv, MemInv, DmaInv
      <4>2. OwnedBy(dma) = {0}
        BY <4>1 DEF OwnedBy
      <4> QED BY <4>2, <3>1 DEF BoardMemoryInv, MemInv, CleanInv
    <3>3. live' \subseteq stubs' \cup list' \cup OwnedBy(dma')
      BY <3>2, <1>2, <1>3, <1>6
    <3> QED BY <3>1, <3>3, <1>1, <1>4, <1>5 DEF CleanInv, Busy
  <2> QED BY <2>1, <2>2
<1> QED BY <1>8, <1>9, <1>10, <1>11, <1>12, <1>13 DEF BoardMemoryInv, MemInv

LEMMA SetMemStep ==
  ASSUME BoardMemoryInv, NEW sys \in BOOLEAN, NEW fail \in 0 .. Allocations, SetMem(sys, fail)
  PROVE  BoardMemoryInv'
<1>1. /\ prog.pc = "open" /\ Cardinality(Regions \ live) >= Allocations
      /\ faulty' = (faulty \/ fail # 0)
      /\ UNCHANGED <<board, held, list, hw, early, progs>>
  BY DEF SetMem, At, kernelVars
<1>2. dma.use \in Nat /\ Allocations \in Nat /\ Allocations > 3
  BY BoardMemoryAssumption DEF BoardMemoryInv, Types, TypeOK, Allocations
<1>3. CASE board = "cdev"
  <2>1. prog' = NoProg /\ UNCHANGED <<live, dma, oops, stubs>>
    BY <1>3 DEF SetMem
  <2>2. /\ prog' \in [pc : Pcs, descr : Descrs, map : SUBSET Regions]
        /\ prog'.pc = "none" /\ prog'.map = {}
    BY <2>1, ProgTypes DEF BoardMemoryInv, Pcs
  <2>3. faulty' \in BOOLEAN
    BY <1>1
  <2>4. Types'
    BY <1>1, <2>1, <2>2, <2>3 DEF BoardMemoryInv, Types, TypeOK
  <2>5. BoardInv' /\ CountInv' /\ OopsExplained'
    BY <1>1, <2>1, <2>2 DEF BoardMemoryInv, BoardInv, MemInv, CountInv, OopsExplained, Bare, Busy
  <2>6. DmaInv' /\ HwInv' /\ ProgInv'
    BY <1>1, <2>1, <2>2 DEF BoardMemoryInv, MemInv, DmaInv, HwInv, InUse, ProgInv, Busy
  <2>7. CleanInv'
    BY <1>1, <2>1, <2>2 DEF BoardMemoryInv, MemInv, CleanInv, Busy
  <2> QED BY <2>4, <2>5, <2>6, <2>7 DEF BoardMemoryInv, MemInv
<1>4. CASE board # "cdev" /\ ("chan" \notin held \/ (dma.use > 0 /\ dma.dscr = 0))
  <2>1. oops' = TRUE /\ UNCHANGED <<live, dma, prog, stubs>>
    BY <1>4 DEF SetMem
  <2>2. faulty' \in BOOLEAN
    BY <1>1
  <2>3. Types'
    BY <1>1, <2>1, <2>2 DEF BoardMemoryInv, Types, TypeOK
  <2>4. BoardInv' /\ CountInv'
    BY <1>1, <2>1 DEF BoardMemoryInv, BoardInv, MemInv, CountInv, Bare, Busy
  <2>5. DmaInv' /\ HwInv' /\ ProgInv'
    BY <1>1, <2>1 DEF BoardMemoryInv, MemInv, DmaInv, HwInv, InUse, ProgInv, Busy
  <2>6. CleanInv'
    BY <1>1, <2>1 DEF BoardMemoryInv, MemInv, CleanInv, Busy
  <2>7. OopsExplained'
    <3>1. CASE "chan" \notin held
      <4>1. faulty \/ early
        BY <3>1, <1>1 DEF BoardMemoryInv, BoardInv
      <4> QED BY <4>1, <1>1 DEF OopsExplained
    <3>2. CASE dma.use > 0
      <4>1. faulty
        BY <3>2, <1>1 DEF BoardMemoryInv, MemInv, CleanInv, Busy
      <4> QED BY <4>1, <1>1 DEF OopsExplained
    <3> QED BY <3>1, <3>2, <1>4
  <2> QED BY <2>3, <2>4, <2>5, <2>6, <2>7 DEF BoardMemoryInv, MemInv
<1>5. CASE board # "cdev" /\ "chan" \in held /\ ~(dma.use > 0 /\ dma.dscr = 0)
  <2>1. /\ RequestMemory(sys, fail) /\ oops' = oops
        /\ prog' = IF dma'.use > dma.use
                   THEN [prog EXCEPT !.pc = "set", !.descr = Descr(dma')] ELSE NoProg
    BY <1>5 DEF SetMem
  <2>2. board = "bound"
    BY <1>5 DEF BoardMemoryInv, BoardInv
  <2>3. dma \in [use : 0 .. MaxProgs, dscr : Ptr, blocks : [Blocks -> Ptr], stub : Ptr,
                 sg : Ptr, table : Ptr, chain : [Blocks -> Ptr], state : {"RUN", "STOP"}]
    BY DEF BoardMemoryInv, Types, TypeOK
  <2>4. CASE dma.use > 0 /\ fail = 0 /\ RequestAgain(0)
    <3>1. dma' = [dma EXCEPT !.use = @ + 1, !.blocks = NewBlocks]
      BY <2>4 DEF RequestAgain
    <3>2. dma'.use > dma.use
      BY <3>1, <2>3, <1>2
    <3>3. faulty' = faulty
      BY <2>4, <1>1 DEF BoardMemoryInv, Types, TypeOK
    <3> QED BY <3>2, <3>3, <2>1, <2>2, <2>4, <1>1, <1>5, RequestAgainDone
  <2>5. CASE dma.use > 0 /\ fail \in 3 .. Allocations - 1 /\ RequestAgain(fail)
    <3>1. dma' = [dma EXCEPT !.dscr = 0, !.blocks = NoBlocks]
      BY <2>5 DEF RequestAgain
    <3>2. ~(dma'.use > dma.use)
      BY <3>1, <2>3, <1>2
    <3>3. faulty' = TRUE
      <4>1. fail # 0
        BY <2>5, <1>2
      <4>2. faulty' \in BOOLEAN /\ faulty'
        BY <4>1, <1>1
      <4> QED BY <4>2
    <3>4. prog' = NoProg /\ dma.dscr # 0 /\ dma.use > 0 /\ RequestAgain(fail)
      BY <3>2, <2>1, <2>5, <1>5
    <3>5. prog.pc = "open" /\ Cardinality(Regions \ live) >= Allocations
          /\ UNCHANGED <<board, held, list, hw, oops, early, progs>>
      BY <2>1, <1>1
    <3>6. fail \in 3 .. Allocations - 1
      BY <2>5
    <3> QED BY <3>3, <3>4, <3>5, <3>6, <2>2, RequestAgainFailed
  <2>6. CASE /\ dma.use = 0
             /\ \/ fail = 0 /\ RequestUser
                \/ fail \in 1 .. Allocations - 1 /\ RequestFailed(fail)
    <3>1. dma' = dma \/ dma' = [dma EXCEPT !.stub = 0]
      BY <2>6 DEF RequestUser, RequestFailed, ReleaseStub
    <3>2. ~(dma'.use > dma.use)
      BY <3>1, <2>3, <1>2
    <3>3. fail \in 0 .. Allocations - 1
      BY <2>6, <1>2
    <3>4. \/ fail = 0 /\ RequestUser
          \/ fail # 0 /\ RequestFailed(fail)
      BY <2>6
    <3> QED BY <3>2, <3>3, <3>4, <2>1, <2>2, <2>6, <1>1, RequestRefused
  <2>7. CASE dma.use = 0 /\ fail \notin 1 .. Allocations - 1 /\ RequestFirst(fail)
    <3>1. fail \in {0, Allocations}
      BY <2>7, <1>2
    <3>2. dma'.use = 1
      BY <2>3, <2>7 DEF RequestFirst
    <3>3. dma'.use > dma.use
      BY <3>2, <2>7
    <3> QED BY <3>1, <3>3, <2>1, <2>2, <2>7, <1>1, RequestFirstDone
  <2> QED BY <2>1, <2>4, <2>5, <2>6, <2>7, <1>2 DEF RequestMemory
<1> QED BY <1>3, <1>4, <1>5

-----------------------------------------------------------------------------
LEMMA InitStep == Init => BoardMemoryInv
<1> SUFFICES ASSUME Init PROVE BoardMemoryInv
  OBVIOUS
<1>1. /\ board = "unloaded" /\ held = {} /\ live = {} /\ list = {}
      /\ dma = NewDma /\ hw = Off /\ prog = NoProg /\ oops = FALSE
      /\ stubs = {} /\ faulty = FALSE /\ early = FALSE /\ progs = 0
  BY DEF Init
<1>2. /\ NoBlocks \in [Blocks -> Ptr] /\ 0 \in Ptr /\ OwnedBy(NewDma) = {0}
      /\ dma.use = 0 /\ dma.dscr = 0 /\ dma.sg = 0 /\ dma.stub = 0 /\ dma.blocks = NoBlocks
      /\ hw.on = FALSE /\ prog.pc = "none" /\ prog.map = {}
      /\ MaxProgs \in Nat /\ 0 \in 0 .. MaxProgs
  BY <1>1, ZeroDma, BoardMemoryAssumption DEF NewDma, Off, NoProg
<1>3. Types
  <2> HIDE DEF NoBlocks
  <2>1. dma \in [use : 0 .. MaxProgs, dscr : Ptr, blocks : [Blocks -> Ptr], stub : Ptr,
                 sg : Ptr, table : Ptr, chain : [Blocks -> Ptr], state : {"RUN", "STOP"}]
    BY <1>1, <1>2 DEF NewDma
  <2>2. hw \in [on : BOOLEAN, sg : Ptr, chain : [Blocks -> Ptr]]
    BY <1>1, <1>2 DEF Off
  <2>3. prog \in [pc : Pcs, descr : Descrs, map : SUBSET Regions]
    BY <1>1, <1>2 DEF NoProg, NoDescr, Descrs, Pcs
  <2> QED BY <2>1, <2>2, <2>3, <1>1, <1>2 DEF Types, TypeOK
<1>4. BoardInv /\ CountInv /\ OopsExplained
  BY <1>1, <1>2 DEF BoardInv, CountInv, OopsExplained, Busy
<1>5. DmaInv
  BY <1>1, <1>2 DEF DmaInv
<1>6. HwInv /\ ProgInv /\ CleanInv
  BY <1>1, <1>2 DEF HwInv, ProgInv, CleanInv, Busy
<1> QED BY <1>3, <1>4, <1>5, <1>6 DEF BoardMemoryInv, MemInv

LEMMA NextStep ==
  ASSUME BoardMemoryInv, [Next]_vars
  PROVE  BoardMemoryInv'
<1>1. CASE Driver
  BY <1>1, ModuleStep, CreateStep, RemoveStep DEF Driver
<1>2. CASE Open \/ Map \/ Prepare \/ Start \/ Stop
  BY <1>2, OpenStep, MapStep, HaltStep, StartStep
<1>3. CASE StreamDestroy \/ Exit \/ MemoryAlloc \/ MemoryFree \/ HwDone
  BY <1>3, DestroyStep, ExitStep, BlockStep, HaltStep
<1>4. CASE \E sys \in BOOLEAN, fail \in 0 .. Allocations : SetMem(sys, fail)
  BY <1>4, SetMemStep
<1>5. CASE UNCHANGED vars
  <2>1. UNCHANGED <<board, held, list, live, dma, hw, prog, oops, stubs, faulty, early, progs>>
    BY <1>5 DEF vars, kernelVars, history
  <2>2. Types' /\ BoardInv' /\ OopsExplained'
    BY <2>1 DEF BoardMemoryInv, Types, TypeOK, BoardInv, OopsExplained
  <2>3. MemInv'
    BY <2>1 DEF BoardMemoryInv, MemInv, CountInv, DmaInv, HwInv, InUse, ProgInv, CleanInv
  <2> QED BY <2>2, <2>3 DEF BoardMemoryInv
<1> QED BY <1>1, <1>2, <1>3, <1>4, <1>5 DEF Next, Program

(* What the channel owns is allocated and its own, the FPGA and the program *)
(* use nothing else, and as long as nothing failed the channel has memory   *)
(* only for the program that set it up.                                     *)
THEOREM MemoryInvariant == Spec => []BoardMemoryInv
<1>1. BoardMemoryInv /\ [Next]_vars => BoardMemoryInv'
  BY NextStep
<1> QED BY <1>1, InitStep, PTL DEF Spec

(* The regions, the pointers of the channel, m_UseCount and the resources   *)
(* of probe have their types; a block in m_MemList is allocated.            *)
THEOREM MemoryTypes == Spec => []TypeOK
<1>1. BoardMemoryInv => TypeOK
  BY DEF BoardMemoryInv, Types
<1> QED BY <1>1, MemoryInvariant, PTL

(* The error paths of module_init and of probe, and remove, give back all   *)
(* that was taken, but for a class that was never created; after programs   *)
(* that did not fail only stubs are left.                                   *)
THEOREM NothingStaysHeld == Spec => []NothingHeld
<1>1. ASSUME BoardMemoryInv PROVE NothingHeld
  <2>1. /\ board = "unloaded" => held = {}
        /\ board \in {"unbound", "hollow"} => held \cup {"class"} = Range(ModuleSteps)
    BY <1>1 DEF BoardMemoryInv, BoardInv
  <2>2. ASSUME board \in Bare, ~faulty
        PROVE  live \subseteq stubs
    <3>1. prog.pc = "none" /\ list = {}
      BY <1>1, <2>2 DEF BoardMemoryInv, BoardInv
    <3>2. dma.use = 0 /\ live \subseteq stubs \cup list \cup OwnedBy(dma)
      BY <1>1, <2>2, <3>1 DEF BoardMemoryInv, MemInv, CleanInv, Busy
    <3>3. OwnedBy(dma) = {0}
      BY <1>1, <3>2, ZeroDma DEF BoardMemoryInv, MemInv, DmaInv, OwnedBy
    <3>4. 0 \notin live
      BY <1>1, ZeroDma DEF BoardMemoryInv, Types, TypeOK
    <3> QED BY <3>1, <3>2, <3>3, <3>4
  <2> QED BY <2>1, <2>2 DEF NothingHeld, Bare
<1> QED BY <1>1, MemoryInvariant, PTL

(* Whatever failed before: what a program has mapped, what the FPGA reads   *)
(* and fills, and the stub the handler writes, is allocated memory.         *)
THEOREM WhatIsUsedIsLive == Spec => []InUseIsLive
<1>1. ASSUME BoardMemoryInv PROVE InUseIsLive
  <2>1. prog.map \subseteq live
    BY <1>1 DEF BoardMemoryInv, MemInv, ProgInv, DmaInv
  <2>2. hw.on => Range(hw.chain) \cup {hw.sg} \subseteq live
    BY <1>1 DEF BoardMemoryInv, MemInv, HwInv, InUse
  <2>3. dma.use > 0 => dma.stub \in live
    BY <1>1 DEF BoardMemoryInv, MemInv, DmaInv
  <2> QED BY <2>1, <2>2, <2>3 DEF InUseIsLive
<1> QED BY <1>1, MemoryInvariant, PTL

(* The FPGA fills the blocks the program has mapped unless an earlier one   *)
(* left its memory behind, and the program reads the stub that the handler  *)
(* writes.                                                                  *)
THEOREM BlocksAreItsOwn == Spec => []OwnBlocks
<1>1. ASSUME BoardMemoryInv PROVE OwnBlocks
  <2>1. prog.pc = "run" /\ hw.on /\ ~faulty => hw.chain = prog.descr.blocks
    BY <1>1 DEF BoardMemoryInv, MemInv, CleanInv, ProgInv, Descr, Busy
  <2>2. prog.pc \in {"mapped", "ready", "run"} => prog.descr.stub = dma.stub
    BY <1>1 DEF BoardMemoryInv, MemInv, ProgInv, Descr, Busy
  <2> QED BY <2>1, <2>2 DEF OwnBlocks
<1> QED BY <1>1, MemoryInvariant, PTL

(* The kernel follows a NULL, stale or error pointer only after memory, the *)
(* class or the device was refused, a program ended without StreamDestroy,  *)
(* or one opened the board while probe was still busy.                      *)
THEOREM EveryOopsIsExplained == Spec => []OopsExplained
<1>1. BoardMemoryInv => OopsExplained
  BY DEF BoardMemoryInv
<1> QED BY <1>1, MemoryInvariant, PTL
===============================================================================
