----------------------------- MODULE SGList_proof ------------------------------
(***************************************************************************)
(* SGList for tables of any size and buffers of any number of blocks that  *)
(* leave the last table partly filled: the FPGA fills the blocks in order, *)
(* whole rounds of them, as BlockRing says.  Blocks and entries are        *)
(* numbered by table and place in the table: block B(t, i) is described in *)
(* entry E(t, i).                                                          *)
(***************************************************************************)
EXTENDS SGList, TLAPS

(* With a full last table the chain is not closed, see Closed. *)
PartlyFilled == \A n \in BlockCounts : n % (DSCR_BLOCK_SIZE - 1) # 0

E(t, i) == DSCR_BLOCK_SIZE * t + i
B(t, i) == (DSCR_BLOCK_SIZE - 1) * t + i

(* The last table of a buffer of n blocks, and how many of them it has.     *)
Last(n) == Tables(n) - 1
InLast(n) == n - B(Last(n), 0)

-----------------------------------------------------------------------------
(* The arithmetic.  From here on products are not expanded.                 *)
LEMMA Size ==
  /\ DSCR_BLOCK_SIZE \in Nat /\ DSCR_BLOCK_SIZE > 2
  /\ BlockCounts \subseteq Nat /\ 0 \notin BlockCounts
BY SGListAssumption

LEMMA Products ==
  ASSUME NEW a \in Nat, NEW s \in Nat, NEW t \in Nat
  PROVE  /\ a * t \in Nat /\ a * 0 = 0 /\ a * (t + 1) = a * t + a
         /\ s < t => a * s + a <= a * t
<1>1. a * t \in Nat /\ a * 0 = 0 /\ a * (t + 1) = a * t + a
  OBVIOUS
<1>2. ASSUME s < t
      PROVE  a * s + a <= a * t
  <2> DEFINE d == t - s - 1
  <2>1. d \in Nat /\ t = s + 1 + d
    BY <1>2
  <2> HIDE DEF d
  <2>2. a * t = a * s + a + a * d /\ a * d \in Nat /\ a * s \in Nat
    BY <2>1
  <2> DEFINE x == a * t
             y == a * s
             z == a * d
  <2>3. x = y + a + z /\ z \in Nat /\ y \in Nat
    BY <2>2
  <2> HIDE DEF x, y, z
  <2>4. y + a <= x
    BY <2>3
  <2> QED BY <2>4 DEF x, y
<1> QED BY <1>1, <1>2

LEMMA EntryNext ==
  ASSUME NEW t \in Nat, NEW i \in Nat
  PROVE  /\ E(t, i) \in Nat /\ E(t, i + 1) = E(t, i) + 1 /\ E(0, 0) = 0
         /\ E(t + 1, 0) = E(t, DSCR_BLOCK_SIZE - 1) + 1
         /\ \A j \in Nat : j < i <=> E(t, j) < E(t, i)
<1> DEFINE x == DSCR_BLOCK_SIZE * t
           y == DSCR_BLOCK_SIZE * (t + 1)
           z == DSCR_BLOCK_SIZE * 0
<1>1. x \in Nat /\ y = x + DSCR_BLOCK_SIZE /\ z = 0
  BY Size, Products
<1> HIDE DEF x, y, z
<1>2. /\ E(t, i) = x + i /\ E(t, i + 1) = x + (i + 1) /\ E(0, 0) = z + 0
      /\ E(t + 1, 0) = y + 0 /\ E(t, DSCR_BLOCK_SIZE - 1) = x + (DSCR_BLOCK_SIZE - 1)
      /\ \A j \in Nat : E(t, j) = x + j
  BY DEF E, x, y, z
<1> QED BY <1>1, <1>2, Size

LEMMA EntryOrder ==
  ASSUME NEW s \in Nat, NEW t \in Nat,
         NEW i \in 0 .. DSCR_BLOCK_SIZE - 1, NEW j \in 0 .. DSCR_BLOCK_SIZE - 1
  PROVE  /\ s < t => E(s, i) < E(t, j)
         /\ E(s, i) = E(t, j) => s = t /\ i = j
<1> DEFINE x == DSCR_BLOCK_SIZE * s
           y == DSCR_BLOCK_SIZE * t
<1>1. /\ x \in Nat /\ y \in Nat
      /\ s < t => x + DSCR_BLOCK_SIZE <= y
      /\ t < s => y + DSCR_BLOCK_SIZE <= x
      /\ s = t => x = y
  BY Size, Products
<1>2. E(s, i) = x + i /\ E(t, j) = y + j
  BY DEF E
<1> HIDE DEF x, y
<1> QED BY <1>1, <1>2, Size

LEMMA BlockNext ==
  ASSUME NEW t \in Nat, NEW i \in Nat
  PROVE  /\ B(t, i) \in Nat /\ B(t, i + 1) = B(t, i) + 1 /\ B(0, 0) = 0
         /\ B(t + 1, 0) = B(t, DSCR_BLOCK_SIZE - 2) + 1
         /\ \A j \in Nat : j < i <=> B(t, j) < B(t, i)
<1> DEFINE q == DSCR_BLOCK_SIZE - 1
           x == q * t
           y == q * (t + 1)
           z == q * 0
<1>1. q \in Nat /\ q = DSCR_BLOCK_SIZE - 1
  BY Size
<1>2. /\ B(t, i) = x + i /\ B(t, i + 1) = x + (i + 1) /\ B(0, 0) = z + 0
      /\ B(t + 1, 0) = y + 0 /\ B(t, DSCR_BLOCK_SIZE - 2) = x + (DSCR_BLOCK_SIZE - 2)
      /\ \A j \in Nat : B(t, j) = x + j
  BY DEF B
<1> HIDE DEF q
<1>3. x \in Nat /\ y = x + q /\ z = 0
  BY <1>1, Products
<1> HIDE DEF x, y, z
<1> QED BY <1>1, <1>2, <1>3, Size

LEMMA BlockOrder ==
  ASSUME NEW s \in Nat, NEW t \in Nat,
         NEW i \in 0 .. DSCR_BLOCK_SIZE - 2, NEW j \in 0 .. DSCR_BLOCK_SIZE - 2
  PROVE  /\ s < t => B(s, i) < B(t, j)
         /\ B(s, i) = B(t, j) => s = t /\ i = j
<1> DEFINE q == DSCR_BLOCK_SIZE - 1
           x == q * s
           y == q * t
<1>1. q \in Nat /\ q = DSCR_BLOCK_SIZE - 1
  BY Size
<1>2. B(s, i) = x + i /\ B(t, j) = y + j
  BY DEF B
<1> HIDE DEF q
<1>3. /\ x \in Nat /\ y \in Nat
      /\ s < t => x + q <= y
      /\ t < s => y + q <= x
      /\ s = t => x = y
  BY <1>1, Products
<1> HIDE DEF x, y
<1> QED BY <1>1, <1>2, <1>3, Size

(* Where an entry is in its table. *)
LEMMA EntryPlace ==
  ASSUME NEW t \in Nat, NEW i \in 0 .. DSCR_BLOCK_SIZE - 1
  PROVE  E(t, i) % DSCR_BLOCK_SIZE = i /\ E(t, i) \div DSCR_BLOCK_SIZE = t
BY Size DEF E

(* The last table has at least one block, and room for at least one more.   *)
LEMMA LastTable ==
  ASSUME PartlyFilled, NEW n \in BlockCounts
  PROVE  /\ n \in Nat /\ n > 0
         /\ Last(n) \in Nat /\ Tables(n) = Last(n) + 1
         /\ InLast(n) \in 1 .. DSCR_BLOCK_SIZE - 2
         /\ n = B(Last(n), InLast(n))
         /\ n + Tables(n) - 2 = E(Last(n), InLast(n) - 1)
         /\ DSCR_BLOCK_SIZE * Tables(n) = E(Last(n), DSCR_BLOCK_SIZE - 1) + 1
<1> DEFINE q == DSCR_BLOCK_SIZE - 1
           d == n \div q
           m == n % q
<1>1. n \in Nat /\ n > 0 /\ q \in Nat /\ q = DSCR_BLOCK_SIZE - 1 /\ q > 0
  BY Size
<1>2. m # 0
  BY DEF PartlyFilled
<1>3. Tables(n) = d + 1
  BY <1>2 DEF Tables
<1> HIDE DEF q
<1>4. d \in Nat /\ m \in 0 .. q - 1 /\ n = q * d + m
  BY <1>1
<1> HIDE DEF d, m
<1>5. Last(n) = d
  BY <1>3, <1>4 DEF Last
<1> DEFINE x == q * d
           y == DSCR_BLOCK_SIZE * d
           z == DSCR_BLOCK_SIZE * (d + 1)
<1>6. x \in Nat /\ y = x + d /\ z = y + DSCR_BLOCK_SIZE
  <2>1. x \in Nat /\ y \in Nat /\ z = y + DSCR_BLOCK_SIZE
    BY <1>1, <1>4, Size, Products
  <2>2. DSCR_BLOCK_SIZE = q + 1
    BY <1>1, Size
  <2>3. y = x + d
    BY <2>2, <1>1, <1>4
  <2> QED BY <2>1, <2>3
<1>7. n = x + m
  BY <1>4
<1>8. /\ \A j : B(d, j) = x + j
      /\ \A j : E(d, j) = y + j
      /\ DSCR_BLOCK_SIZE * Tables(n) = z
  BY <1>3 DEF B, E, q
<1> HIDE DEF x, y, z
<1>9. InLast(n) = m
  BY <1>4, <1>5, <1>6, <1>7, <1>8 DEF InLast
<1> QED BY <1>1, <1>2, <1>3, <1>4, <1>5, <1>6, <1>7, <1>8, <1>9, Size

-----------------------------------------------------------------------------
(* The tables.  Entry i of a table t that is full; all entries before i of  *)
(* table t; the closed chain of n blocks.                                   *)
Cmds == Commands \cup Signed
Entries == [addr : {"zero", "block", "table"} \X Nat, cmd : SUBSET Cmds]
TablesOf(n) == [0 .. DSCR_BLOCK_SIZE * Tables(n) - 1 -> Entries]

Full(tab, t, i) ==
  /\ i < DSCR_BLOCK_SIZE - 2 => tab[E(t, i)] = Descr(B(t, i), "JumpNextDescr")
  /\ i = DSCR_BLOCK_SIZE - 2 => tab[E(t, i)] = Descr(B(t, i), "JumpNextBlock")
  /\ i = DSCR_BLOCK_SIZE - 1 => tab[E(t, i)] = Link(<<"table", t + 1>>)

Prefix(tab, t, i) ==
  /\ \A s \in 0 .. t - 1, j \in 0 .. DSCR_BLOCK_SIZE - 1 : Full(tab, s, j)
  /\ \A j \in 0 .. i - 1 : tab[E(t, j)] = Descr(B(t, j), "JumpNextDescr")

Bit(n) == IF Last(n) = 0 THEN "JumpDescr0" ELSE "JumpNextBlock"

(* The last descriptor is marked with Bit or not.                           *)
Chain(tab, n) ==
  /\ Prefix(tab, Last(n), InLast(n) - 1)
  /\ tab[E(Last(n), InLast(n) - 1)].addr = <<"block", n - 1>>
  /\ \/ tab[E(Last(n), InLast(n) - 1)].cmd = {"EndOfTrans"}
     \/ tab[E(Last(n), InLast(n) - 1)].cmd = {"EndOfTrans", Bit(n)}
  /\ tab[E(Last(n), InLast(n))].addr = <<"table", 0>>
  /\ "Signature" \in tab[E(Last(n), DSCR_BLOCK_SIZE - 1)].cmd

ChainMarked(tab, n) == Bit(n) \in tab[E(Last(n), InLast(n) - 1)].cmd

(* The walk: the FPGA is at a descriptor of a block, and has filled all     *)
(* blocks before it.                                                        *)
Here(t, i) ==
  /\ t \in 0 .. Last(BlockCount)
  /\ \/ t < Last(BlockCount) /\ i \in 0 .. DSCR_BLOCK_SIZE - 2
     \/ t = Last(BlockCount) /\ i \in 0 .. InLast(BlockCount) - 1
Before(t, i) ==
  \/ filled = B(t, i) - 1
  \/ t = 0 /\ i = 0 /\ cycling /\ filled = BlockCount - 1

SGTypes ==
  /\ pc \in {"free", "fill", "ready"}
  /\ BlockCount \in BlockCounts \cup {0}
  /\ pc # "free" => BlockCount \in BlockCounts /\ table \in TablesOf(BlockCount)
  /\ iBlock \in 0 .. BlockCount
  /\ iEntry \in 0 .. DSCR_BLOCK_SIZE * Tables(BlockCount)
  /\ cycling \in BOOLEAN
  /\ filled \in -1 .. BlockCount - 1
  /\ hw \in [st : {"off", "load", "run", "end"}, tab : Nat, idx : Nat]

FillInv == pc = "fill" =>
  \E t \in 0 .. Last(BlockCount), i \in 0 .. DSCR_BLOCK_SIZE - 2 :
    /\ iBlock = B(t, i) /\ iEntry = E(t, i)
    /\ Prefix(table, t, i)

ReadyInv == pc = "ready" =>
  /\ Chain(table, BlockCount)
  /\ crc = [t \in 0 .. Tables(BlockCount) - 1 |-> Contents(table, t)]

WalkInv ==
  /\ hw.st # "off" => pc = "ready" /\ (cycling <=> ChainMarked(table, BlockCount))
  /\ hw.st = "load" => hw.tab \in 0 .. Last(BlockCount) /\ Before(hw.tab, 0)
  /\ hw.st = "run" => /\ Here(hw.tab, hw.idx) /\ Before(hw.tab, hw.idx)
                      /\ ram = Contents(table, hw.tab)
  /\ hw.st = "end" => ~cycling /\ filled = BlockCount - 1

SGInv == SGTypes /\ FillInv /\ ReadyInv /\ WalkInv

-----------------------------------------------------------------------------
LEMMA EntryTypes ==
  /\ Zero \in Entries
  /\ \A b \in Nat, j \in Commands : Descr(b, j) \in Entries
  /\ \A t \in Nat, a \in {"zero", "table"} : Link(<<a, t>>) \in Entries
  /\ \A b, j : Descr(b, j).addr = <<"block", b>> /\ Descr(b, j).cmd = {j, "EndOfTrans"}
  /\ \A a : Link(a).addr = a /\ "Signature" \in Link(a).cmd
BY DEF Entries, Zero, Descr, Link, Cmds, Commands, Signed

LEMMA ContentsAt ==
  ASSUME NEW tab, NEW t, NEW i \in 0 .. DSCR_BLOCK_SIZE - 1
  PROVE  Contents(tab, t)[i] = tab[E(t, i)]
BY DEF Contents, E

(* What changes behind entry i of table t leaves the entries before it.     *)
LEMMA PrefixKept ==
  ASSUME NEW tab, NEW new, NEW t \in Nat, NEW i \in 0 .. DSCR_BLOCK_SIZE - 1,
         Prefix(tab, t, i), \A e \in Nat : e < E(t, i) => new[e] = tab[e]
  PROVE  Prefix(new, t, i)
<1>1. ASSUME NEW s \in 0 .. t - 1, NEW j \in 0 .. DSCR_BLOCK_SIZE - 1
      PROVE  Full(new, s, j)
  <2>1. /\ s \in Nat /\ s < t /\ j \in Nat /\ i \in Nat
        /\ i \in 0 .. DSCR_BLOCK_SIZE - 1
    BY Size
  <2>2. E(s, j) \in Nat
    BY <2>1, EntryNext
  <2>3. E(s, j) < E(t, i)
    BY <2>1, EntryOrder
  <2>4. new[E(s, j)] = tab[E(s, j)]
    BY <2>2, <2>3
  <2>5. Full(tab, s, j)
    BY DEF Prefix
  <2> QED BY <2>4, <2>5 DEF Full
<1>2. ASSUME NEW j \in 0 .. i - 1
      PROVE  new[E(t, j)] = Descr(B(t, j), "JumpNextDescr")
  <2>1. j \in Nat /\ i \in Nat /\ j < i
    BY Size
  <2>2. E(t, j) \in Nat /\ E(t, j) < E(t, i)
    BY <2>1, EntryNext
  <2> QED BY <2>2 DEF Prefix
<1> QED BY <1>1, <1>2 DEF Prefix

(* The entries of the tables of n blocks. *)
LEMMA InTables ==
  ASSUME PartlyFilled, NEW n \in BlockCounts, NEW t \in 0 .. Last(n),
         NEW i \in 0 .. DSCR_BLOCK_SIZE - 1
  PROVE  E(t, i) \in 0 .. DSCR_BLOCK_SIZE * Tables(n) - 1
<1>1. /\ Last(n) \in Nat /\ t \in Nat /\ i \in Nat
      /\ DSCR_BLOCK_SIZE * Tables(n) = E(Last(n), DSCR_BLOCK_SIZE - 1) + 1
  BY LastTable
<1>2. E(t, i) \in Nat /\ E(Last(n), DSCR_BLOCK_SIZE - 1) \in Nat
  <2>1. DSCR_BLOCK_SIZE - 1 \in Nat
    BY Size
  <2> QED BY <2>1, <1>1, EntryNext
<1>3. CASE t < Last(n)
  BY <1>1, <1>2, <1>3, Size, EntryOrder
<1>4. CASE t = Last(n)
  <2>1. i = DSCR_BLOCK_SIZE - 1 \/ i < DSCR_BLOCK_SIZE - 1
    BY Size
  <2>2. E(t, i) <= E(Last(n), DSCR_BLOCK_SIZE - 1)
    BY <1>1, <1>2, <1>4, <2>1, Size, EntryNext
  <2> QED BY <1>1, <1>2, <2>2
<1> QED BY <1>1, <1>3, <1>4

LEMMA TableSize ==
  ASSUME PartlyFilled, NEW n \in BlockCounts
  PROVE  DSCR_BLOCK_SIZE * Tables(n) \in Nat
<1>1. Last(n) \in Nat /\ DSCR_BLOCK_SIZE - 1 \in Nat
  BY Size, LastTable
<1>2. E(Last(n), DSCR_BLOCK_SIZE - 1) \in Nat
  BY <1>1, EntryNext
<1> QED BY <1>2, LastTable

-----------------------------------------------------------------------------
(* The steps of the driver. *)
LEMMA RequestStep ==
  ASSUME PartlyFilled, SGInv, NEW n \in BlockCounts, Request(n)
  PROVE  SGInv'
<1>1. /\ n \in Nat /\ n > 0 /\ Last(n) \in Nat /\ DSCR_BLOCK_SIZE * Tables(n) \in Nat
  BY LastTable, TableSize
<1>2. hw.st = "off" /\ hw' = hw
  BY DEF SGInv, WalkInv, Request
<1>3. /\ pc' = "fill" /\ BlockCount' = n /\ iBlock' = 0 /\ iEntry' = 0 /\ filled' = -1
      /\ cycling' = cycling
      /\ table' = [e \in 0 .. DSCR_BLOCK_SIZE * Tables(n) - 1 |-> Zero]
  BY DEF Request
<1>4. table' \in TablesOf(n)
  BY <1>3, EntryTypes DEF TablesOf
<1>5. SGTypes'
  BY <1>1, <1>2, <1>3, <1>4 DEF SGTypes, SGInv
<1>6. FillInv'
  <2>1. B(0, 0) = 0 /\ E(0, 0) = 0
    BY EntryNext, BlockNext
  <2>2. Prefix(table', 0, 0)
    BY DEF Prefix
  <2>3. 0 \in 0 .. Last(n) /\ 0 \in 0 .. DSCR_BLOCK_SIZE - 2
    BY <1>1, Size
  <2> QED BY <1>3, <2>1, <2>2, <2>3 DEF FillInv
<1> QED BY <1>2, <1>3, <1>5, <1>6 DEF SGInv, ReadyInv, WalkInv

LEMMA FillEntryStep ==
  ASSUME PartlyFilled, SGInv, FillEntry
  PROVE  SGInv'
<1>1. /\ pc = "fill" /\ pc' = pc /\ BlockCount' = BlockCount /\ iBlock < BlockCount
      /\ (iEntry + 2) % DSCR_BLOCK_SIZE # 0
      /\ iEntry' = iEntry + 1 /\ iBlock' = iBlock + 1
      /\ table' = [table EXCEPT ![iEntry] = Descr(iBlock, "JumpNextDescr")]
      /\ UNCHANGED <<cycling, hw, filled>>
  BY DEF FillEntry
<1> DEFINE n == BlockCount
<1>2. n \in BlockCounts /\ table \in TablesOf(n) /\ hw.st = "off"
  BY <1>1 DEF SGInv, SGTypes, WalkInv
<1>3. PICK t \in 0 .. Last(n), i \in 0 .. DSCR_BLOCK_SIZE - 2 :
        iBlock = B(t, i) /\ iEntry = E(t, i) /\ Prefix(table, t, i)
  BY <1>1 DEF SGInv, FillInv
<1> HIDE DEF n
<1>4. n \in Nat /\ Last(n) \in Nat /\ t \in Nat /\ i \in Nat
  BY <1>2, LastTable
<1>5. i < DSCR_BLOCK_SIZE - 2
  <2>1. ASSUME i = DSCR_BLOCK_SIZE - 2
        PROVE  FALSE
    <3>1. /\ E(t + 1, 0) = E(t, DSCR_BLOCK_SIZE - 1) + 1
          /\ E(t, i + 1) = E(t, i) + 1 /\ E(t, i) \in Nat
      BY <1>4, EntryNext
    <3>2. E(t + 1, 0) = iEntry + 2
      BY <2>1, <3>1, <1>3, Size
    <3>3. E(t + 1, 0) % DSCR_BLOCK_SIZE = 0
      BY <1>4, Size, EntryPlace
    <3> QED BY <1>1, <3>2, <3>3
  <2> QED BY <2>1, Size
<1>6. /\ iEntry' = E(t, i + 1) /\ iBlock' = B(t, i + 1) /\ E(t, i) \in Nat /\ B(t, i) \in Nat
      /\ i + 1 \in 0 .. DSCR_BLOCK_SIZE - 2
  BY <1>1, <1>3, <1>4, <1>5, Size, EntryNext, BlockNext
<1>7. /\ E(t, i) \in 0 .. DSCR_BLOCK_SIZE * Tables(n) - 1
      /\ E(t, i + 1) \in 0 .. DSCR_BLOCK_SIZE * Tables(n) - 1
  BY <1>2, <1>6, Size, InTables
<1>8. /\ table' \in TablesOf(n)
      /\ table'[E(t, i)] = Descr(B(t, i), "JumpNextDescr")
      /\ \A e \in Nat : e < E(t, i) => table'[e] = table[e]
  <2>1. Descr(B(t, i), "JumpNextDescr") \in Entries
    BY <1>6, EntryTypes DEF Commands
  <2> QED BY <1>1, <1>2, <1>3, <1>6, <1>7, <2>1 DEF TablesOf
<1>9. Prefix(table', t, i + 1)
  <2>1. Prefix(table', t, i)
    BY <1>3, <1>4, <1>8, Size, PrefixKept
  <2> QED BY <2>1, <1>4, <1>8 DEF Prefix
<1>10. SGTypes'
  <2>1. iBlock' \in 0 .. n
    BY <1>1, <1>2, <1>4, <1>6 DEF SGInv, SGTypes, n
  <2>2. iEntry' \in 0 .. DSCR_BLOCK_SIZE * Tables(n)
    <3> DEFINE x == DSCR_BLOCK_SIZE * Tables(n)
    <3>1. x \in Nat /\ E(t, i + 1) \in 0 .. x - 1
      BY <1>2, <1>7, TableSize
    <3> HIDE DEF x
    <3>2. E(t, i + 1) \in 0 .. x
      BY <3>1
    <3> QED BY <3>2, <1>6 DEF x
  <2> QED BY <1>1, <1>2, <1>8, <2>1, <2>2 DEF SGInv, SGTypes, n
<1>11. FillInv'
  BY <1>1, <1>3, <1>6, <1>9 DEF FillInv, n
<1> QED BY <1>1, <1>2, <1>10, <1>11 DEF SGInv, ReadyInv, WalkInv

LEMMA FillTableStep ==
  ASSUME PartlyFilled, SGInv, FillTable
  PROVE  SGInv'
<1>1. /\ pc = "fill" /\ pc' = pc /\ BlockCount' = BlockCount /\ iBlock < BlockCount
      /\ (iEntry + 2) % DSCR_BLOCK_SIZE = 0
      /\ iEntry' = iEntry + 2 /\ iBlock' = iBlock + 1
      /\ table' = [table EXCEPT
           ![iEntry] = Descr(iBlock, "JumpNextBlock"),
           ![iEntry + 1] = Link(<<"table", (iEntry + 2) \div DSCR_BLOCK_SIZE>>)]
      /\ UNCHANGED <<cycling, hw, filled>>
  BY DEF FillTable
<1> DEFINE n == BlockCount
           d == DSCR_BLOCK_SIZE - 2
<1>2. n \in BlockCounts /\ table \in TablesOf(n) /\ hw.st = "off"
  BY <1>1 DEF SGInv, SGTypes, WalkInv
<1>3. PICK t \in 0 .. Last(n), i \in 0 .. DSCR_BLOCK_SIZE - 2 :
        iBlock = B(t, i) /\ iEntry = E(t, i) /\ Prefix(table, t, i)
  BY <1>1 DEF SGInv, FillInv
<1> HIDE DEF n
<1>4. /\ n \in Nat /\ Last(n) \in Nat /\ t \in Nat /\ i \in Nat /\ t + 1 \in Nat
      /\ d \in Nat /\ d + 1 \in Nat /\ d + 1 = DSCR_BLOCK_SIZE - 1
      /\ InLast(n) \in 0 .. d /\ n = B(Last(n), InLast(n))
  BY <1>2, Size, LastTable
(* The driver is at the last descriptor of the table, ... *)
<1>5. i = d
  <2>1. ASSUME i < d
        PROVE  FALSE
    <3>1. i + 1 \in Nat /\ i + 2 \in 0 .. DSCR_BLOCK_SIZE - 1 /\ i + 2 # 0
      BY <2>1, <1>4, Size
    <3>2. E(t, i) \in Nat /\ E(t, i + 1) = E(t, i) + 1
      BY <1>4, EntryNext
    <3>3. E(t, (i + 1) + 1) = E(t, i + 1) + 1
      BY <1>4, <3>1, EntryNext
    <3>4. E(t, i + 2) = iEntry + 2
      BY <3>2, <3>3, <1>3, <1>4
    <3>5. E(t, i + 2) % DSCR_BLOCK_SIZE = i + 2
      BY <3>1, <1>4, EntryPlace
    <3> QED BY <1>1, <3>1, <3>4, <3>5
  <2> QED BY <2>1, <1>4
<1>6. /\ E(t, i) \in Nat /\ B(t, i) \in Nat
      /\ E(t, i + 1) = E(t, i) + 1 /\ E(t + 1, 0) = E(t, i) + 2
      /\ B(t + 1, 0) = B(t, i) + 1
  <2>1. E(t, i) \in Nat /\ E(t, i + 1) = E(t, i) + 1
    BY <1>4, EntryNext
  <2>2. E(t + 1, 0) = E(t, DSCR_BLOCK_SIZE - 1) + 1
    BY <1>4, EntryNext
  <2>3. i + 1 = DSCR_BLOCK_SIZE - 1
    BY <1>4, <1>5
  <2>4. B(t, i) \in Nat /\ B(t + 1, 0) = B(t, DSCR_BLOCK_SIZE - 2) + 1
    BY <1>4, BlockNext
  <2> QED BY <2>1, <2>2, <2>3, <2>4, <1>5
(* ... and not in the last table. *)
<1>7. t < Last(n)
  <2>1. ASSUME t = Last(n)
        PROVE  FALSE
    <3>1. InLast(n) \in Nat /\ B(t, InLast(n)) \in Nat
      BY <1>4, BlockNext
    <3>2. InLast(n) < d => B(t, InLast(n)) < B(t, d)
      BY <3>1, <1>4, BlockNext
    <3>3. n <= B(t, i)
      BY <2>1, <3>1, <3>2, <1>4, <1>5, <1>6
    <3> QED BY <3>3, <1>1, <1>3, <1>4, <1>6 DEF n
  <2> QED BY <2>1, <1>4
<1>8. t + 1 \in 0 .. Last(n) /\ 0 \in 0 .. DSCR_BLOCK_SIZE - 2
  BY <1>4, <1>7, Size
<1>9. /\ iEntry' = E(t + 1, 0) /\ iBlock' = B(t + 1, 0)
      /\ (iEntry + 2) \div DSCR_BLOCK_SIZE = t + 1
  <2>1. E(t + 1, 0) \div DSCR_BLOCK_SIZE = t + 1
    BY <1>4, Size, EntryPlace
  <2> QED BY <2>1, <1>1, <1>3, <1>6
<1>10. /\ E(t, i) \in 0 .. DSCR_BLOCK_SIZE * Tables(n) - 1
       /\ E(t, i + 1) \in 0 .. DSCR_BLOCK_SIZE * Tables(n) - 1
       /\ E(t + 1, 0) \in 0 .. DSCR_BLOCK_SIZE * Tables(n) - 1
  <2>1. i \in 0 .. DSCR_BLOCK_SIZE - 1 /\ i + 1 \in 0 .. DSCR_BLOCK_SIZE - 1
        /\ 0 \in 0 .. DSCR_BLOCK_SIZE - 1
    BY <1>4, <1>5, Size
  <2> QED BY <2>1, <1>2, <1>8, InTables
<1>11. /\ table' \in TablesOf(n)
       /\ table'[E(t, i)] = Descr(B(t, i), "JumpNextBlock")
       /\ table'[E(t, i + 1)] = Link(<<"table", t + 1>>)
       /\ \A e \in Nat : e < E(t, i) => table'[e] = table[e]
  <2>1. Descr(B(t, i), "JumpNextBlock") \in Entries /\ Link(<<"table", t + 1>>) \in Entries
    BY <1>4, <1>6, EntryTypes DEF Commands
  <2>2. table' = [table EXCEPT ![E(t, i)] = Descr(B(t, i), "JumpNextBlock"),
                               ![E(t, i + 1)] = Link(<<"table", t + 1>>)]
    BY <1>1, <1>3, <1>6, <1>9
  <2>3. table \in [0 .. DSCR_BLOCK_SIZE * Tables(n) - 1 -> Entries] /\ E(t, i) # E(t, i + 1)
    BY <1>2, <1>6 DEF TablesOf
  <2>4. table' \in TablesOf(n)
    BY <2>1, <2>2, <2>3 DEF TablesOf
  <2>5. /\ table'[E(t, i)] = Descr(B(t, i), "JumpNextBlock")
        /\ table'[E(t, i + 1)] = Link(<<"table", t + 1>>)
    BY <2>2, <2>3, <1>10
  <2>6. ASSUME NEW e \in Nat, e < E(t, i)
        PROVE  table'[e] = table[e]
    <3>1. e # E(t, i) /\ e # E(t, i + 1)
      BY <2>6, <1>6
    <3>2. e \in 0 .. DSCR_BLOCK_SIZE * Tables(n) - 1
      <4> DEFINE x == DSCR_BLOCK_SIZE * Tables(n)
      <4>1. x \in Nat /\ E(t, i) \in 0 .. x - 1
        BY <1>2, <1>10, TableSize
      <4> HIDE DEF x
      <4>2. e \in 0 .. x - 1
        BY <4>1, <2>6
      <4> QED BY <4>2 DEF x
    <3> QED BY <2>2, <2>3, <3>1, <3>2
  <2> QED BY <2>4, <2>5, <2>6
<1>12. Prefix(table', t + 1, 0)
  <2>1. Prefix(table', t, i)
    <3>1. i \in 0 .. DSCR_BLOCK_SIZE - 1 /\ t \in Nat /\ Prefix(table, t, i)
      BY <1>3, <1>4, Size
    <3>2. \A e \in Nat : e < E(t, i) => table'[e] = table[e]
      BY <1>11
    <3> QED BY <3>1, <3>2, PrefixKept
  <2>2. ASSUME NEW s \in 0 .. t, NEW j \in 0 .. DSCR_BLOCK_SIZE - 1
        PROVE  Full(table', s, j)
    <3>1. CASE s \in 0 .. t - 1
      BY <2>1, <3>1 DEF Prefix
    <3>2. CASE s = t /\ j \in 0 .. i - 1
      <4>1. j < DSCR_BLOCK_SIZE - 2 /\ table'[E(t, j)] = Descr(B(t, j), "JumpNextDescr")
        BY <2>1, <3>2, <1>4, <1>5 DEF Prefix
      <4> QED BY <4>1, <3>2, Size DEF Full
    <3>3. CASE s = t /\ j = i
      BY <3>3, <1>5, <1>11, Size DEF Full
    <3>4. CASE s = t /\ j = i + 1
      BY <3>4, <1>4, <1>5, <1>11, Size DEF Full
    <3> QED BY <3>1, <3>2, <3>3, <3>4, <1>4, <1>5
  <2> QED BY <2>2, <1>4 DEF Prefix
<1>13. SGTypes'
  <2>1. iBlock' \in 0 .. n
    BY <1>1, <1>2, <1>4, <1>6, <1>9 DEF SGInv, SGTypes, n
  <2>2. iEntry' \in 0 .. DSCR_BLOCK_SIZE * Tables(n)
    <3> DEFINE x == DSCR_BLOCK_SIZE * Tables(n)
    <3>1. x \in Nat /\ E(t + 1, 0) \in 0 .. x - 1
      BY <1>2, <1>10, TableSize
    <3> HIDE DEF x
    <3>2. E(t + 1, 0) \in 0 .. x
      BY <3>1
    <3> QED BY <3>2, <1>9 DEF x
  <2> QED BY <1>1, <1>2, <1>11, <2>1, <2>2 DEF SGInv, SGTypes, n
<1>14. FillInv'
  BY <1>1, <1>8, <1>9, <1>12 DEF FillInv, n
<1> QED BY <1>1, <1>2, <1>13, <1>14 DEF SGInv, ReadyInv, WalkInv

LEMMA CloseStep ==
  ASSUME PartlyFilled, SGInv, Close
  PROVE  SGInv'
<1> DEFINE n == BlockCount
           L == Last(n)
           K == InLast(n)
           last == DSCR_BLOCK_SIZE - 1
<1>1. /\ pc = "fill" /\ pc' = "ready" /\ iBlock = n
      /\ table' = Closed
      /\ crc' = [t \in 0 .. Tables(n) - 1 |-> Contents(Closed, t)]
      /\ UNCHANGED <<BlockCount, iBlock, iEntry, cycling, hw, filled>>
  BY DEF Close
<1>2. n \in BlockCounts /\ table \in TablesOf(n) /\ hw.st = "off"
  BY <1>1 DEF SGInv, SGTypes, WalkInv
<1>3. PICK t \in 0 .. Last(n), i \in 0 .. DSCR_BLOCK_SIZE - 2 :
        iBlock = B(t, i) /\ iEntry = E(t, i) /\ Prefix(table, t, i)
  BY <1>1 DEF SGInv, FillInv
<1> HIDE DEF n
<1>4. /\ n \in Nat /\ L \in Nat /\ t \in Nat /\ i \in Nat
      /\ K \in 1 .. DSCR_BLOCK_SIZE - 2 /\ n = B(L, K)
      /\ DSCR_BLOCK_SIZE * Tables(n) = E(L, last) + 1
      /\ last \in Nat
  BY <1>2, Size, LastTable
<1>5. t = L /\ i = K
  <2>1. t \in Nat /\ i \in 0 .. DSCR_BLOCK_SIZE - 2 /\ K \in 0 .. DSCR_BLOCK_SIZE - 2
    BY <1>4
  <2>2. L < t => B(L, K) < B(t, i)
    BY <2>1, <1>4, BlockOrder
  <2>3. B(t, i) = B(L, K) => t = L /\ i = K
    BY <2>1, <1>4, BlockOrder
  <2> QED BY <2>3, <1>1, <1>3, <1>4
<1> HIDE DEF L, K
<1>6. iEntry = E(L, K) /\ Prefix(table, L, K)
  BY <1>3, <1>5
(* The entries that change. *)
<1>7. /\ E(L, K - 1) \in Nat /\ E(L, K) = E(L, K - 1) + 1
      /\ E(L, K) < E(L, last) /\ E(L, last) \in Nat
      /\ B(L, K - 1) = n - 1
  <2>1. K - 1 \in Nat /\ (K - 1) + 1 = K /\ K \in Nat /\ K < last
    BY <1>4, Size
  <2>2. E(L, K - 1) \in Nat /\ E(L, (K - 1) + 1) = E(L, K - 1) + 1
    BY <2>1, <1>4, EntryNext
  <2>3. E(L, last) \in Nat /\ E(L, K) < E(L, last)
    BY <2>1, <1>4, EntryNext
  <2>4. B(L, K - 1) \in Nat /\ B(L, (K - 1) + 1) = B(L, K - 1) + 1
    BY <2>1, <1>4, BlockNext
  <2> QED BY <2>1, <2>2, <2>3, <2>4, <1>4
<1>8. /\ E(L, K - 1) \in 0 .. DSCR_BLOCK_SIZE * Tables(n) - 1
      /\ E(L, K) \in 0 .. DSCR_BLOCK_SIZE * Tables(n) - 1
      /\ E(L, last) \in 0 .. DSCR_BLOCK_SIZE * Tables(n) - 1
      /\ DSCR_BLOCK_SIZE * Tables(n) - 1 = E(L, last)
  BY <1>4, <1>7
<1>9. iEntry % DSCR_BLOCK_SIZE # 0
  <2>1. L \in Nat /\ K \in 0 .. DSCR_BLOCK_SIZE - 1 /\ K # 0
    BY <1>4, Size
  <2>2. E(L, K) % DSCR_BLOCK_SIZE = K
    BY <2>1, EntryPlace
  <2> QED BY <2>1, <2>2, <1>6
<1>10. table' = [table EXCEPT ![E(L, K - 1)].cmd = @ \ {"JumpNextDescr"},
                              ![E(L, K)].addr = <<"table", 0>>,
                              ![E(L, last)] = Link(<<"zero", 0>>)]
  <2>1. iEntry - 1 = E(L, K - 1)
    BY <1>6, <1>7
  <2> QED BY <2>1, <1>1, <1>6, <1>8, <1>9 DEF Closed, n
<1>11. /\ table' \in TablesOf(n)
       /\ table'[E(L, K - 1)].addr = table[E(L, K - 1)].addr
       /\ table'[E(L, K - 1)].cmd = table[E(L, K - 1)].cmd \ {"JumpNextDescr"}
       /\ table'[E(L, K)].addr = <<"table", 0>>
       /\ table'[E(L, last)] = Link(<<"zero", 0>>)
       /\ \A e \in Nat : e < E(L, K - 1) => table'[e] = table[e]
  <2>1. Link(<<"zero", 0>>) \in Entries
    BY EntryTypes
  <2>2. /\ [table[E(L, K - 1)] EXCEPT !.cmd = @ \ {"JumpNextDescr"}] \in Entries
        /\ [table[E(L, K)] EXCEPT !.addr = <<"table", 0>>] \in Entries
    <3>1. table[E(L, K - 1)] \in Entries /\ table[E(L, K)] \in Entries
      BY <1>2, <1>8 DEF TablesOf
    <3> QED BY <3>1 DEF Entries
  <2>3. table \in [0 .. DSCR_BLOCK_SIZE * Tables(n) - 1 -> Entries]
    BY <1>2 DEF TablesOf
  <2>4. /\ E(L, K - 1) # E(L, K) /\ E(L, K - 1) # E(L, last) /\ E(L, K) # E(L, last)
    BY <1>7
  <2>5. /\ table[E(L, K - 1)] \in Entries /\ table[E(L, K)] \in Entries
    BY <2>3, <1>8
  <2>6. table' = [table EXCEPT
          ![E(L, K - 1)] = [table[E(L, K - 1)] EXCEPT !.cmd = @ \ {"JumpNextDescr"}],
          ![E(L, K)] = [table[E(L, K)] EXCEPT !.addr = <<"table", 0>>],
          ![E(L, last)] = Link(<<"zero", 0>>)]
    BY <1>10, <2>3, <2>4, <1>8
  <2>7. /\ table'[E(L, K - 1)] = [table[E(L, K - 1)] EXCEPT !.cmd = @ \ {"JumpNextDescr"}]
        /\ table'[E(L, K)] = [table[E(L, K)] EXCEPT !.addr = <<"table", 0>>]
        /\ table'[E(L, last)] = Link(<<"zero", 0>>)
    BY <2>3, <2>4, <2>6, <1>8
  <2>8. table' \in TablesOf(n)
    BY <2>1, <2>2, <2>3, <2>6 DEF TablesOf
  <2>9. ASSUME NEW e \in Nat, e < E(L, K - 1)
        PROVE  table'[e] = table[e]
    <3>1. e # E(L, K - 1) /\ e # E(L, K) /\ e # E(L, last)
      BY <2>9, <1>7
    <3>2. e \in 0 .. DSCR_BLOCK_SIZE * Tables(n) - 1
      <4> DEFINE x == DSCR_BLOCK_SIZE * Tables(n)
      <4>1. x \in Nat /\ E(L, K - 1) \in 0 .. x - 1
        BY <1>2, <1>8, TableSize
      <4> HIDE DEF x
      <4>2. e \in 0 .. x - 1
        BY <4>1, <2>9
      <4> QED BY <4>2 DEF x
    <3> QED BY <2>3, <2>6, <3>1, <3>2
  <2>10. /\ table'[E(L, K - 1)].addr = table[E(L, K - 1)].addr
         /\ table'[E(L, K - 1)].cmd = table[E(L, K - 1)].cmd \ {"JumpNextDescr"}
    <3> DEFINE p == table[E(L, K - 1)]
    <3>1. p \in Entries /\ table'[E(L, K - 1)] = [p EXCEPT !.cmd = @ \ {"JumpNextDescr"}]
      BY <2>5, <2>7
    <3> HIDE DEF p
    <3>2. /\ table'[E(L, K - 1)].addr = p.addr
          /\ table'[E(L, K - 1)].cmd = p.cmd \ {"JumpNextDescr"}
      BY <3>1 DEF Entries
    <3> QED BY <3>2 DEF p
  <2>11. table'[E(L, K)].addr = <<"table", 0>>
    <3> DEFINE p == table[E(L, K)]
    <3>1. p \in Entries /\ table'[E(L, K)] = [p EXCEPT !.addr = <<"table", 0>>]
      BY <2>5, <2>7
    <3> HIDE DEF p
    <3> QED BY <3>1 DEF Entries
  <2> QED BY <2>7, <2>8, <2>9, <2>10, <2>11
<1>12. Chain(table', n)
  <2>1. table[E(L, K - 1)] = Descr(n - 1, "JumpNextDescr")
    BY <1>4, <1>6, <1>7 DEF Prefix
  <2>2. /\ table'[E(L, K - 1)].addr = <<"block", n - 1>>
        /\ table'[E(L, K - 1)].cmd = {"EndOfTrans"}
    BY <2>1, <1>11, EntryTypes
  <2>3. Prefix(table', L, K - 1)
    <3>1. Prefix(table, L, K - 1)
      BY <1>4, <1>6 DEF Prefix
    <3>2. K - 1 \in 0 .. DSCR_BLOCK_SIZE - 1 /\ L \in Nat
      BY <1>4, Size
    <3>3. \A e \in Nat : e < E(L, K - 1) => table'[e] = table[e]
      BY <1>11
    <3> QED BY <3>1, <3>2, <3>3, PrefixKept
  <2>4. "Signature" \in table'[E(L, last)].cmd
    BY <1>11, EntryTypes
  <2> QED BY <2>2, <2>3, <2>4, <1>11 DEF Chain, L, K
<1>13. SGTypes'
  BY <1>1, <1>2, <1>11 DEF SGInv, SGTypes, n
<1>14. ReadyInv'
  BY <1>1, <1>12 DEF ReadyInv, n
<1> QED BY <1>1, <1>2, <1>13, <1>14 DEF SGInv, FillInv, WalkInv

LEMMA ReleaseStep ==
  ASSUME PartlyFilled, SGInv, Release
  PROVE  SGInv'
<1>1. /\ pc' = "free" /\ hw.st = "off"
      /\ UNCHANGED <<BlockCount, iBlock, iEntry, cycling, hw, filled>>
  BY DEF Release
<1> QED BY <1>1 DEF SGInv, SGTypes, FillInv, ReadyInv, WalkInv

LEMMA StartStep ==
  ASSUME PartlyFilled, SGInv, NEW c \in BOOLEAN, Start(c)
  PROVE  SGInv'
<1> DEFINE n == BlockCount
           L == Last(n)
           K == InLast(n)
           last == DSCR_BLOCK_SIZE - 1
           e == E(L, K - 1)
           cmd == IF c THEN table[e].cmd \cup {Bit(n)} ELSE table[e].cmd \ {Bit(n)}
<1>1. /\ pc = "ready" /\ pc' = pc /\ hw.st = "off"
      /\ cycling' = c /\ filled' = -1
      /\ table' = Marked(c)
      /\ crc' = [crc EXCEPT ![Tables(n) - 1] = Contents(table', Tables(n) - 1)]
      /\ hw' = [st |-> "load", tab |-> 0, idx |-> 0]
      /\ UNCHANGED <<BlockCount, iBlock, iEntry>>
  BY DEF Start, HwOff, driverVars
<1>2. /\ n \in BlockCounts /\ table \in TablesOf(n)
      /\ Chain(table, n)
      /\ crc = [t \in 0 .. Tables(n) - 1 |-> Contents(table, t)]
  BY <1>1 DEF SGInv, SGTypes, ReadyInv
<1> HIDE DEF n
<1>3. /\ n \in Nat /\ n > 0 /\ L \in Nat /\ Tables(n) = L + 1
      /\ K \in 1 .. DSCR_BLOCK_SIZE - 2
      /\ n + Tables(n) - 2 = e
      /\ last \in Nat
  BY <1>2, Size, LastTable
<1>4. /\ LastDescr = e /\ CycleBit = Bit(n)
      /\ Bit(n) \in {"JumpDescr0", "JumpNextBlock"}
  BY <1>3 DEF LastDescr, CycleBit, Bit, n
<1>5. /\ K - 1 \in 0 .. last /\ K \in 0 .. last /\ last \in 0 .. last
      /\ e \in 0 .. DSCR_BLOCK_SIZE * Tables(n) - 1
      /\ E(L, K) \in 0 .. DSCR_BLOCK_SIZE * Tables(n) - 1
      /\ E(L, last) \in 0 .. DSCR_BLOCK_SIZE * Tables(n) - 1
      /\ e # E(L, K) /\ e # E(L, last)
  <2>1. /\ K - 1 \in 0 .. last /\ K \in 0 .. last /\ last \in 0 .. last
        /\ L \in 0 .. Last(n) /\ K - 1 # K /\ K - 1 # last
    BY <1>3, Size
  <2>2. e # E(L, K)
    BY <2>1, <1>3, EntryOrder
  <2>3. e # E(L, last)
    BY <2>1, <1>3, EntryOrder
  <2>4. /\ e \in 0 .. DSCR_BLOCK_SIZE * Tables(n) - 1
        /\ E(L, K) \in 0 .. DSCR_BLOCK_SIZE * Tables(n) - 1
        /\ E(L, last) \in 0 .. DSCR_BLOCK_SIZE * Tables(n) - 1
    BY <2>1, <1>2, InTables
  <2> QED BY <2>1, <2>2, <2>3, <2>4
<1>6. /\ table' = [table EXCEPT ![e] = [table[e] EXCEPT !.cmd = cmd]]
      /\ cmd \in SUBSET Cmds
  <2>1. table[e] \in Entries
    BY <1>2, <1>5 DEF TablesOf
  <2>2. cmd \in SUBSET Cmds
    BY <2>1, <1>4 DEF Entries, Cmds, Commands
  <2>3. table' = [table EXCEPT ![e].cmd = IF c THEN @ \cup {Bit(n)} ELSE @ \ {Bit(n)}]
    BY <1>1, <1>4 DEF Marked
  <2> QED BY <2>2, <2>3
<1> HIDE DEF cmd
<1>7. /\ table' \in TablesOf(n)
      /\ table'[e].addr = table[e].addr /\ table'[e].cmd = cmd
      /\ \A d \in 0 .. DSCR_BLOCK_SIZE * Tables(n) - 1 : d # e => table'[d] = table[d]
  <2> DEFINE p == table[e]
             q == [p EXCEPT !.cmd = cmd]
  <2>1. p \in Entries
    BY <1>2, <1>5 DEF TablesOf
  <2> HIDE DEF p
  <2>2. q \in Entries /\ q.addr = p.addr /\ q.cmd = cmd
    BY <2>1, <1>6 DEF Entries
  <2>3. table' = [table EXCEPT ![e] = q]
    BY <1>6 DEF p
  <2> HIDE DEF q
  <2>4. table \in [0 .. DSCR_BLOCK_SIZE * Tables(n) - 1 -> Entries]
    BY <1>2 DEF TablesOf
  <2>5. table' \in TablesOf(n)
    BY <2>2, <2>3, <2>4 DEF TablesOf
  <2>6. table'[e] = q
    BY <2>3, <2>4, <1>5
  <2>7. \A d \in 0 .. DSCR_BLOCK_SIZE * Tables(n) - 1 : d # e => table'[d] = table[d]
    BY <2>3, <2>4
  <2> QED BY <2>2, <2>5, <2>6, <2>7 DEF p
<1>8. Chain(table', n)
  <2>1. Prefix(table', L, K - 1)
    <3>1. Prefix(table, L, K - 1) /\ K - 1 \in 0 .. DSCR_BLOCK_SIZE - 1 /\ L \in Nat
      BY <1>2, <1>3, <1>5 DEF Chain, L, K, last
    <3>2. ASSUME NEW d \in Nat, d < e
          PROVE  table'[d] = table[d]
      <4> DEFINE x == DSCR_BLOCK_SIZE * Tables(n)
      <4>1. x \in Nat /\ e \in 0 .. x - 1
        BY <1>2, <1>5, TableSize
      <4> HIDE DEF x, e
      <4>2. d \in 0 .. x - 1 /\ d # e
        BY <4>1, <3>2
      <4> QED BY <4>2, <1>7 DEF x
    <3> QED BY <3>1, <3>2, PrefixKept DEF e
  <2>2. table'[e].addr = <<"block", n - 1>>
    BY <1>2, <1>7 DEF Chain, L, K, e
  <2>3. table'[e].cmd = {"EndOfTrans"} \/ table'[e].cmd = {"EndOfTrans", Bit(n)}
    <3>1. table[e].cmd = {"EndOfTrans"} \/ table[e].cmd = {"EndOfTrans", Bit(n)}
      BY <1>2 DEF Chain, L, K, e
    <3> QED BY <3>1, <1>4, <1>7 DEF cmd
  <2>4. table'[E(L, K)].addr = <<"table", 0>> /\ "Signature" \in table'[E(L, last)].cmd
    BY <1>2, <1>5, <1>7 DEF Chain, L, K, last
  <2> QED BY <2>1, <2>2, <2>3, <2>4 DEF Chain
<1>9. ChainMarked(table', n) <=> c
  BY <1>7 DEF ChainMarked, cmd
<1>10. crc' = [t \in 0 .. Tables(n) - 1 |-> Contents(table', t)]
  <2>1. ASSUME NEW t \in 0 .. Tables(n) - 1, t # L
        PROVE  Contents(table', t) = Contents(table, t)
    <3>1. t \in 0 .. Last(n) /\ t \in Nat
      BY <1>3
    <3>2. ASSUME NEW i \in 0 .. DSCR_BLOCK_SIZE - 1
          PROVE  table'[DSCR_BLOCK_SIZE * t + i] = table[DSCR_BLOCK_SIZE * t + i]
      <4>1. E(t, i) # e
        BY <2>1, <3>1, <1>3, <1>5, EntryOrder
      <4>2. E(t, i) \in 0 .. DSCR_BLOCK_SIZE * Tables(n) - 1
        BY <3>1, <1>2, InTables
      <4>3. table'[E(t, i)] = table[E(t, i)]
        BY <4>1, <4>2, <1>7
      <4> QED BY <4>3 DEF E
    <3> QED BY <3>2 DEF Contents
  <2> DEFINE T == 0 .. Tables(n) - 1
  <2>2. crc' = [crc EXCEPT ![L] = Contents(table', L)] /\ L \in T
    <3>1. Tables(n) - 1 = L /\ L \in T
      BY <1>3
    <3> QED BY <3>1, <1>1
  <2>3. ASSUME NEW t \in T, t # L
        PROVE  crc[t] = Contents(table', t)
    BY <2>1, <2>3, <1>2
  <2>4. crc = [t \in T |-> crc[t]]
    BY <1>2
  <2> HIDE DEF T, L
  <2>5. crc' = [t \in T |-> Contents(table', t)]
    BY <2>2, <2>3, <2>4
  <2> QED BY <2>5 DEF T
<1>11. SGTypes'
  BY <1>1, <1>2, <1>3, <1>7 DEF SGInv, SGTypes, n
<1>12. WalkInv'
  <2>1. B(0, 0) = 0 /\ 0 \in 0 .. L
    BY <1>3, BlockNext
  <2>2. Before(0, 0)'
    BY <2>1, <1>1 DEF Before
  <2> QED BY <2>1, <2>2, <1>1, <1>9 DEF WalkInv, n
<1>13. ReadyInv' /\ FillInv'
  BY <1>1, <1>8, <1>10 DEF ReadyInv, FillInv, n
<1> QED BY <1>11, <1>12, <1>13 DEF SGInv

-----------------------------------------------------------------------------
(* The steps of the FPGA. *)
LEMMA StopStep ==
  ASSUME PartlyFilled, SGInv, Stop
  PROVE  SGInv'
<1>1. hw' = [st |-> "off", tab |-> 0, idx |-> 0]
  BY DEF Stop, HwOff
<1>2. UNCHANGED <<pc, BlockCount, iBlock, iEntry, table, crc, cycling, filled>>
  BY DEF Stop, driverVars, tableVars
<1>3. SGTypes'
  BY <1>1, <1>2 DEF SGInv, SGTypes
<1>4. FillInv' /\ ReadyInv'
  BY <1>2 DEF SGInv, FillInv, ReadyInv
<1>5. WalkInv'
  BY <1>1 DEF WalkInv
<1> QED BY <1>3, <1>4, <1>5 DEF SGInv

LEMMA LoadStep ==
  ASSUME PartlyFilled, SGInv, Load
  PROVE  /\ SGInv'
         /\ Correct(hw.tab)
<1> DEFINE n == BlockCount
           t == hw.tab
           last == DSCR_BLOCK_SIZE - 1
<1>1. /\ hw.st = "load" /\ pc = "ready"
      /\ UNCHANGED <<pc, BlockCount, iBlock, iEntry, table, crc, cycling, filled>>
  BY DEF Load, SGInv, WalkInv, driverVars, tableVars
<1>2. /\ n \in BlockCounts
      /\ Chain(table, n)
      /\ crc = [s \in 0 .. Tables(n) - 1 |-> Contents(table, s)]
      /\ t \in 0 .. Last(n) /\ Before(t, 0)
      /\ hw \in [st : {"off", "load", "run", "end"}, tab : Nat, idx : Nat]
      /\ cycling <=> ChainMarked(table, n)
  BY <1>1 DEF SGInv, SGTypes, ReadyInv, WalkInv
<1> HIDE DEF n
<1>3. /\ Last(n) \in Nat /\ Tables(n) = Last(n) + 1
      /\ InLast(n) \in 1 .. DSCR_BLOCK_SIZE - 2
      /\ last \in 0 .. last /\ last \in Nat /\ last = DSCR_BLOCK_SIZE - 1
  BY <1>2, Size, LastTable
<1>4. Correct(t)
  <2>1. t \in DOMAIN crc /\ crc[t] = Contents(table, t)
    BY <1>2, <1>3
  <2>2. Contents(table, t)[last] = table[E(t, last)]
    BY <1>3, ContentsAt
  <2>3. "Signature" \in table[E(t, last)].cmd
    <3>1. CASE t = Last(n)
      BY <3>1, <1>2 DEF Chain
    <3>2. CASE t # Last(n)
      <4>1. t \in 0 .. Last(n) - 1
        BY <3>2, <1>2, <1>3
      <4>2. Full(table, t, last)
        BY <4>1, <1>2, <1>3 DEF Chain, Prefix
      <4>3. table[E(t, last)] = Link(<<"table", t + 1>>)
        BY <4>2 DEF Full
      <4> QED BY <4>3, EntryTypes
    <3> QED BY <3>1, <3>2
  <2> QED BY <2>1, <2>2, <2>3 DEF Correct
<1>5. ram' = Contents(table, t) /\ hw' = [hw EXCEPT !.st = "run", !.idx = 0]
  BY <1>4 DEF Load
<1>6. hw'.st = "run" /\ hw'.tab = t /\ hw'.idx = 0
      /\ hw' \in [st : {"off", "load", "run", "end"}, tab : Nat, idx : Nat]
  BY <1>2, <1>5
<1>7. SGTypes'
  BY <1>1, <1>6 DEF SGInv, SGTypes
<1>8. FillInv' /\ ReadyInv'
  BY <1>1 DEF SGInv, FillInv, ReadyInv
<1>9. Here(t, 0)' /\ Before(t, 0)'
  <2>1. Here(t, 0)
    BY <1>2, <1>3, Size DEF Here, n
  <2>2. hw.tab \in 0 .. Last(BlockCount')
    BY <1>1, <1>2 DEF n
  <2> QED BY <2>1, <1>1, <1>2, <1>6 DEF Here, Before
<1> QED BY <1>1, <1>2, <1>4, <1>5, <1>6, <1>7, <1>8, <1>9 DEF SGInv, WalkInv, n

(* The descriptor the FPGA works on is the one of the block after those     *)
(* that are filled.                                                         *)
LEMMA AtDescr ==
  ASSUME PartlyFilled, SGInv, hw.st = "run"
  PROVE  /\ BlockCount \in BlockCounts /\ BlockCount \in Nat /\ BlockCount > 0
         /\ hw.tab \in 0 .. Last(BlockCount) /\ hw.idx \in 0 .. DSCR_BLOCK_SIZE - 2
         /\ \A j \in 0 .. DSCR_BLOCK_SIZE - 1 : ram[j] = table[E(hw.tab, j)]
         /\ ram[hw.idx].addr = <<"block", B(hw.tab, hw.idx)>>
         /\ B(hw.tab, hw.idx) \in 0 .. BlockCount - 1
<1> DEFINE n == BlockCount
           L == Last(n)
           K == InLast(n)
           t == hw.tab
           i == hw.idx
<1>1. /\ n \in BlockCounts /\ Chain(table, n) /\ Here(t, i)
      /\ ram = Contents(table, t)
  BY DEF SGInv, SGTypes, ReadyInv, WalkInv
<1>2. /\ n \in Nat /\ n > 0 /\ L \in Nat /\ K \in 1 .. DSCR_BLOCK_SIZE - 2 /\ n = B(L, K)
      /\ t \in 0 .. L /\ i \in 0 .. DSCR_BLOCK_SIZE - 2
      /\ t < L \/ (t = L /\ i \in 0 .. K - 1)
  <2>1. /\ n \in Nat /\ n > 0 /\ L \in Nat /\ K \in 1 .. DSCR_BLOCK_SIZE - 2 /\ n = B(L, K)
    BY <1>1, LastTable
  <2> QED BY <2>1, <1>1, Size DEF Here
<1> HIDE DEF n, L, K, t, i
<1>3. \A j \in 0 .. DSCR_BLOCK_SIZE - 1 : ram[j] = table[E(t, j)]
  BY <1>1, ContentsAt
<1>4. ram[i] = table[E(t, i)]
  BY <1>2, <1>3, Size
<1>5. B(t, i) \in Nat /\ B(t, i) < n
  <2>1. t \in Nat /\ i \in Nat /\ K \in Nat /\ K \in 0 .. DSCR_BLOCK_SIZE - 2
    BY <1>2
  <2>2. B(t, i) \in Nat
    BY <2>1, BlockNext
  <2>3. CASE t < L
    <3>1. B(t, i) < B(L, K)
      BY <2>1, <2>3, <1>2, BlockOrder
    <3> QED BY <3>1, <2>2, <1>2
  <2>4. CASE t = L /\ i \in 0 .. K - 1
    <3>1. i < K
      BY <2>4, <1>2
    <3>2. B(L, i) < B(L, K)
      BY <3>1, <2>1, <1>2, BlockNext
    <3> QED BY <3>2, <2>2, <2>4, <1>2
  <2> QED BY <2>2, <2>3, <2>4, <1>2
<1>6. table[E(t, i)].addr = <<"block", B(t, i)>>
  <2>1. CASE t < L
    <3>1. t \in 0 .. L - 1 /\ i \in 0 .. DSCR_BLOCK_SIZE - 1
      BY <2>1, <1>2, Size
    <3>2. Full(table, t, i)
      BY <3>1, <1>1 DEF Chain, Prefix, L
    <3>3. i < DSCR_BLOCK_SIZE - 2 \/ i = DSCR_BLOCK_SIZE - 2
      BY <1>2, Size
    <3> QED BY <3>2, <3>3, EntryTypes DEF Full
  <2>2. CASE t = L /\ i \in 0 .. (K - 1) - 1
    BY <2>2, <1>1, EntryTypes DEF Chain, Prefix, L, K
  <2>3. CASE t = L /\ i = K - 1
    <3>1. K - 1 \in Nat /\ (K - 1) + 1 = K
      BY <1>2
    <3>2. B(L, K - 1) \in Nat /\ B(L, (K - 1) + 1) = B(L, K - 1) + 1
      BY <3>1, <1>2, BlockNext
    <3>3. B(t, i) = n - 1
      BY <3>1, <3>2, <2>3, <1>2
    <3> QED BY <3>3, <2>3, <1>1 DEF Chain, L, K
  <2> QED BY <2>1, <2>2, <2>3, <1>2
<1> QED BY <1>1, <1>2, <1>3, <1>4, <1>5, <1>6 DEF n, L, t, i

LEMMA BlockEndStep ==
  ASSUME PartlyFilled, SGInv, BlockEnd
  PROVE  /\ SGInv'
         /\ filled' = B(hw.tab, hw.idx)
         /\ Before(hw.tab, hw.idx)
<1> DEFINE n == BlockCount
           L == Last(n)
           K == InLast(n)
           t == hw.tab
           i == hw.idx
           d == DSCR_BLOCK_SIZE - 2
           b == B(t, i)
<1>1. /\ hw.st = "run" /\ pc = "ready"
      /\ filled' = ram[i].addr[2] /\ hw' = After(ram[i].cmd)
      /\ UNCHANGED <<pc, BlockCount, iBlock, iEntry, table, crc, cycling, ram>>
  BY DEF BlockEnd, SGInv, WalkInv, driverVars, tableVars
<1>2. /\ n \in BlockCounts /\ n \in Nat /\ n > 0
      /\ t \in 0 .. L /\ i \in 0 .. DSCR_BLOCK_SIZE - 2
      /\ \A j \in 0 .. DSCR_BLOCK_SIZE - 1 : ram[j] = table[E(t, j)]
      /\ ram[i].addr = <<"block", b>>
      /\ b \in 0 .. n - 1
  BY <1>1, AtDescr
<1>3. /\ Chain(table, n) /\ Here(t, i) /\ Before(t, i)
      /\ hw \in [st : {"off", "load", "run", "end"}, tab : Nat, idx : Nat]
      /\ cycling <=> ChainMarked(table, n)
      /\ cycling \in BOOLEAN
      /\ ram = Contents(table, t)
  BY <1>1 DEF SGInv, SGTypes, ReadyInv, WalkInv
<1> HIDE DEF n
<1>4. /\ L \in Nat /\ K \in 1 .. d /\ n = B(L, K) /\ Tables(n) = L + 1
      /\ d \in Nat /\ d > 0
      /\ t \in Nat /\ i \in Nat
      /\ t < L \/ (t = L /\ i \in 0 .. K - 1)
  <2>1. /\ L \in Nat /\ K \in 1 .. d /\ n = B(L, K) /\ Tables(n) = L + 1
    BY <1>2, LastTable
  <2> QED BY <2>1, <1>2, <1>3, Size DEF Here, n
<1>5. filled' = b
  BY <1>1, <1>2
<1>6. SGTypes' /\ WalkInv'
  <2>1. ASSUME /\ ram[i].cmd = {"JumpNextDescr", "EndOfTrans"}
               /\ \/ t < L /\ i < d
                  \/ t = L /\ i < K - 1
        PROVE  SGTypes' /\ WalkInv'
    <3>1. hw' = [hw EXCEPT !.idx = i + 1]
      BY <2>1, <1>1 DEF After
    <3>2. hw'.st = "run" /\ hw'.tab = t /\ hw'.idx = i + 1
          /\ hw' \in [st : {"off", "load", "run", "end"}, tab : Nat, idx : Nat]
      BY <3>1, <1>1, <1>3, <1>4
    <3>3. Here(t, i + 1)
      BY <2>1, <1>2, <1>4 DEF Here, n
    <3>4. filled' = B(t, i + 1) - 1
      <4>1. B(t, i + 1) = B(t, i) + 1 /\ B(t, i) \in Nat
        BY <1>4, BlockNext
      <4> QED BY <4>1, <1>5
    <3>5. SGTypes'
      BY <3>2, <1>1, <1>2, <1>3, <1>5 DEF SGInv, SGTypes, n
    <3>6. WalkInv'
      BY <3>2, <3>3, <3>4, <1>1, <1>3 DEF WalkInv, Here, Before, n
    <3> QED BY <3>5, <3>6
  <2>2. ASSUME NEW u \in 0 .. L,
               /\ ram[i].cmd = {"JumpNextBlock", "EndOfTrans"}
               /\ ram[i + 1].addr = <<"table", u>>
               /\ \/ b = B(u, 0) - 1
                  \/ u = 0 /\ cycling /\ b = n - 1
        PROVE  SGTypes' /\ WalkInv'
    <3>1. hw' = [st |-> "load", tab |-> u, idx |-> 0]
      BY <2>2, <1>1 DEF After, TableAt
    <3>2. u \in Nat
      BY <1>4
    <3>3. SGTypes'
      BY <3>1, <3>2, <1>1, <1>2, <1>3, <1>5 DEF SGInv, SGTypes, n
    <3>4. WalkInv'
      BY <3>1, <2>2, <1>1, <1>3, <1>5 DEF WalkInv, Before, n
    <3> QED BY <3>3, <3>4
  <2>3. CASE t < L /\ i < d
    <3>1. t \in 0 .. L - 1 /\ i \in 0 .. DSCR_BLOCK_SIZE - 1
      BY <2>3, <1>2, <1>4, Size
    <3>2. Full(table, t, i)
      BY <3>1, <1>3 DEF Chain, Prefix
    <3>3. ram[i].cmd = {"JumpNextDescr", "EndOfTrans"}
      BY <2>3, <3>1, <3>2, <1>2, EntryTypes DEF Full
    <3> QED BY <3>3, <2>1, <2>3
  <2>4. CASE t < L /\ i = d
    <3>1. t \in 0 .. L - 1 /\ i \in 0 .. DSCR_BLOCK_SIZE - 1 /\ i + 1 \in 0 .. DSCR_BLOCK_SIZE - 1
          /\ i + 1 = DSCR_BLOCK_SIZE - 1 /\ t + 1 \in 0 .. L
      BY <2>4, <1>2, <1>4, Size
    <3>2. Full(table, t, i) /\ Full(table, t, i + 1)
      BY <3>1, <1>3 DEF Chain, Prefix
    <3>3. ram[i].cmd = {"JumpNextBlock", "EndOfTrans"}
      BY <2>4, <3>1, <3>2, <1>2, EntryTypes DEF Full
    <3>4. ram[i + 1].addr = <<"table", t + 1>>
      BY <3>1, <3>2, <1>2, EntryTypes DEF Full
    <3>5. b = B(t + 1, 0) - 1
      <4>1. B(t + 1, 0) = B(t, DSCR_BLOCK_SIZE - 2) + 1 /\ B(t, i) \in Nat
        BY <1>4, BlockNext
      <4> QED BY <4>1, <2>4
    <3> QED BY <3>1, <3>3, <3>4, <3>5, <2>2
  <2>5. CASE t = L /\ i < K - 1
    <3>1. i \in 0 .. (K - 1) - 1 /\ i \in 0 .. DSCR_BLOCK_SIZE - 1
      BY <2>5, <1>4, Size
    <3>2. table[E(t, i)] = Descr(b, "JumpNextDescr")
      BY <2>5, <3>1, <1>3 DEF Chain, Prefix
    <3>3. ram[i].cmd = {"JumpNextDescr", "EndOfTrans"}
      BY <3>1, <3>2, <1>2, EntryTypes
    <3> QED BY <3>3, <2>1, <2>5
  <2>6. CASE t = L /\ i = K - 1
    <3>1. /\ i \in 0 .. DSCR_BLOCK_SIZE - 1 /\ K \in 0 .. DSCR_BLOCK_SIZE - 1
          /\ i + 1 = K /\ 0 \in 0 .. L
      BY <2>6, <1>4, Size
    <3>2. b = n - 1
      <4>1. B(L, i + 1) = B(L, i) + 1 /\ B(L, i) \in Nat
        BY <1>4, BlockNext
      <4> QED BY <4>1, <3>1, <2>6, <1>4
    <3>3. /\ ram[i].cmd = table[E(L, K - 1)].cmd
          /\ ram[i + 1].addr = <<"table", 0>>
      BY <3>1, <2>6, <1>2, <1>3 DEF Chain
    <3>4. CASE ~cycling
      <4>1. ram[i].cmd = {"EndOfTrans"}
        BY <3>3, <3>4, <1>3 DEF Chain, ChainMarked
      <4>2. hw' = [hw EXCEPT !.st = "end"]
        BY <4>1, <1>1 DEF After
      <4>3. hw'.st = "end" /\ hw' \in [st : {"off", "load", "run", "end"}, tab : Nat, idx : Nat]
        BY <4>2, <1>3
      <4>4. SGTypes'
        BY <4>3, <1>1, <1>2, <1>3, <1>5 DEF SGInv, SGTypes, n
      <4>5. WalkInv'
        BY <4>3, <3>2, <3>4, <1>1, <1>3, <1>5 DEF WalkInv, n
      <4> QED BY <4>4, <4>5
    <3>5. CASE cycling
      <4>1. ram[i].cmd = {"EndOfTrans", Bit(n)}
        BY <3>3, <3>5, <1>3 DEF Chain, ChainMarked, Bit
      <4>2. CASE L = 0
        <5>1. ram[i].cmd = {"EndOfTrans", "JumpDescr0"}
          BY <4>1, <4>2 DEF Bit
        <5>2. hw' = [hw EXCEPT !.idx = 0]
          BY <5>1, <1>1 DEF After
        <5>3. hw'.st = "run" /\ hw'.tab = 0 /\ hw'.idx = 0
              /\ hw' \in [st : {"off", "load", "run", "end"}, tab : Nat, idx : Nat]
          BY <5>2, <4>2, <2>6, <1>1, <1>3
        <5>4. Here(0, 0)
          BY <4>2, <1>4 DEF Here, n
        <5>5. SGTypes'
          BY <5>3, <1>1, <1>2, <1>3, <1>5 DEF SGInv, SGTypes, n
        <5>6. WalkInv'
          BY <5>3, <5>4, <4>2, <3>2, <3>5, <2>6, <1>1, <1>3, <1>5
             DEF WalkInv, Here, Before, n
        <5> QED BY <5>5, <5>6
      <4>3. CASE L # 0
        <5>1. ram[i].cmd = {"JumpNextBlock", "EndOfTrans"}
          BY <4>1, <4>3 DEF Bit
        <5> QED BY <5>1, <3>1, <3>2, <3>3, <3>5, <2>2
      <4> QED BY <4>2, <4>3
    <3> QED BY <3>4, <3>5
  <2> QED BY <2>3, <2>4, <2>5, <2>6, <1>2, <1>4
<1>7. FillInv' /\ ReadyInv'
  BY <1>1 DEF SGInv, FillInv, ReadyInv
<1> QED BY <1>3, <1>5, <1>6, <1>7 DEF SGInv

-----------------------------------------------------------------------------
LEMMA InitStep == Init => SGInv
<1> SUFFICES ASSUME Init PROVE SGInv
  OBVIOUS
<1>1. Tables(0) = 0 /\ DSCR_BLOCK_SIZE * Tables(0) = 0
  <2>1. Tables(0) = 0
    BY Size DEF Tables
  <2> QED BY <2>1, Size
<1>2. hw = [st |-> "off", tab |-> 0, idx |-> 0]
  BY DEF Init, HwOff
<1>3. pc = "free" /\ hw.st = "off"
  BY <1>2 DEF Init
<1>4. SGTypes
  <2>1. BlockCount = 0 /\ iBlock = 0 /\ iEntry = 0 /\ cycling = FALSE /\ filled = -1
    BY DEF Init
  <2>2. iEntry \in 0 .. DSCR_BLOCK_SIZE * Tables(BlockCount)
    BY <1>1, <2>1
  <2>3. iBlock \in 0 .. BlockCount /\ filled \in -1 .. BlockCount - 1
    BY <2>1
  <2> QED BY <1>2, <1>3, <2>1, <2>2, <2>3 DEF SGTypes
<1>5. FillInv /\ ReadyInv /\ WalkInv
  BY <1>3 DEF FillInv, ReadyInv, WalkInv
<1> QED BY <1>4, <1>5 DEF SGInv

LEMMA NextStep ==
  ASSUME PartlyFilled, SGInv, [Next]_vars
  PROVE  SGInv'
<1>1. CASE \E n \in BlockCounts : Request(n)
  BY <1>1, RequestStep
<1>2. CASE FillEntry
  BY <1>2, FillEntryStep
<1>3. CASE FillTable
  BY <1>3, FillTableStep
<1>4. CASE Close
  BY <1>4, CloseStep
<1>5. CASE Release
  BY <1>5, ReleaseStep
<1>6. CASE \E c \in BOOLEAN : Start(c)
  BY <1>6, StartStep
<1>7. CASE Stop
  BY <1>7, StopStep
<1>8. CASE Load
  BY <1>8, LoadStep
<1>9. CASE BlockEnd
  BY <1>9, BlockEndStep
<1>10. CASE UNCHANGED vars
  <2> USE <1>10 DEF vars, driverVars, tableVars
  <2>1. SGTypes'
    BY DEF SGInv, SGTypes
  <2>2. FillInv' /\ ReadyInv'
    BY DEF SGInv, FillInv, ReadyInv
  <2>3. WalkInv'
    BY DEF SGInv, WalkInv, Here, Before
  <2> QED BY <2>1, <2>2, <2>3 DEF SGInv
<1> QED BY <1>1, <1>2, <1>3, <1>4, <1>5, <1>6, <1>7, <1>8, <1>9, <1>10 DEF Next

(* The list under construction is right up to the entry the loop is at, the *)
(* finished list is one closed chain through all blocks whose CRCs are those*)
(* of its tables, and the FPGA in it has filled exactly the blocks before   *)
(* the descriptor it is at.                                                 *)
THEOREM SGInvariant == PartlyFilled /\ Spec => []SGInv
<1> SUFFICES ASSUME PartlyFilled PROVE Spec => []SGInv
  OBVIOUS
<1>1. SGInv /\ [Next]_vars => SGInv'
  BY NextStep
<1> QED BY <1>1, InitStep, PTL DEF Spec

(* The loops stay in the tables, and a descriptor the FPGA works on is the  *)
(* one of a block, never a link or an entry that was not filled.            *)
THEOREM SGTypesKept == PartlyFilled /\ Spec => []TypeOK
<1> SUFFICES ASSUME PartlyFilled PROVE Spec => []TypeOK
  OBVIOUS
<1>1. ASSUME SGInv PROVE TypeOK
  <2>1. hw.st = "run" => ram[hw.idx].addr[1] = "block"
    BY <1>1, AtDescr
  <2> QED BY <1>1, <2>1 DEF TypeOK, SGInv, SGTypes
<1> QED BY <1>1, SGInvariant, PTL

(* The FPGA loads only tables of the list, also when the chain goes back to *)
(* the first one.                                                           *)
THEOREM WalkStaysInList == PartlyFilled /\ Spec => []WalkInList
<1> SUFFICES ASSUME PartlyFilled PROVE Spec => []WalkInList
  OBVIOUS
<1>1. ASSUME SGInv PROVE WalkInList
  <2> SUFFICES ASSUME hw.st = "load" PROVE hw.tab < Tables(BlockCount)
    BY DEF WalkInList
  <2>1. BlockCount \in BlockCounts /\ hw.tab \in 0 .. Last(BlockCount)
    BY <1>1 DEF SGInv, SGTypes, WalkInv
  <2> QED BY <2>1, LastTable
<1> QED BY <1>1, SGInvariant, PTL

(* The FPGA stops by itself only at the end of the list, every block filled,*)
(* and not in cyclic mode: no CRC or signature is ever found wrong.         *)
THEOREM ChainEndsWhenFull == PartlyFilled /\ Spec => []EndsWhenFull
<1> SUFFICES ASSUME PartlyFilled PROVE Spec => []EndsWhenFull
  OBVIOUS
<1>1. SGInv => EndsWhenFull
  BY DEF SGInv, WalkInv, EndsWhenFull
<1> QED BY <1>1, SGInvariant, PTL

(* The list, the walk of the FPGA through its tables included, implements   *)
(* the ring of blocks: a block end fills the next block, the first one again*)
(* only in cyclic mode.                                                     *)
THEOREM ListIsARing == PartlyFilled /\ Spec => RingSpec
<1> SUFFICES ASSUME PartlyFilled PROVE Spec => RingSpec
  OBVIOUS
<1>1. Init => Ring!Init
  <2> SUFFICES ASSUME Init PROVE Ring!Init
    OBVIOUS
  <2>1. hw.st = "off" /\ BlockCount = 0 /\ cycling = FALSE /\ filled = -1
    BY DEF Init, HwOff
  <2>2. (hw.st # "off") = FALSE
    BY <2>1
  <2> QED BY <2>1, <2>2 DEF Ring!Init
<1>2. ASSUME SGInv, [Next]_vars
      PROVE  [Ring!Next]_Ring!vars
  <2>1. ASSUME UNCHANGED <<BlockCount, cycling, hw, filled>>
        PROVE  UNCHANGED Ring!vars
    BY <2>1 DEF Ring!vars
  <2>2. ASSUME NEW n \in BlockCounts, Request(n)
        PROVE  Ring!Allocate
    <3>1. hw.st = "off"
      BY <1>2, <2>2 DEF SGInv, WalkInv, Request
    <3> QED BY <2>2, <3>1, Size DEF Request, Ring!Allocate
  <2>3. CASE FillEntry \/ FillTable
    BY <2>1, <2>3 DEF FillEntry, FillTable
  <2>4. CASE Close \/ Release
    BY <2>1, <2>4 DEF Close, Release
  <2>5. ASSUME NEW c \in BOOLEAN, Start(c)
        PROVE  Ring!Start
    BY <2>5 DEF Start, HwOff, driverVars, Ring!Start
  <2>6. CASE Stop
    BY <2>6 DEF Stop, HwOff, driverVars, Ring!Stop, Ring!Next
  <2>7. CASE Load
    <3>1. hw \in [st : {"off", "load", "run", "end"}, tab : Nat, idx : Nat]
      BY <1>2 DEF SGInv, SGTypes
    <3>2. hw.st # "off" /\ hw'.st # "off"
      BY <3>1, <2>7 DEF Load
    <3> QED BY <3>2, <2>7 DEF Load, driverVars, Ring!vars
  <2>8. CASE BlockEnd
    <3> DEFINE b == B(hw.tab, hw.idx)
               n == BlockCount
    <3>1. hw.st = "run"
          /\ hw \in [st : {"off", "load", "run", "end"}, tab : Nat, idx : Nat]
      BY <1>2, <2>8 DEF BlockEnd, SGInv, SGTypes
    <3>2. hw.st # "off" /\ hw'.st # "off"
      BY <3>1, <2>8 DEF BlockEnd, After
    <3>3. filled' = b /\ Before(hw.tab, hw.idx)
      BY <1>2, <2>8, BlockEndStep
    <3>4. n \in Nat /\ n > 0 /\ b \in 0 .. n - 1
      BY <1>2, <3>1, AtDescr
    <3>5. B(0, 0) = 0
      BY BlockNext
    <3>6. \/ filled = b - 1
          \/ b = 0 /\ cycling /\ filled = n - 1
      BY <3>3, <3>5 DEF Before
    <3> HIDE DEF b
    <3>7. /\ filled # n - 1 \/ cycling
          /\ filled' = (filled + 1) % n
      BY <3>3, <3>4, <3>6
    <3>8. Ring!BlockEnd
      BY <3>2, <3>7, <2>8 DEF BlockEnd, driverVars, Ring!BlockEnd
    <3> QED BY <3>8 DEF Ring!Next
  <2>9. CASE UNCHANGED vars
    BY <2>1, <2>9 DEF vars, driverVars
  <2> QED BY <1>2, <2>2, <2>3, <2>4, <2>5, <2>6, <2>7, <2>8, <2>9 DEF Next, Ring!Next
<1> QED BY <1>1, <1>2, SGInvariant, PTL DEF Spec, RingSpec, Ring!Spec
===============================================================================
