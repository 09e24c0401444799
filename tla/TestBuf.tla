-------------------------------- MODULE TestBuf --------------------------------
(***************************************************************************)
(* TF_TestBufM2, with which the test programs fill the blocks they send    *)
(* (buf_set) and check those they receive (buf_check, buf_check_psd,       *)
(* buf_check_inv).  Both ends keep a type of block that advances with each *)
(* block, a counter and shift registers that run on from block to block;   *)
(* the words of a block are a signature with its number and W-bit data.    *)
(* Between them blocks are damaged and lost.  The psd and inv streams come *)
(* from the board, whose shift register is cl_test0_v4.                    *)
(***************************************************************************)
EXTENDS Naturals, Sequences, FiniteSets

CONSTANTS
  W,           \* bits of a word, 64 in the code
  Size,        \* words of a block
  NumMask,     \* 256: block and word numbers are compared modulo this
  MaxErrors,   \* 32: errors kept in word_error
  Tests,       \* what is sent: a fixed type 0 .. 15, or one of the next
  MaxBlocks, MaxFaults,   \* bounds: blocks sent, words damaged and blocks lost
  Deltas       \* bound: what may be added to a damaged word

InTurn == 16   \* the types in turn: bit 7 of mode is 0
Psd == 17
Inv == 18

(* What is said of the powers of two holds of every W: the provers do not   *)
(* know it.                                                                 *)
ASSUME TestBufAssumption ==
  /\ W \in Nat /\ W >= 5
  /\ \A i \in 0 .. W : 2^i \in Nat \ {0}
  /\ \A i \in 1 .. W : 2^i = 2 * 2^(i - 1)
  /\ Size \in Nat \ {0} /\ Size % 2 = 0
  /\ NumMask \in Nat \ {0} /\ MaxErrors \in Nat
  /\ Tests \subseteq 0 .. 15 \cup {InTurn, Psd, Inv}
  /\ MaxBlocks \in Nat /\ MaxFaults \in Nat /\ Deltas \subseteq 1 .. 2^W - 1

NoBlock == <<>>

VARIABLES
  test,          \* what this run sends
  tx,            \* the generator: block_mode and the running values
  rx,            \* the checker: the same, and its counts
  n,             \* the number of the next block sent, BlockWr
  line,          \* the block under way: its words, number 1 the signature
  changed,       \* history: the damaged words of the blocks that arrived
  lost, behind   \* history: blocks lost; blocks checked after the first loss

vars == <<test, tx, rx, n, line, changed, lost, behind>>

-----------------------------------------------------------------------------
(* Words *)
Words == 0 .. 2^W - 1
Bit(x, i) == (x \div 2^i) % 2
Not(x) == 2^W - 1 - x
Shift(x, in) == ((2 * x) % 2^W) + in
Rotate[x \in Words] == Shift(x, Bit(x, W - 1))
Count[x \in Words] == (x + 1) % 2^W
Noise[x \in Words] == Shift(x, (Bit(x, W - 1) + Bit(x, W - 2) + Bit(x, W - 4) + Bit(x, W - 5)) % 2)
Johnson[x \in Words] == Shift(x, 1 - Bit(x, W - 1))

(* x, step[x], step[step[x]], ...                                           *)
Run(step, x) ==
  LET run[i \in 0 .. Size] == IF i = 0 THEN x ELSE step[run[i - 1]] IN run

Start(k) == IF k % 2 = 0 THEN 1 ELSE Not(1)

(* data_ex is sent inverted first, and from word 2 on plain and inverted.   *)
Paired(run, i) == IF i % 2 = 0 THEN run[i \div 2] ELSE Not(run[i \div 2])

Flagged(b, i) == b % NumMask = i % NumMask

(* Word i > 0 of block b for the state s; types 10 to 15 have none.         *)
Word(s, b, i) ==
  LET k == s.block_mode
      marks == {j \in 1 .. i - 1 : Flagged(b, j)}
  IN CASE k \in {0, 1} -> Run(Rotate, Start(k))[i - 1]
       [] k \in {2, 3} -> Paired(Run(Rotate, Start(k)), i)
       [] k \in {4, 5} -> IF Flagged(b, i) THEN Run(Rotate, Start(k))[Cardinality(marks)]
                          ELSE IF k = 4 THEN 0 ELSE Not(0)
       [] k \in {6, 7} -> Paired(Run(Count, s.data_ex_cnt), i)
       [] k \in {8, 9} -> Run(Noise, s.data_ex_noise)[i - 1]
       [] OTHER -> 0

Typed(s) == IF test \in 0 .. 15 THEN [s EXCEPT !.block_mode = test] ELSE s

(* The type wraps at 10 only if it comes to be exactly 10.                  *)
NextType(k) == IF k + 1 = 10 THEN 0 ELSE k + 1

(* What a block leaves behind at either end.                                *)
Advance(s) ==
  [s EXCEPT !.block_mode = NextType(@),
            !.data_ex_cnt = IF s.block_mode \in {6, 7} THEN Run(Count, @)[Size \div 2] ELSE @,
            !.data_ex_noise = IF s.block_mode \in {8, 9} THEN Run(Noise, @)[Size - 1] ELSE @]

Values == [block_mode |-> 0, data_ex_cnt |-> 0, data_ex_noise |-> 1,
           data_ex_psd |-> 2, data_ex_inv |-> 0]

buf_check_start ==
  [block_mode |-> 0, data_ex_cnt |-> 0, data_ex_noise |-> 1,
   data_ex_psd |-> 2, data_ex_inv |-> 0,
   buf_cnt_ok |-> 0, buf_cnt_error |-> 0, word_cnt_error |-> 0,
   buf_current |-> 0, word_error |-> <<>>]

Init ==
  /\ test \in Tests /\ tx = Values /\ rx = buf_check_start
  /\ n = 0 /\ line = NoBlock /\ changed = <<>> /\ lost = 0 /\ behind = 0

-----------------------------------------------------------------------------
(* The sender *)
buf_set ==
  /\ line = NoBlock /\ n < MaxBlocks /\ test \notin {Psd, Inv}
  /\ LET s == Typed(tx)
     IN /\ line' = <<n>> \o [i \in 1 .. Size - 1 |-> Word(s, n, i)]
        /\ tx' = Advance(s)
  /\ n' = n + 1 /\ UNCHANGED <<test, rx, changed, lost, behind>>

(* pr_reg of cl_test0_v4, clock by clock over a block. *)
Generate ==
  /\ line = NoBlock /\ n < MaxBlocks /\ test \in {Psd, Inv}
  /\ LET run == IF test = Psd THEN Run(Noise, tx.data_ex_psd)
                ELSE Run(Johnson, tx.data_ex_inv)
     IN /\ line' = [i \in 1 .. Size |-> run[i - 1]]
        /\ tx' = IF test = Psd THEN [tx EXCEPT !.data_ex_psd = run[Size]]
                 ELSE [tx EXCEPT !.data_ex_inv = run[Size]]
  /\ n' = n + 1 /\ UNCHANGED <<test, rx, changed, lost, behind>>

(* The way *)
Damage(i, d) ==
  /\ line # NoBlock /\ Len(changed) + lost < MaxFaults
  /\ \A k \in DOMAIN changed : changed[k][1] = n - 1 => changed[k][2] < i
  /\ line' = [line EXCEPT ![i + 1] = IF i = 0 /\ test \notin {Psd, Inv} THEN @ + d
                                     ELSE (@ + d) % 2^W]
  /\ changed' = Append(changed, <<n - 1, i>>)
  /\ UNCHANGED <<test, tx, rx, n, lost, behind>>

Lose ==
  /\ line # NoBlock /\ Len(changed) + lost < MaxFaults
  /\ line' = NoBlock /\ lost' = lost + 1
  /\ UNCHANGED <<test, tx, rx, n, changed, behind>>

-----------------------------------------------------------------------------
(* The checker.  bad: the indices of the words that differ, in order.       *)
Report(s, bad) ==
  LET room == IF s.word_cnt_error < MaxErrors THEN MaxErrors - s.word_cnt_error ELSE 0
      new == [j \in 1 .. Len(bad) |-> <<s.buf_current, bad[j]>>]
  IN [s EXCEPT !.word_cnt_error = @ + Len(bad),
               !.word_error = @ \o SubSeq(new, 1, IF room < Len(new) THEN room ELSE Len(new)),
               !.buf_current = @ + 1,
               !.buf_cnt_ok = IF bad = <<>> THEN @ + 1 ELSE @,
               !.buf_cnt_error = IF bad = <<>> THEN @ ELSE @ + 1]

(* The numbers of B in order: the j-th has j - 1 before it.                 *)
InOrder(B) ==
  [j \in 1 .. Cardinality(B) |-> CHOOSE i \in B : Cardinality({k \in B : k < i}) = j - 1]

Checked(s, b) ==
  InOrder({i \in 0 .. Size - 1 : IF i = 0 THEN line[1] # b
                               ELSE s.block_mode < 10 /\ line[i + 1] # Word(s, b, i)})

Taken ==
  /\ line' = NoBlock /\ behind' = IF lost > 0 THEN behind + 1 ELSE behind
  /\ UNCHANGED <<test, tx, n, changed, lost>>

(* Mutant: a block with an error does not advance the running values. *)
buf_checkHeld ==
  /\ line # NoBlock /\ test \notin {Psd, Inv}
  /\ LET s == Typed(rx)
         bad == Checked(s, rx.buf_current)
     IN rx' = Report(IF bad = <<>> THEN Advance(s) ELSE [s EXCEPT !.block_mode = NextType(@)], bad)
  /\ Taken

(* n, the number expected, is the programs' BlockRd: one more each block.   *)
buf_check ==
  /\ line # NoBlock /\ test \notin {Psd, Inv}
  /\ LET s == Typed(rx) IN rx' = Report(Advance(s), Checked(s, rx.buf_current))
  /\ Taken

(* An error makes the word received the one to go on from.                  *)
buf_check_psd ==
  /\ line # NoBlock /\ test = Psd
  /\ LET ex[i \in 0 .. Size] == IF i = 0 THEN rx.data_ex_psd ELSE Noise[line[i]]
     IN rx' = Report([rx EXCEPT !.block_mode = NextType(@), !.data_ex_psd = ex[Size]],
                     InOrder({i \in 0 .. Size - 1 : ex[i] # line[i + 1]}))
  /\ Taken

buf_check_inv ==
  /\ line # NoBlock /\ test = Inv
  /\ LET run == Run(Johnson, rx.data_ex_inv)
     IN rx' = Report([rx EXCEPT !.block_mode = NextType(@), !.data_ex_inv = run[Size]],
                     InOrder({i \in 0 .. Size - 1 : run[i] # line[i + 1]}))
  /\ Taken

Next ==
  \/ buf_set \/ Generate \/ Lose
  \/ \E i \in 0 .. Size - 1, d \in Deltas : Damage(i, d)
  \/ buf_check \/ buf_check_psd \/ buf_check_inv

Spec == Init /\ [][Next]_vars

-----------------------------------------------------------------------------
(* Without a loss, buf_check and buf_check_inv report the words damaged on  *)
(* the way and no other, in order, as many as word_error holds: the ends    *)
(* stay in step for as long as the test runs, whatever was damaged before.  *)
(* buf_check_psd finds its step again: two errors for a damaged word, one   *)
(* for a lost block, are the most.  After a loss a fixed type 0 to 3 costs  *)
(* one error a block, its number.                                           *)
ReportsDamage ==
  LET seen == {k \in DOMAIN changed : /\ changed[k][1] < rx.buf_current
                                      /\ test \in 10 .. 15 => changed[k][2] = 0}
      most == IF MaxErrors < Cardinality(seen) THEN MaxErrors ELSE Cardinality(seen)
  IN /\ test # Psd /\ lost = 0 =>
          /\ rx.word_cnt_error = Cardinality(seen)
          /\ rx.word_error = [j \in 1 .. most |-> changed[InOrder(seen)[j]]]
          /\ rx.buf_cnt_error = Cardinality({changed[k][1] : k \in seen})
     /\ rx.buf_cnt_ok + rx.buf_cnt_error = rx.buf_current
     /\ test = Psd => rx.word_cnt_error <= 2 * Len(changed) + lost
     /\ test \in 0 .. 3 => rx.word_cnt_error <= Len(changed) + behind
===============================================================================
