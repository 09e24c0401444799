----------------------------- MODULE TestBuf_proof -----------------------------
(***************************************************************************)
(* TestBuf for blocks of any size, any number of blocks and faults.         *)
(***************************************************************************)
EXTENDS TestBuf, Integers, FiniteSetTheorems, FunctionTheorems, SequenceTheorems,
        WellFoundedInduction, TLAPS

-----------------------------------------------------------------------------
(* Words: what keeps a value a word, and what changes one.                  *)

LEMMA BitType ==
  ASSUME NEW x \in Nat, NEW i \in 0 .. W
  PROVE  Bit(x, i) \in {0, 1}
<1>1. 2^i \in Nat \ {0}
  BY TestBufAssumption
<1> DEFINE p == 2^i
<1>2. p \in Nat \ {0}
  BY <1>1
<1> HIDE DEF p
<1>3. x \div p \in Nat
  BY <1>2
<1> DEFINE q == x \div p
<1>4. q \in Nat
  BY <1>3
<1> HIDE DEF q
<1>5. q % 2 \in {0, 1}
  BY <1>4
<1> QED BY <1>5 DEF Bit, p, q

(* The next of a damaged word is another one.                               *)
LEMMA Moduli ==
  /\ 2^W \in Nat /\ 2^W > 1
  /\ \A x \in Words, in \in {0, 1} : Shift(x, in) \in Words
  /\ \A x \in Words : (x + 1) % 2^W \in Words /\ Not(x) \in Words
  /\ \A x \in Words, d \in 1 .. 2^W - 1 : (x + d) % 2^W \in Words /\ (x + d) % 2^W # x
  /\ 0 \in Words /\ 1 \in Words /\ 2 \in Words
<1> DEFINE m == 2^W
           h == 2^(W - 1)
<1>1. h \in Nat \ {0} /\ m = 2 * h /\ h > 1
  <2> DEFINE q == 2^((W - 1) - 1)
  <2>1. W \in 1 .. W /\ W - 1 \in 1 .. W /\ (W - 1) - 1 \in 0 .. W
    BY TestBufAssumption
  <2>2. q \in Nat \ {0} /\ h = 2 * q /\ m = 2 * h
    BY <2>1, TestBufAssumption
  <2> HIDE DEF q, h, m
  <2> QED BY <2>2
<1>2. Words = 0 .. m - 1
  BY DEF Words
<1>3. \A x : Not(x) = m - 1 - x
  BY DEF Not
<1>4. \A x, in : Shift(x, in) = ((2 * x) % m) + in
  BY DEF Shift
<1> HIDE DEF m, h
<1>5. m \in Nat /\ m > 1
  BY <1>1
<1>6. ASSUME NEW a \in Nat, a < m + m
      PROVE  /\ a < m => a % m = a
             /\ a >= m => a % m = a - m
             /\ a % m \in 0 .. m - 1
  BY <1>5, <1>6
<1>7. ASSUME NEW x \in Words, NEW in \in {0, 1} PROVE Shift(x, in) \in Words
  <2> DEFINE a == 2 * x
             r == a % m
  <2>1. a \in Nat /\ a < m + m
    BY <1>2, <1>5
  <2>2. a # m - 1 /\ a # m + m - 1
    BY <1>1, <1>2
  <2> HIDE DEF a
  <2>3. r \in 0 .. m - 1 /\ (a < m => r = a) /\ (a >= m => r = a - m)
    BY <2>1, <1>6
  <2>4. Shift(x, in) = r + in
    BY <1>4 DEF a
  <2> HIDE DEF r
  <2> QED BY <2>1, <2>2, <2>3, <2>4, <1>2, <1>5
<1>8. ASSUME NEW x \in Words PROVE (x + 1) % m \in Words /\ Not(x) \in Words
  <2> DEFINE a == x + 1
  <2>1. a \in Nat /\ a < m + m
    BY <1>2, <1>5
  <2>2. a % m \in 0 .. m - 1
    <3> HIDE DEF a
    <3> QED BY <2>1, <1>6
  <2> QED BY <2>2, <1>2, <1>3, <1>5
<1>9. ASSUME NEW x \in Words, NEW d \in 1 .. m - 1
      PROVE  (x + d) % m \in Words /\ (x + d) % m # x
  <2> DEFINE a == x + d
             r == a % m
  <2>1. a \in Nat /\ a < m + m /\ a # x /\ a # x + m
    BY <1>2, <1>5
  <2>2. r \in 0 .. m - 1 /\ (a < m => r = a) /\ (a >= m => r = a - m)
    <3> HIDE DEF a
    <3> QED BY <2>1, <1>6
  <2>3. x \in Int
    BY <1>2
  <2> HIDE DEF a, r
  <2>4. r \in Words /\ r # x
    BY <2>1, <2>2, <2>3, <1>2, <1>5
  <2> QED BY <2>4 DEF a, r
<1>10. 0 \in Words /\ 1 \in Words /\ 2 \in Words
  BY <1>1, <1>2
<1> QED BY <1>5, <1>7, <1>8, <1>9, <1>10 DEF m

LEMMA StepTypes ==
  /\ Rotate \in [Words -> Words] /\ Count \in [Words -> Words]
  /\ Noise \in [Words -> Words] /\ Johnson \in [Words -> Words]
<1>1. Words \subseteq Nat
  BY Moduli DEF Words
<1>2. ASSUME NEW x \in Words, NEW i \in {1, 2, 4, 5} PROVE Bit(x, W - i) \in {0, 1}
  <2>1. W - i \in 0 .. W /\ x \in Nat
    BY <1>1, TestBufAssumption
  <2> QED BY <2>1, BitType
<1>3. ASSUME NEW x \in Words
      PROVE  Shift(x, Bit(x, W - 1)) \in Words /\ Shift(x, 1 - Bit(x, W - 1)) \in Words
  BY <1>2, Moduli
<1>4. ASSUME NEW x \in Words
      PROVE  Shift(x, (Bit(x, W - 1) + Bit(x, W - 2) + Bit(x, W - 4) + Bit(x, W - 5)) % 2)
               \in Words
  <2>1. \A a \in Nat : a % 2 \in {0, 1}
    OBVIOUS
  <2>2. (Bit(x, W - 1) + Bit(x, W - 2) + Bit(x, W - 4) + Bit(x, W - 5)) % 2 \in {0, 1}
    BY <2>1, <1>2
  <2> QED BY <2>2, Moduli
<1> QED BY <1>3, <1>4, Moduli DEF Rotate, Count, Noise, Johnson

-----------------------------------------------------------------------------
(* Run: the function its recursive definition chooses exists.               *)

LEMMA Least ==
  ASSUME NEW T \in SUBSET Nat, T # {}
  PROVE  \E m \in T : \A k \in T : m <= k
<1> DEFINE R == OpToRel(<, Nat)
<1>1. PICK m \in T : \A k \in T : <<k, m>> \notin R
  <2> HIDE DEF R
  <2> QED BY NatLessThanWellFounded, WFMin DEF R
<1>2. \A k \in T : ~ (k < m)
  BY <1>1 DEF OpToRel
<1> QED BY <1>2

(* Its first value is x, and each of the others the step of the one before. *)
LEMMA RunValues ==
  ASSUME NEW S, NEW step \in [S -> S], NEW x \in S
  PROVE  /\ Run(step, x) \in [0 .. Size -> S]
         /\ Run(step, x)[0] = x
         /\ \A i \in 1 .. Size : Run(step, x)[i] = step[Run(step, x)[i - 1]]
<1> DEFINE Runs(m, g) == /\ g \in [0 .. m -> S] /\ g[0] = x
                         /\ \A i \in 1 .. m : g[i] = step[g[i - 1]]
           Bad == {m \in Nat : ~ \E g : Runs(m, g)}
<1>1. Runs(0, [i \in 0 .. 0 |-> x])
  OBVIOUS
<1>2. ASSUME NEW m \in Nat \ {0}, NEW g, Runs(m - 1, g)
      PROVE  \E h : Runs(m, h)
  <2> DEFINE h == [i \in 0 .. m |-> IF i = m THEN step[g[m - 1]] ELSE g[i]]
  <2>1. g[m - 1] \in S /\ step[g[m - 1]] \in S
    BY <1>2
  <2>2. h \in [0 .. m -> S]
    BY <1>2, <2>1
  <2>3. ASSUME NEW i \in 1 .. m PROVE h[i] = step[h[i - 1]]
    <3>1. CASE i = m
      BY <3>1
    <3>2. CASE i # m
      <4>1. i \in 1 .. m - 1 /\ i \in 0 .. m /\ i - 1 \in 0 .. m /\ i - 1 # m
        BY <3>2
      <4> QED BY <4>1, <3>2, <1>2
    <3> QED BY <3>1, <3>2
  <2>4. h[0] = x
    BY <1>2
  <2>5. Runs(m, h)
    BY <2>2, <2>3, <2>4
  <2> HIDE DEF h
  <2> QED BY <2>5
<1>3. ASSUME Bad # {} PROVE FALSE
  <2>1. PICK m \in Bad : \A k \in Bad : m <= k
    <3>1. Bad \in SUBSET Nat
      OBVIOUS
    <3> HIDE DEF Bad
    <3> QED BY <3>1, <1>3, Least
  <2>2. m \in Nat /\ ~ \E g : Runs(m, g)
    OBVIOUS
  <2>3. m # 0
    <3> HIDE DEF Runs
    <3> QED BY <2>2, <1>1
  <2>4. m - 1 \in Nat /\ m - 1 \notin Bad
    <3>1. m - 1 \in Nat /\ ~ (m <= m - 1)
      BY <2>2, <2>3
    <3> HIDE DEF Bad
    <3> QED BY <3>1, <2>1
  <2>5. PICK g : Runs(m - 1, g)
    <3> HIDE DEF Runs
    <3> QED BY <2>4
  <2> HIDE DEF Runs
  <2> QED BY <2>2, <2>3, <2>5, <1>2
<1>4. PICK g : Runs(Size, g)
  <2>1. Size \in Nat
    BY TestBufAssumption
  <2> HIDE DEF Runs
  <2> QED BY <2>1, <1>3
<1>5. g = [i \in 0 .. Size |-> IF i = 0 THEN x ELSE step[g[i - 1]]]
  <2> DEFINE h == [i \in 0 .. Size |-> IF i = 0 THEN x ELSE step[g[i - 1]]]
  <2>1. Size \in Nat
    BY TestBufAssumption
  <2>2. ASSUME NEW i \in 0 .. Size PROVE g[i] = h[i]
    <3>1. CASE i = 0
      BY <3>1, <1>4
    <3>2. CASE i # 0
      <4>1. i \in 1 .. Size
        BY <3>2, <2>1
      <4> QED BY <4>1, <3>2, <1>4
    <3> QED BY <3>1, <3>2
  <2>3. g = [i \in 0 .. Size |-> g[i]] /\ h = [i \in 0 .. Size |-> h[i]]
    BY <1>4
  <2> HIDE DEF h
  <2>4. g = h
    BY <2>2, <2>3
  <2> QED BY <2>4 DEF h
<1>6. Run(step, x) = [i \in 0 .. Size |-> IF i = 0 THEN x ELSE step[Run(step, x)[i - 1]]]
  BY <1>5 DEF Run
<1> DEFINE r == Run(step, x)
<1> HIDE DEF r
<1>7. r = [i \in 0 .. Size |-> IF i = 0 THEN x ELSE step[r[i - 1]]]
  BY <1>6 DEF r
<1>8. Size \in Nat
  BY TestBufAssumption
<1>9. ASSUME NEW i \in 1 .. Size PROVE r[i] = step[r[i - 1]]
  BY <1>7, <1>8
<1>10. r[0] = x
  BY <1>7, <1>8
<1>11. \A i \in 0 .. Size : r[i] \in S
  <2> DEFINE T == {i \in 0 .. Size : r[i] \notin S}
  <2>1. ASSUME T # {} PROVE FALSE
    <3>1. PICK i \in T : \A k \in T : i <= k
      <4>1. T \in SUBSET Nat
        BY <1>8
      <4> HIDE DEF T
      <4> QED BY <4>1, <2>1, Least
    <3>2. i \in 1 .. Size
      BY <1>8, <1>10
    <3>3. i - 1 \notin T /\ i - 1 \in 0 .. Size
      <4>1. ~ (i <= i - 1) /\ i - 1 \in 0 .. Size
        BY <3>2, <1>8
      <4> HIDE DEF T
      <4> QED BY <4>1, <3>1
    <3>4. step[r[i - 1]] \in S
      BY <3>3
    <3> QED BY <3>2, <3>4, <1>9
  <2> QED BY <2>1
<1>12. r = [i \in 0 .. Size |-> r[i]]
  BY <1>7
<1>13. r \in [0 .. Size -> S]
  BY <1>11, <1>12
<1> QED BY <1>9, <1>10, <1>13 DEF r

-----------------------------------------------------------------------------
(* InOrder: the numbers of a finite set, each once, in increasing order.    *)

Below(K, i) == {k \in K : k < i}

LEMMA Ranks ==
  ASSUME NEW K \in SUBSET Int, IsFiniteSet(K)
  PROVE  /\ Cardinality(K) \in Nat
         /\ \A i \in K : Cardinality(Below(K, i)) \in 0 .. Cardinality(K) - 1
         /\ \A i, j \in K : i < j => Cardinality(Below(K, i)) < Cardinality(Below(K, j))
         /\ \A r \in 1 .. Cardinality(K) : \E i \in K : Cardinality(Below(K, i)) = r - 1
<1> DEFINE c == Cardinality(K)
<1>1. c \in Nat
  BY FS_CardinalityType
<1>2. ASSUME NEW T \in SUBSET K PROVE IsFiniteSet(T) /\ Cardinality(T) \in Nat
  BY FS_Subset, FS_CardinalityType
<1>3. ASSUME NEW i \in K PROVE Cardinality(Below(K, i)) \in 0 .. c - 1
  <2>1. Below(K, i) \in SUBSET K /\ i \notin Below(K, i) /\ Below(K, i) # K
    BY DEF Below
  <2>2. Cardinality(Below(K, i)) <= c /\ Cardinality(Below(K, i)) # c
    BY <2>1, FS_Subset
  <2> HIDE DEF c
  <2> QED BY <2>1, <2>2, <1>1, <1>2
<1>4. ASSUME NEW i \in K, NEW j \in K, i < j
      PROVE  Cardinality(Below(K, i)) < Cardinality(Below(K, j))
  <2>1. Below(K, i) \in SUBSET Below(K, j) /\ Below(K, j) \in SUBSET K
    <3>1. i \in Int /\ j \in Int /\ \A k \in K : k \in Int
      OBVIOUS
    <3>2. \A k \in K : k < i => k < j
      BY <3>1, <1>4
    <3> QED BY <3>2 DEF Below
  <2>2. i \in Below(K, j) /\ i \notin Below(K, i)
    BY <1>4 DEF Below
  <2>3. IsFiniteSet(Below(K, j))
    BY <2>1, <1>2
  <2>4. Cardinality(Below(K, i)) <= Cardinality(Below(K, j))
        /\ Cardinality(Below(K, j)) # Cardinality(Below(K, i))
    BY <2>1, <2>2, <2>3, FS_Subset
  <2>5. Below(K, i) \in SUBSET K
    BY <2>1
  <2> QED BY <2>1, <2>4, <2>5, <1>2
<1>5. ASSUME NEW r \in 1 .. c PROVE \E i \in K : Cardinality(Below(K, i)) = r - 1
  <2> DEFINE f == [i \in K |-> Cardinality(Below(K, i)) + 1]
             rank(i) == Cardinality(Below(K, i))
  <2>1. ASSUME NEW i \in K PROVE rank(i) \in 0 .. c - 1
    BY <1>3
  <2>2. ASSUME NEW i \in K, NEW j \in K, i < j PROVE rank(i) < rank(j)
    BY <2>2, <1>4
  <2>3. f = [i \in K |-> rank(i) + 1]
    OBVIOUS
  <2> HIDE DEF c, f, rank
  <2>4. \A i \in K : rank(i) + 1 \in 1 .. c
    BY <2>1, <1>1
  <2>5. f \in [K -> 1 .. c]
    BY <2>3, <2>4
  <2>6. ASSUME NEW i \in K, NEW j \in K, f[i] = f[j] PROVE i = j
    <3>1. rank(i) = rank(j)
      BY <2>1, <2>3, <2>6, <1>1
    <3>2. ~ (i < j) /\ ~ (j < i)
      BY <3>1, <2>1, <2>2, <1>1
    <3> QED BY <3>2
  <2>7. f \in Injection(K, 1 .. c)
    BY <2>5, <2>6 DEF Injection, IsInjective
  <2>8. IsFiniteSet(1 .. c) /\ Cardinality(1 .. c) = c
    BY <1>1, FS_Interval
  <2>9. f \in Surjection(K, 1 .. c)
    BY <2>7, <2>8, FS_Injection DEF c
  <2>10. PICK i \in K : f[i] = r
    BY <2>9 DEF Surjection
  <2>11. rank(i) = r - 1
    BY <2>10, <2>3, <2>1, <1>1
  <2> QED BY <2>11 DEF rank
<1> QED BY <1>1, <1>3, <1>4, <1>5

LEMMA InOrderValues ==
  ASSUME NEW K \in SUBSET Int, IsFiniteSet(K)
  PROVE  /\ InOrder(K) \in [1 .. Cardinality(K) -> K]
         /\ \A j \in 1 .. Cardinality(K) : Cardinality(Below(K, InOrder(K)[j])) = j - 1
         /\ \A j, l \in 1 .. Cardinality(K) : j < l => InOrder(K)[j] < InOrder(K)[l]
<1> DEFINE f == InOrder(K)
           c == Cardinality(K)
           rank(i) == Cardinality(Below(K, i))
<1>1. f = [j \in 1 .. c |-> CHOOSE i \in K : rank(i) = j - 1]
  BY DEF InOrder, Below
<1>2. c \in Nat /\ \A r \in 1 .. c : \E i \in K : rank(i) = r - 1
  BY Ranks
<1>3. \A i, j \in K : i < j => rank(i) < rank(j)
  BY Ranks
<1> HIDE DEF f, c, rank
<1>4. \A j \in 1 .. c : f[j] \in K /\ rank(f[j]) = j - 1
  BY <1>1, <1>2
<1>5. f \in [1 .. c -> K]
  BY <1>1, <1>4
<1>6. ASSUME NEW j \in 1 .. c, NEW l \in 1 .. c, j < l PROVE f[j] < f[l]
  <2>1. rank(f[j]) = j - 1 /\ rank(f[l]) = l - 1 /\ f[j] \in K /\ f[l] \in K
    BY <1>4
  <2>2. ~ (rank(f[l]) < rank(f[j])) /\ rank(f[l]) # rank(f[j])
    BY <2>1, <1>6, <1>2
  <2>3. ~ (f[l] < f[j]) /\ f[l] # f[j]
    BY <2>1, <2>2, <1>3
  <2>4. f[l] \in Int /\ f[j] \in Int
    BY <2>1
  <2> QED BY <2>3, <2>4
<1> QED BY <1>4, <1>5, <1>6 DEF f, c, rank

(* An increasing function from 1 .. Cardinality(K) to K is InOrder(K).      *)
LEMMA IncreasingIsInOrder ==
  ASSUME NEW K \in SUBSET Int, IsFiniteSet(K),
         NEW g \in [1 .. Cardinality(K) -> K],
         \A j, l \in 1 .. Cardinality(K) : j < l => g[j] < g[l]
  PROVE  g = InOrder(K)
<1> DEFINE c == Cardinality(K)
           rank(i) == Cardinality(Below(K, i))
           f == InOrder(K)
<1>1. c \in Nat /\ \A i, j \in K : i < j => rank(i) < rank(j)
  BY Ranks
<1>2. f \in [1 .. c -> K] /\ \A j \in 1 .. c : rank(f[j]) = j - 1
  BY InOrderValues
<1>3. g \in [1 .. c -> K] /\ \A j, l \in 1 .. c : j < l => g[j] < g[l]
  OBVIOUS
<1>4. \A k \in K : \E l \in 1 .. c : g[l] = k
  <2>1. IsFiniteSet(1 .. c) /\ Cardinality(1 .. c) = c
    <3> HIDE DEF c
    <3> QED BY <1>1, FS_Interval
  <2>2. ASSUME NEW j \in 1 .. c, NEW l \in 1 .. c, g[j] = g[l] PROVE j = l
    <3>1. g[j] \in K /\ g[j] \in Int
      BY <1>3
    <3>2. ~ (g[j] < g[l]) /\ ~ (g[l] < g[j])
      BY <3>1, <2>2
    <3> HIDE DEF c
    <3>3. ~ (j < l) /\ ~ (l < j)
      BY <3>2, <1>3
    <3> QED BY <3>3, <1>1
  <2>3. g \in Injection(1 .. c, K)
    BY <2>2, <1>3 DEF Injection, IsInjective
  <2>4. g \in Surjection(1 .. c, K)
    BY <2>1, <2>3, FS_Injection
  <2> QED BY <2>4 DEF Surjection
<1> HIDE DEF c, f, rank
<1>5. ASSUME NEW j \in 1 .. c PROVE rank(g[j]) = j - 1
  <2> DEFINE P == {g[l] : l \in 1 .. j - 1}
             h == [l \in 1 .. j - 1 |-> g[l]]
  <2>1. \A l \in 1 .. j - 1 : l \in 1 .. c /\ l < j
    BY <1>1
  <2>2. ASSUME NEW k \in Below(K, g[j]) PROVE k \in P
    <3>1. PICK l \in 1 .. c : g[l] = k
      BY <1>4 DEF Below
    <3>2. k < g[j] /\ k \in Int /\ g[j] \in Int
      BY <1>3 DEF Below
    <3>3. ~ (j < l) /\ j # l
      BY <3>1, <3>2, <1>3
    <3>4. l \in 1 .. j - 1
      BY <3>3, <1>1
    <3> QED BY <3>1, <3>4
  <2>3. ASSUME NEW k \in P PROVE k \in Below(K, g[j])
    BY <2>1, <1>3 DEF Below
  <2>4. P = Below(K, g[j])
    <3> HIDE DEF P
    <3> QED BY <2>2, <2>3
  <2>5. ASSUME NEW l \in 1 .. j - 1, NEW m \in 1 .. j - 1, h[l] = h[m] PROVE l = m
    <3>1. g[l] = g[m] /\ g[l] \in Int
      BY <2>1, <2>5, <1>3
    <3>2. ~ (l < m) /\ ~ (m < l)
      BY <3>1, <2>1, <1>3
    <3> QED BY <3>2, <1>1
  <2>6. h \in Bijection(1 .. j - 1, P)
    <3>1. h \in [1 .. j - 1 -> P] /\ \A k \in P : \E l \in 1 .. j - 1 : h[l] = k
      OBVIOUS
    <3> HIDE DEF h, P
    <3> QED BY <3>1, <2>5 DEF Bijection, Injection, IsInjective, Surjection
  <2>7. IsFiniteSet(1 .. j - 1) /\ Cardinality(1 .. j - 1) = j - 1
    BY <1>1, FS_Interval
  <2>8. Cardinality(P) = j - 1
    <3> HIDE DEF h, P
    <3> QED BY <2>6, <2>7, FS_Bijection DEF ExistsBijection
  <2> QED BY <2>4, <2>8 DEF rank
<1>6. ASSUME NEW j \in 1 .. c PROVE g[j] = f[j]
  <2>1. g[j] \in K /\ f[j] \in K
    BY <1>2, <1>3
  <2>2. rank(g[j]) = j - 1 /\ rank(f[j]) = j - 1
    BY <1>2, <1>5
  <2>3. ~ (rank(g[j]) < rank(f[j])) /\ ~ (rank(f[j]) < rank(g[j]))
    BY <2>2, <1>1
  <2>4. ~ (g[j] < f[j]) /\ ~ (f[j] < g[j])
    BY <2>1, <2>3, <1>1
  <2>5. g[j] \in Int /\ f[j] \in Int
    BY <2>1
  <2> QED BY <2>4, <2>5
<1>7. g = f
  <2>1. g = [j \in 1 .. c |-> g[j]]
    BY <1>3
  <2>2. f = [j \in 1 .. c |-> f[j]]
    BY <1>2
  <2> QED BY <2>1, <2>2, <1>6
<1> QED BY <1>7 DEF f

(* The numbers of two sets, one before the other.                           *)
LEMMA InOrderUnion ==
  ASSUME NEW K \in SUBSET Int, IsFiniteSet(K), NEW L \in SUBSET Int, IsFiniteSet(L),
         \A k \in K, l \in L : k < l
  PROVE  /\ IsFiniteSet(K \cup L)
         /\ Cardinality(K) \in Nat /\ Cardinality(L) \in Nat
         /\ Cardinality(K \cup L) = Cardinality(K) + Cardinality(L)
         /\ \A j \in 1 .. Cardinality(K) : InOrder(K \cup L)[j] = InOrder(K)[j]
         /\ \A j \in 1 .. Cardinality(L) :
              InOrder(K \cup L)[Cardinality(K) + j] = InOrder(L)[j]
<1> DEFINE a == Cardinality(K)
           b == Cardinality(L)
           f == InOrder(K)
           g == InOrder(L)
           U == K \cup L
           h == [j \in 1 .. a + b |-> IF j <= a THEN f[j] ELSE g[j - a]]
<1>1. a \in Nat /\ b \in Nat
  BY FS_CardinalityType
<1>2. IsFiniteSet(U) /\ Cardinality(U) = a + b /\ U \in SUBSET Int
  <2>1. K \cap L = {}
    <3>1. \A k \in K : k \in Int /\ ~ (k < k)
      OBVIOUS
    <3> QED BY <3>1
  <2>2. IsFiniteSet(U) /\ Cardinality(U) = a + b - Cardinality({})
    BY <2>1, FS_Union
  <2> QED BY <2>2, <1>1, FS_EmptySet
<1>3. f \in [1 .. a -> K] /\ \A j, l \in 1 .. a : j < l => f[j] < f[l]
  BY InOrderValues
<1>4. g \in [1 .. b -> L] /\ \A j, l \in 1 .. b : j < l => g[j] < g[l]
  BY InOrderValues
<1> HIDE DEF a, b, f, g
<1>5. \A j \in 1 .. a + b : IF j <= a THEN j \in 1 .. a ELSE j - a \in 1 .. b
  BY <1>1
<1>6. h \in [1 .. a + b -> U]
  BY <1>3, <1>4, <1>5
<1>7. ASSUME NEW j \in 1 .. a + b, NEW l \in 1 .. a + b, j < l PROVE h[j] < h[l]
  <2>1. CASE l <= a
    <3>1. j \in 1 .. a /\ l \in 1 .. a /\ j <= a
      BY <2>1, <1>7, <1>1
    <3> QED BY <3>1, <2>1, <1>3, <1>7
  <2>2. CASE j <= a /\ ~ (l <= a)
    <3>1. f[j] \in K /\ g[l - a] \in L
      BY <2>2, <1>3, <1>4, <1>5
    <3> QED BY <2>2, <3>1
  <2>3. CASE ~ (j <= a)
    <3>1. j - a \in 1 .. b /\ l - a \in 1 .. b /\ j - a < l - a /\ ~ (l <= a)
      BY <2>3, <1>1, <1>7
    <3> QED BY <3>1, <2>3, <1>4
  <2> QED BY <2>1, <2>2, <2>3
<1>8. h = InOrder(U)
  <2> HIDE DEF h, U
  <2> QED BY <1>1, <1>2, <1>6, <1>7, IncreasingIsInOrder
<1>9. \A j \in 1 .. a : h[j] = f[j]
  BY <1>1
<1>10. \A j \in 1 .. b : h[a + j] = g[j]
  <2>1. ASSUME NEW j \in 1 .. b PROVE h[a + j] = g[j]
    <3>1. a + j \in 1 .. a + b /\ ~ (a + j <= a) /\ (a + j) - a = j
      BY <1>1
    <3> QED BY <3>1
  <2> QED BY <2>1
<1> QED BY <1>1, <1>2, <1>8, <1>9, <1>10 DEF a, b, f, g

(* The numbers of a set, carried over to another in their order.            *)
LEMMA InOrderImage ==
  ASSUME NEW L \in SUBSET Int, IsFiniteSet(L), NEW B \in SUBSET Int, NEW f \in [L -> B],
         \A k, l \in L : k < l => f[k] < f[l],
         \A i \in B : \E k \in L : f[k] = i
  PROVE  /\ IsFiniteSet(B) /\ Cardinality(B) = Cardinality(L)
         /\ \A j \in 1 .. Cardinality(L) : InOrder(B)[j] = f[InOrder(L)[j]]
<1> DEFINE c == Cardinality(L)
           g == InOrder(L)
           h == [j \in 1 .. c |-> f[g[j]]]
<1>1. c \in Nat
  BY FS_CardinalityType
<1>2. ASSUME NEW k \in L, NEW l \in L, f[k] = f[l] PROVE k = l
  <2>1. k \in Int /\ l \in Int /\ f[k] \in Int
    OBVIOUS
  <2>2. ~ (f[k] < f[l]) /\ ~ (f[l] < f[k])
    BY <2>1, <1>2
  <2>3. ~ (k < l) /\ ~ (l < k)
    BY <2>2
  <2> QED BY <2>1, <2>3
<1>3. f \in Bijection(L, B)
  BY <1>2 DEF Bijection, Injection, IsInjective, Surjection
<1>4. IsFiniteSet(B) /\ Cardinality(B) = c
  BY <1>3, FS_Bijection DEF ExistsBijection
<1>5. g \in [1 .. c -> L] /\ \A j, l \in 1 .. c : j < l => g[j] < g[l]
  BY InOrderValues
<1> HIDE DEF c, g
<1>6. h \in [1 .. c -> B] /\ \A j, l \in 1 .. c : j < l => h[j] < h[l]
  BY <1>5
<1>7. h = InOrder(B)
  <2> HIDE DEF h
  <2> QED BY <1>4, <1>6, IncreasingIsInOrder
<1> QED BY <1>4, <1>7 DEF c, g

-----------------------------------------------------------------------------
(* What is sent: the block of number b made from the values s, by index, and *)
(* the values it leaves.                                                    *)

Value == [block_mode : Nat, data_ex_cnt : Words, data_ex_noise : Words,
          data_ex_psd : Words, data_ex_inv : Words]

Sent(s, b) ==
  [i \in 0 .. Size - 1 |->
     IF test = Psd THEN Run(Noise, s.data_ex_psd)[i]
     ELSE IF test = Inv THEN Run(Johnson, s.data_ex_inv)[i]
     ELSE IF i = 0 THEN b ELSE Word(Typed(s), b, i)]

After(s) ==
  IF test = Psd THEN [s EXCEPT !.data_ex_psd = Run(Noise, s.data_ex_psd)[Size]]
  ELSE IF test = Inv THEN [s EXCEPT !.data_ex_inv = Run(Johnson, s.data_ex_inv)[Size]]
  ELSE Advance(Typed(s))

LEMMA Runs ==
  ASSUME NEW x \in Words, NEW i \in 0 .. Size
  PROVE  /\ Run(Rotate, x)[i] \in Words /\ Run(Count, x)[i] \in Words
         /\ Run(Noise, x)[i] \in Words /\ Run(Johnson, x)[i] \in Words
<1>1. ASSUME NEW step \in [Words -> Words] PROVE Run(step, x)[i] \in Words
  <2>1. Run(step, x) \in [0 .. Size -> Words]
    BY RunValues
  <2> QED BY <2>1
<1> QED BY <1>1, StepTypes

(* A word depends on the type and on the two running values only.           *)
LEMMA WordOf ==
  ASSUME NEW s, NEW r, NEW b, NEW i, s.block_mode = r.block_mode,
         s.data_ex_cnt = r.data_ex_cnt, s.data_ex_noise = r.data_ex_noise
  PROVE  Word(s, b, i) = Word(r, b, i)
BY DEF Word

(* The words of types 0 to 3 are the same in every block.                   *)
LEMMA FixedWord ==
  ASSUME NEW s, NEW r, NEW b, NEW d, NEW i,
         s.block_mode = r.block_mode, s.block_mode \in 0 .. 3
  PROVE  Word(s, b, i) = Word(r, d, i)
<1>1. CASE s.block_mode \in {0, 1}
  BY <1>1 DEF Word
<1>2. CASE s.block_mode \in {2, 3}
  <2>1. s.block_mode \notin {0, 1}
    BY <1>2
  <2> QED BY <2>1, <1>2 DEF Word
<1> QED BY <1>1, <1>2

LEMMA WordType ==
  ASSUME NEW s, s.data_ex_cnt \in Words, s.data_ex_noise \in Words, NEW b,
         NEW i \in 1 .. Size - 1
  PROVE  Word(s, b, i) \in Words
<1> DEFINE k == s.block_mode
           marks == {j \in 1 .. i - 1 : Flagged(b, j)}
<1>1. Size \in Nat /\ i \in 0 .. Size /\ i - 1 \in 0 .. Size /\ i \div 2 \in 0 .. Size
  BY TestBufAssumption
<1>2. Cardinality(marks) \in 0 .. Size
  <2>1. IsFiniteSet(1 .. i - 1) /\ Cardinality(1 .. i - 1) = i - 1
    BY <1>1, FS_Interval
  <2>2. IsFiniteSet(marks) /\ Cardinality(marks) <= i - 1
    BY <2>1, FS_Subset
  <2>3. Cardinality(marks) \in Nat
    BY <2>2, FS_CardinalityType
  <2> HIDE DEF marks
  <2> QED BY <2>2, <2>3, <1>1
<1>3. Start(k) \in Words
  BY Moduli DEF Start
<1>4. ASSUME NEW step \in {Rotate, Count}, NEW x \in Words
      PROVE  Paired(Run(step, x), i) \in Words
  <2>1. Run(step, x)[i \div 2] \in Words
    BY <1>1, Runs
  <2> QED BY <2>1, Moduli DEF Paired
<1>5. ASSUME NEW step \in {Rotate, Noise}, NEW x \in Words, NEW j \in 0 .. Size
      PROVE  Run(step, x)[j] \in Words
  BY Runs
<1>6. 0 \in Words /\ Not(0) \in Words
  BY Moduli
<1>7. Word(s, b, i) =
        CASE k \in {0, 1} -> Run(Rotate, Start(k))[i - 1]
          [] k \in {2, 3} -> Paired(Run(Rotate, Start(k)), i)
          [] k \in {4, 5} -> IF Flagged(b, i) THEN Run(Rotate, Start(k))[Cardinality(marks)]
                             ELSE IF k = 4 THEN 0 ELSE Not(0)
          [] k \in {6, 7} -> Paired(Run(Count, s.data_ex_cnt), i)
          [] k \in {8, 9} -> Run(Noise, s.data_ex_noise)[i - 1]
          [] OTHER -> 0
  BY DEF Word
<1> DEFINE m == Cardinality(marks)
<1> HIDE DEF m, k, marks
<1>8. m \in 0 .. Size
  BY <1>2 DEF m
<1>9. Run(Rotate, Start(k))[i - 1] \in Words /\ Run(Rotate, Start(k))[m] \in Words
      /\ Run(Noise, s.data_ex_noise)[i - 1] \in Words
  BY <1>1, <1>3, <1>5, <1>8
<1>10. Paired(Run(Rotate, Start(k)), i) \in Words /\ Paired(Run(Count, s.data_ex_cnt), i) \in Words
  BY <1>3, <1>4
<1> QED BY <1>6, <1>7, <1>9, <1>10 DEF m

-----------------------------------------------------------------------------
(* The inductive invariant.                                                 *)

Checker == [block_mode : Nat, data_ex_cnt : Words, data_ex_noise : Words,
            data_ex_psd : Words, data_ex_inv : Words,
            buf_cnt_ok : Nat, buf_cnt_error : Nat, word_cnt_error : Nat,
            buf_current : Nat, word_error : Seq(Nat \X Nat)]

TypeOK ==
  /\ test \in Tests /\ tx \in Value /\ rx \in Checker
  /\ n \in Nat /\ lost \in Nat /\ behind \in Nat
  /\ changed \in Seq(Nat \X (0 .. Size - 1))
  /\ line # NoBlock => line \in [1 .. Size -> IF test \in {Psd, Inv} THEN Words ELSE Nat]

(* The types in turn are those that have data.                              *)
InTurnHasData == test = InTurn => rx.block_mode \in 0 .. 9

(* The damaged words were changed in the order they are sent in.            *)
Chronological ==
  /\ \A k \in DOMAIN changed : changed[k][1] < n
  /\ \A k, l \in DOMAIN changed : k < l =>
       \/ changed[k][1] < changed[l][1]
       \/ changed[k][1] = changed[l][1] /\ changed[k][2] < changed[l][2]

(* A block under way was sent.                                              *)
Sends == line # NoBlock => n # 0

(* A block is counted once, and under its own number unless one was lost.   *)
Counted ==
  /\ rx.buf_cnt_ok + rx.buf_cnt_error = rx.buf_current
  /\ lost = 0 => n = rx.buf_current + IF line = NoBlock THEN 0 ELSE 1

(* The damaged words of the blocks before block b that buf_check compares.  *)
Compared(b) == {k \in DOMAIN changed : /\ changed[k][1] < b
                                       /\ test \in 10 .. 15 => changed[k][2] = 0}

Least2(a, b) == IF a < b THEN a ELSE b

Reported ==
  lost = 0 /\ test # Psd =>
    LET seen == Compared(rx.buf_current)
    IN /\ rx.word_cnt_error = Cardinality(seen)
       /\ rx.word_error = [j \in 1 .. Least2(MaxErrors, Cardinality(seen)) |-> changed[InOrder(seen)[j]]]
       /\ rx.buf_cnt_error = Cardinality({changed[k][1] : k \in seen})

InStep(s) ==
  /\ rx.data_ex_cnt = s.data_ex_cnt /\ rx.data_ex_noise = s.data_ex_noise
  /\ rx.data_ex_inv = s.data_ex_inv
  /\ test # Inv => rx.block_mode = s.block_mode

(* Where the checker is when the next block it gets starts from s and d of  *)
(* its words are damaged: the errors reported so far are for the others.    *)
Follows(s, d) ==
  /\ lost = 0 /\ test # Psd => InStep(s)
  /\ test = Psd => rx.word_cnt_error + (IF rx.data_ex_psd = s.data_ex_psd THEN 0 ELSE 1)
                     <= 2 * (Len(changed) - d) + lost
  /\ test \in 0 .. 3 => rx.word_cnt_error <= Len(changed) - d + behind

(* The damaged words of the block under way.                                *)
Damaged == {changed[k][2] : k \in {l \in DOMAIN changed : changed[l][1] = n - 1}}

(* The block under way is the one made from s, but for the damaged words.   *)
Carries(s) ==
  /\ tx = After(s)
  /\ \A i \in 0 .. Size - 1 : line[i + 1] = Sent(s, n - 1)[i] <=> i \notin Damaged

Idle == line = NoBlock => Follows(tx, 0)
UnderWay == line # NoBlock => \E s \in Value : Carries(s) /\ Follows(s, Cardinality(Damaged))

IInv == /\ TypeOK /\ InTurnHasData /\ Chronological /\ Sends /\ Counted /\ Reported
        /\ Idle /\ UnderWay

-----------------------------------------------------------------------------
(* Fields of the records.                                                   *)

LEMMA Kinds == Psd # Inv /\ Psd \notin 0 .. 15 /\ Inv \notin 0 .. 15 /\ InTurn \notin 0 .. 15
               /\ Psd # InTurn /\ Inv # InTurn /\ Psd \in Nat /\ Inv \in Nat /\ InTurn \in Nat
BY DEF Psd, Inv, InTurn

LEMMA NextTypes ==
  ASSUME NEW k \in Nat
  PROVE  NextType(k) \in Nat /\ (k \in 0 .. 9 => NextType(k) \in 0 .. 9)
BY DEF NextType

LEMMA TypedValue ==
  ASSUME NEW s \in Value \cup Checker, test \in Nat
  PROVE  /\ s \in Value => Typed(s) \in Value
         /\ s \in Checker => Typed(s) \in Checker
         /\ Typed(s).block_mode = IF test \in 0 .. 15 THEN test ELSE s.block_mode
         /\ Typed(s).data_ex_cnt = s.data_ex_cnt /\ Typed(s).data_ex_noise = s.data_ex_noise
         /\ Typed(s).data_ex_psd = s.data_ex_psd /\ Typed(s).data_ex_inv = s.data_ex_inv
         /\ s \in Checker =>
              /\ Typed(s).buf_cnt_ok = s.buf_cnt_ok /\ Typed(s).buf_cnt_error = s.buf_cnt_error
              /\ Typed(s).word_cnt_error = s.word_cnt_error
              /\ Typed(s).buf_current = s.buf_current /\ Typed(s).word_error = s.word_error
BY DEF Typed, Value, Checker

(* What Advance makes of the two running values.                            *)
NextCnt(s) == IF s.block_mode \in {6, 7} THEN Run(Count, s.data_ex_cnt)[Size \div 2] ELSE s.data_ex_cnt
NextNoise(s) == IF s.block_mode \in {8, 9} THEN Run(Noise, s.data_ex_noise)[Size - 1] ELSE s.data_ex_noise

LEMMA NextValues ==
  ASSUME NEW s, s.data_ex_cnt \in Words, s.data_ex_noise \in Words
  PROVE  NextCnt(s) \in Words /\ NextNoise(s) \in Words
<1>1. Size \div 2 \in 0 .. Size /\ Size - 1 \in 0 .. Size
  BY TestBufAssumption
<1> QED BY <1>1, Runs DEF NextCnt, NextNoise

LEMMA AdvanceIs ==
  ASSUME NEW s
  PROVE  Advance(s) = [s EXCEPT !.block_mode = NextType(@), !.data_ex_cnt = NextCnt(s),
                                !.data_ex_noise = NextNoise(s)]
BY DEF Advance, NextCnt, NextNoise

LEMMA AdvanceValue ==
  ASSUME NEW s \in Value \cup Checker
  PROVE  /\ s \in Value => Advance(s) \in Value
         /\ s \in Checker => Advance(s) \in Checker
         /\ Advance(s).block_mode = NextType(s.block_mode)
         /\ Advance(s).data_ex_cnt = NextCnt(s)
         /\ Advance(s).data_ex_noise = NextNoise(s)
         /\ Advance(s).data_ex_psd = s.data_ex_psd /\ Advance(s).data_ex_inv = s.data_ex_inv
         /\ s \in Checker =>
              /\ Advance(s).buf_cnt_ok = s.buf_cnt_ok /\ Advance(s).buf_cnt_error = s.buf_cnt_error
              /\ Advance(s).word_cnt_error = s.word_cnt_error
              /\ Advance(s).buf_current = s.buf_current /\ Advance(s).word_error = s.word_error
<1>1. s.block_mode \in Nat /\ s.data_ex_cnt \in Words /\ s.data_ex_noise \in Words
  BY DEF Value, Checker
<1>2. NextType(s.block_mode) \in Nat /\ NextCnt(s) \in Words /\ NextNoise(s) \in Words
  BY <1>1, NextTypes, NextValues
<1> DEFINE k == NextType(s.block_mode)
           c == NextCnt(s)
           e == NextNoise(s)
           a == Advance(s)
<1>3. a = [s EXCEPT !.block_mode = k, !.data_ex_cnt = c, !.data_ex_noise = e]
  BY AdvanceIs
<1> HIDE DEF k, c, e, a
<1>4. /\ s \in Value => a \in Value
      /\ s \in Checker => a \in Checker
      /\ a.block_mode = k /\ a.data_ex_cnt = c /\ a.data_ex_noise = e
      /\ a.data_ex_psd = s.data_ex_psd /\ a.data_ex_inv = s.data_ex_inv
      /\ s \in Checker =>
              /\ a.buf_cnt_ok = s.buf_cnt_ok /\ a.buf_cnt_error = s.buf_cnt_error
              /\ a.word_cnt_error = s.word_cnt_error
              /\ a.buf_current = s.buf_current /\ a.word_error = s.word_error
  BY <1>2, <1>3 DEF Value, Checker, k, c, e
<1> QED BY <1>4 DEF k, c, e, a

LEMMA SentType ==
  ASSUME NEW s \in Value, NEW b \in Nat, test \in Nat
  PROVE  /\ \A i \in 0 .. Size - 1 : Sent(s, b)[i] \in Nat
         /\ \A i \in 0 .. Size - 1 :
              i # 0 \/ test \in {Psd, Inv} => Sent(s, b)[i] \in Words
         /\ After(s) \in Value
<1>1. s.data_ex_cnt \in Words /\ s.data_ex_noise \in Words
      /\ s.data_ex_psd \in Words /\ s.data_ex_inv \in Words
  BY DEF Value
<1>2. Words \subseteq Nat
  BY Moduli DEF Words
<1>3. Size \in Nat /\ \A i \in 0 .. Size - 1 : i \in 0 .. Size
  BY TestBufAssumption
<1>4. \A i \in 0 .. Size : Run(Noise, s.data_ex_psd)[i] \in Words
                           /\ Run(Johnson, s.data_ex_inv)[i] \in Words
  BY <1>1, Runs
<1>5. ASSUME NEW i \in 1 .. Size - 1 PROVE Word(Typed(s), b, i) \in Words
  <2>1. Typed(s).data_ex_cnt \in Words /\ Typed(s).data_ex_noise \in Words
    BY <1>1, TypedValue
  <2> QED BY <2>1, WordType
<1>6. ASSUME NEW i \in 0 .. Size - 1
      PROVE  /\ Sent(s, b)[i] \in Nat
             /\ i # 0 \/ test \in {Psd, Inv} => Sent(s, b)[i] \in Words
  <2>1. Sent(s, b)[i] = IF test = Psd THEN Run(Noise, s.data_ex_psd)[i]
                        ELSE IF test = Inv THEN Run(Johnson, s.data_ex_inv)[i]
                        ELSE IF i = 0 THEN b ELSE Word(Typed(s), b, i)
    BY DEF Sent
  <2>2. i # 0 => i \in 1 .. Size - 1
    BY <1>3
  <2>3. i # 0 => Word(Typed(s), b, i) \in Words
    BY <2>2, <1>5
  <2>4. Run(Noise, s.data_ex_psd)[i] \in Words /\ Run(Johnson, s.data_ex_inv)[i] \in Words
    BY <1>3, <1>4
  <2> QED BY <2>1, <2>3, <2>4, <1>2
<1>7. After(s) \in Value
  <2>1. Size \in 0 .. Size
    BY <1>3
  <2>2. [s EXCEPT !.data_ex_psd = Run(Noise, s.data_ex_psd)[Size]] \in Value
        /\ [s EXCEPT !.data_ex_inv = Run(Johnson, s.data_ex_inv)[Size]] \in Value
    <3>1. ASSUME NEW e \in Words
          PROVE  [s EXCEPT !.data_ex_psd = e] \in Value /\ [s EXCEPT !.data_ex_inv = e] \in Value
      BY DEF Value
    <3> QED BY <3>1, <2>1, <1>4
  <2>3. Advance(Typed(s)) \in Value
    BY TypedValue, AdvanceValue
  <2> QED BY <2>2, <2>3 DEF After
<1> QED BY <1>6, <1>7

-----------------------------------------------------------------------------
(* What a report adds.                                                      *)

Room(r) == IF r.word_cnt_error < MaxErrors THEN MaxErrors - r.word_cnt_error ELSE 0

Kept(r, B) == [j \in 1 .. Least2(Room(r), Cardinality(B)) |-> <<r.buf_current, InOrder(B)[j]>>]

LEMMA InOrderSeq ==
  ASSUME NEW B \in SUBSET (0 .. Size - 1)
  PROVE  /\ IsFiniteSet(B) /\ Cardinality(B) \in Nat
         /\ InOrder(B) \in Seq(Nat) /\ Len(InOrder(B)) = Cardinality(B)
         /\ \A j \in 1 .. Cardinality(B) : InOrder(B)[j] \in B
         /\ InOrder(B) = <<>> <=> B = {}
<1>1. IsFiniteSet(B)
  <2>1. Size - 1 \in Int
    BY TestBufAssumption
  <2>2. IsFiniteSet(0 .. Size - 1)
    BY <2>1, FS_Interval
  <2> QED BY <2>2, FS_Subset
<1> DEFINE c == Cardinality(B)
           f == InOrder(B)
<1>2. c \in Nat
  BY <1>1, FS_CardinalityType
<1>3. B \in SUBSET Int /\ B \subseteq Nat
  BY TestBufAssumption
<1>4. f \in [1 .. c -> B]
  BY <1>1, <1>3, InOrderValues
<1>5. c = 0 <=> B = {}
  BY <1>1, FS_EmptySet
<1> HIDE DEF c, f
<1>6. f \in Seq(Nat) /\ Len(f) = c
  <2>1. f \in [1 .. c -> Nat]
    BY <1>3, <1>4
  <2> QED BY <2>1, <1>2
<1>7. f = <<>> <=> B = {}
  BY <1>5, <1>6
<1>8. \A j \in 1 .. c : f[j] \in B
  BY <1>4
<1> QED BY <1>1, <1>2, <1>6, <1>7, <1>8 DEF c, f

LEMMA ReportIs ==
  ASSUME NEW r \in Checker, NEW B \in SUBSET (0 .. Size - 1), NEW w, w = Report(r, InOrder(B))
  PROVE  /\ w \in Checker
         /\ w.block_mode = r.block_mode
         /\ w.data_ex_cnt = r.data_ex_cnt /\ w.data_ex_noise = r.data_ex_noise
         /\ w.data_ex_psd = r.data_ex_psd /\ w.data_ex_inv = r.data_ex_inv
         /\ w.word_cnt_error = r.word_cnt_error + Cardinality(B)
         /\ w.word_error = r.word_error \o Kept(r, B)
         /\ w.buf_current = r.buf_current + 1
         /\ w.buf_cnt_ok = r.buf_cnt_ok + (IF B = {} THEN 1 ELSE 0)
         /\ w.buf_cnt_error = r.buf_cnt_error + (IF B = {} THEN 0 ELSE 1)
<1> DEFINE f == InOrder(B)
           c == Cardinality(B)
           new == [j \in 1 .. Len(f) |-> <<r.buf_current, f[j]>>]
           last == IF Room(r) < Len(new) THEN Room(r) ELSE Len(new)
           kept == SubSeq(new, 1, last)
<1>1. c \in Nat /\ f \in Seq(Nat) /\ Len(f) = c /\ (f = <<>> <=> B = {})
      /\ \A j \in 1 .. c : f[j] \in Nat
  <2>1. \A j \in 1 .. c : f[j] \in B
    BY InOrderSeq
  <2>2. B \subseteq Nat
    BY TestBufAssumption
  <2> QED BY <2>1, <2>2, InOrderSeq
<1>2. r.buf_current \in Nat /\ r.word_cnt_error \in Nat /\ r.word_error \in Seq(Nat \X Nat)
      /\ r.buf_cnt_ok \in Nat /\ r.buf_cnt_error \in Nat
  BY DEF Checker
<1>3. Room(r) \in Nat
  BY <1>2, TestBufAssumption DEF Room
<1>4. w = [r EXCEPT !.word_cnt_error = @ + Len(f), !.word_error = @ \o kept,
                    !.buf_current = @ + 1,
                    !.buf_cnt_ok = IF f = <<>> THEN @ + 1 ELSE @,
                    !.buf_cnt_error = IF f = <<>> THEN @ ELSE @ + 1]
  BY DEF Report, Room
<1>5. kept = Kept(r, B) /\ kept \in Seq(Nat \X Nat)
  <2> DEFINE m == Least2(Room(r), c)
             q == Room(r)
             e == r.buf_current
  <2>1. Kept(r, B) = [j \in 1 .. m |-> <<e, f[j]>>]
    BY DEF Kept
  <2> HIDE DEF f, c, m, q, e
  <2>2. new = [j \in 1 .. c |-> <<e, f[j]>>] /\ Len(new) = c
    BY <1>1 DEF e
  <2>3. new \in Seq(Nat \X Nat)
    <3>1. \A j \in 1 .. c : <<e, f[j]>> \in Nat \X Nat
      BY <1>1, <1>2 DEF e
    <3> HIDE DEF new
    <3> QED BY <3>1, <2>2, <1>1
  <2>4. m \in 0 .. c /\ last = m
    <3> HIDE DEF new
    <3> QED BY <2>2, <1>1, <1>3 DEF Least2, m, q
  <2>5. SubSeq(new, 1, m) \in Seq(Nat \X Nat) /\ SubSeq(new, 1, m) = [j \in 1 .. m |-> new[j]]
    <3> DEFINE t == [j \in 1 .. m |-> new[j]]
               x == SubSeq(new, 1, m)
    <3> HIDE DEF new
    <3>1. m \in Nat /\ m <= Len(new)
      BY <2>2, <2>4, <1>1
    <3>2. \A j \in 1 .. m : new[j] \in Nat \X Nat
      BY <2>3, <3>1
    <3>3. t \in Seq(Nat \X Nat) /\ Len(t) = m /\ \A j \in 1 .. m : t[j] = new[j]
      BY <3>1, <3>2
    <3>4. 1 \in Int /\ m \in Int /\ m - 1 + 1 = m /\ (1 <= m => m - 1 + 1 = m)
      BY <3>1
    <3>5. x \in Seq(Nat \X Nat) /\ Len(x) = (IF 1 <= m THEN m - 1 + 1 ELSE 0)
          /\ \A j \in 1 .. m - 1 + 1 : x[j] = new[1 + j - 1]
      BY <3>2, <3>4, SubSeqProperties
    <3> HIDE DEF x, t
    <3>6. Len(x) = m
      BY <3>1, <3>5
    <3>7. ASSUME NEW j \in 1 .. m PROVE x[j] = new[j]
      <4>1. 1 + j - 1 = j /\ j \in 1 .. m - 1 + 1
        BY <3>1
      <4> QED BY <4>1, <3>5
    <3>8. x = t
      BY <3>3, <3>5, <3>6, <3>7, SeqEqual
    <3> QED BY <3>5, <3>8 DEF x, t
  <2>6. [j \in 1 .. m |-> new[j]] = [j \in 1 .. m |-> <<e, f[j]>>]
    <3>1. \A j \in 1 .. m : j \in 1 .. c
      BY <2>4, <1>1
    <3> QED BY <3>1, <2>2
  <2> HIDE DEF new, last
  <2> QED BY <2>1, <2>4, <2>5, <2>6
<1> HIDE DEF f, c, kept
<1>6. r.word_error \o kept \in Seq(Nat \X Nat)
  BY <1>2, <1>5
<1> DEFINE g == r.word_error \o kept
           x == r.word_cnt_error + c
           b == r.buf_current + 1
           y == IF f = <<>> THEN r.buf_cnt_ok + 1 ELSE r.buf_cnt_ok
           z == IF f = <<>> THEN r.buf_cnt_error ELSE r.buf_cnt_error + 1
<1>7. g \in Seq(Nat \X Nat) /\ x \in Nat /\ b \in Nat /\ y \in Nat /\ z \in Nat
  BY SMTT(30), <1>1, <1>2, <1>6
<1>8. w = [r EXCEPT !.word_cnt_error = x, !.word_error = g, !.buf_current = b,
                    !.buf_cnt_ok = y, !.buf_cnt_error = z]
  BY <1>1, <1>4
<1>9. y = r.buf_cnt_ok + (IF B = {} THEN 1 ELSE 0)
      /\ z = r.buf_cnt_error + (IF B = {} THEN 0 ELSE 1)
  BY <1>1, <1>2
<1> HIDE DEF new, last, g, x, b, y, z
<1>10. r = [block_mode |-> r.block_mode, data_ex_cnt |-> r.data_ex_cnt,
            data_ex_noise |-> r.data_ex_noise, data_ex_psd |-> r.data_ex_psd,
            data_ex_inv |-> r.data_ex_inv, buf_cnt_ok |-> r.buf_cnt_ok,
            buf_cnt_error |-> r.buf_cnt_error, word_cnt_error |-> r.word_cnt_error,
            buf_current |-> r.buf_current, word_error |-> r.word_error]
  BY DEF Checker
<1>11. /\ r.block_mode \in Nat /\ r.data_ex_cnt \in Words /\ r.data_ex_noise \in Words
       /\ r.data_ex_psd \in Words /\ r.data_ex_inv \in Words
  BY DEF Checker
<1>12. w = [block_mode |-> r.block_mode, data_ex_cnt |-> r.data_ex_cnt,
            data_ex_noise |-> r.data_ex_noise, data_ex_psd |-> r.data_ex_psd,
            data_ex_inv |-> r.data_ex_inv, buf_cnt_ok |-> y,
            buf_cnt_error |-> z, word_cnt_error |-> x,
            buf_current |-> b, word_error |-> g]
  BY <1>8, <1>10
<1>13. w \in Checker
  BY <1>7, <1>11, <1>12 DEF Checker
<1>14. /\ w.block_mode = r.block_mode
       /\ w.data_ex_cnt = r.data_ex_cnt /\ w.data_ex_noise = r.data_ex_noise
       /\ w.data_ex_psd = r.data_ex_psd /\ w.data_ex_inv = r.data_ex_inv
       /\ w.word_cnt_error = x /\ w.word_error = g /\ w.buf_current = b
       /\ w.buf_cnt_ok = y /\ w.buf_cnt_error = z
  BY <1>12
<1> QED BY <1>5, <1>9, <1>13, <1>14 DEF c, g, x, b

-----------------------------------------------------------------------------
(* The damaged words that one more block adds to those compared.            *)

New(b) == {k \in DOMAIN changed : /\ changed[k][1] = b
                                  /\ test \in 10 .. 15 => changed[k][2] = 0}

NewWords(b) == {changed[k][2] : k \in New(b)}

Blocks(K) == {changed[k][1] : k \in K}

LEMMA Positions ==
  ASSUME changed \in Seq(Nat \X (0 .. Size - 1))
  PROVE  /\ IsFiniteSet(DOMAIN changed) /\ DOMAIN changed \subseteq Nat
         /\ Cardinality(DOMAIN changed) = Len(changed) /\ Len(changed) \in Nat
         /\ \A k \in DOMAIN changed :
              /\ changed[k][1] \in Nat /\ changed[k][2] \in 0 .. Size - 1 /\ changed[k][2] \in Nat
              /\ changed[k] = <<changed[k][1], changed[k][2]>>
<1>1. DOMAIN changed = 1 .. Len(changed) /\ Len(changed) \in Nat
  OBVIOUS
<1>2. IsFiniteSet(1 .. Len(changed)) /\ Cardinality(1 .. Len(changed)) = Len(changed)
  <2> DEFINE m == Len(changed)
  <2>1. m \in Nat
    BY <1>1
  <2> HIDE DEF m
  <2>2. IsFiniteSet(1 .. m) /\ Cardinality(1 .. m) = m
    BY <2>1, FS_Interval
  <2> QED BY <2>2 DEF m
<1>3. ASSUME NEW k \in DOMAIN changed
      PROVE  /\ changed[k][1] \in Nat /\ changed[k][2] \in 0 .. Size - 1 /\ changed[k][2] \in Nat
             /\ changed[k] = <<changed[k][1], changed[k][2]>>
  <2>1. changed[k] \in Nat \X (0 .. Size - 1)
    OBVIOUS
  <2>2. Size \in Nat
    BY TestBufAssumption
  <2> QED BY <2>1, <2>2
<1> QED BY <1>1, <1>2, <1>3

LEMMA ComparedNext ==
  ASSUME TypeOK, Chronological, NEW b \in Nat
  PROVE  /\ IsFiniteSet(Compared(b)) /\ IsFiniteSet(New(b))
         /\ Compared(b) \in SUBSET Int /\ New(b) \in SUBSET Int
         /\ Compared(b + 1) = Compared(b) \cup New(b)
         /\ \A k \in Compared(b), l \in New(b) : k < l
         /\ IsFiniteSet(Blocks(Compared(b)))
         /\ Cardinality(Blocks(Compared(b + 1)))
              = Cardinality(Blocks(Compared(b))) + (IF NewWords(b) = {} THEN 0 ELSE 1)
<1> DEFINE K == Compared(b)
           L == New(b)
<1>1. changed \in Seq(Nat \X (0 .. Size - 1))
  BY DEF TypeOK
<1>2. K \in SUBSET (DOMAIN changed) /\ L \in SUBSET (DOMAIN changed)
  BY DEF Compared, New
<1>3. IsFiniteSet(K) /\ IsFiniteSet(L) /\ K \in SUBSET Int /\ L \in SUBSET Int
  BY <1>1, <1>2, Positions, FS_Subset
<1>4. Compared(b + 1) = K \cup L
  <2>1. \A k \in DOMAIN changed : changed[k][1] < b + 1 <=> changed[k][1] < b \/ changed[k][1] = b
    BY <1>1, Positions
  <2> QED BY <2>1 DEF Compared, New
<1>5. ASSUME NEW k \in K, NEW l \in L PROVE k < l
  <2>1. changed[k][1] < b /\ changed[l][1] = b
    BY DEF Compared, New
  <2>2. k \in DOMAIN changed /\ l \in DOMAIN changed
    BY <1>2
  <2>3. changed[k][1] \in Nat /\ changed[l][1] \in Nat /\ k \in Int /\ l \in Int
    BY <2>2, <1>1, Positions
  <2>4. ~ (l < k) /\ l # k
    BY <2>1, <2>2, <2>3 DEF Chronological
  <2> QED BY <2>3, <2>4
<1>6. IsFiniteSet(Blocks(K)) /\ Cardinality(Blocks(K)) \in Nat
  <2>1. Blocks(K) \subseteq Nat /\ \A i \in Blocks(K) : i <= b
    <3>1. \A k \in K : changed[k][1] \in Nat /\ changed[k][1] < b
      BY <1>1, Positions DEF Compared
    <3> HIDE DEF K
    <3> QED BY <3>1 DEF Blocks
  <2> HIDE DEF K
  <2> QED BY <2>1, FS_BoundedSetOfNaturals, FS_CardinalityType
<1>7. b \notin Blocks(K)
  <2>1. \A k \in K : changed[k][1] # b
    BY <1>1, Positions DEF Compared
  <2> HIDE DEF K
  <2> QED BY <2>1 DEF Blocks
<1>8. \A l \in L : changed[l][1] = b
  BY DEF New
<1> HIDE DEF K, L
<1>9. CASE L = {}
  <2>1. NewWords(b) = {}
    BY <1>9 DEF NewWords, L
  <2>2. Compared(b + 1) = K
    BY <1>4, <1>9
  <2> QED BY <2>1, <2>2, <1>3, <1>4, <1>5, <1>6 DEF K, L
<1>10. CASE L # {}
  <2>1. NewWords(b) # {}
    BY <1>10 DEF NewWords, L
  <2>2. Blocks(K \cup L) = Blocks(K) \cup {b}
    BY <1>8, <1>10 DEF Blocks
  <2>3. Cardinality(Blocks(K \cup L)) = Cardinality(Blocks(K)) + 1
    BY <2>2, <1>6, <1>7, FS_AddElement
  <2> QED BY <2>1, <2>3, <1>3, <1>4, <1>5, <1>6 DEF K, L
<1> QED BY <1>9, <1>10

(* Their numbers in order are those of the damaged words.                   *)
LEMMA NewInOrder ==
  ASSUME TypeOK, Chronological, NEW b \in Nat
  PROVE  /\ NewWords(b) \in SUBSET (0 .. Size - 1)
         /\ Cardinality(NewWords(b)) = Cardinality(New(b))
         /\ \A j \in 1 .. Cardinality(New(b)) :
              changed[InOrder(New(b))[j]] = <<b, InOrder(NewWords(b))[j]>>
<1> DEFINE L == New(b)
           B == NewWords(b)
           f == [k \in L |-> changed[k][2]]
<1>1. changed \in Seq(Nat \X (0 .. Size - 1))
  BY DEF TypeOK
<1>2. ASSUME NEW k \in L
      PROVE  k \in DOMAIN changed /\ changed[k][2] \in 0 .. Size - 1 /\ changed[k][2] \in Nat
             /\ changed[k] = <<b, changed[k][2]>>
  <2>1. k \in DOMAIN changed /\ changed[k][1] = b
    BY DEF New
  <2> QED BY <2>1, <1>1, Positions
<1>3. IsFiniteSet(L) /\ L \in SUBSET Int
  BY ComparedNext
<1>4. B = {changed[k][2] : k \in L}
  BY DEF NewWords
<1>5. ASSUME NEW k \in L, NEW l \in L, k < l PROVE changed[k][2] < changed[l][2]
  <2>1. changed[k][1] = b /\ changed[l][1] = b
    BY DEF New
  <2>2. k \in DOMAIN changed /\ l \in DOMAIN changed
    BY <1>2
  <2> QED BY <2>1, <2>2, <1>5 DEF Chronological
<1> HIDE DEF L, B
<1>6. B \in SUBSET (0 .. Size - 1) /\ B \in SUBSET Int
  <2>1. \A i \in B : i \in 0 .. Size - 1 /\ i \in Int
    BY <1>2, <1>4
  <2> QED BY <2>1
<1>7. f \in [L -> B] /\ \A k, l \in L : k < l => f[k] < f[l]
  BY <1>4, <1>5
<1>8. \A i \in B : \E k \in L : f[k] = i
  BY <1>4
<1>9. Cardinality(B) = Cardinality(L)
      /\ \A j \in 1 .. Cardinality(L) : InOrder(B)[j] = f[InOrder(L)[j]]
  <2> HIDE DEF f
  <2> QED BY <1>3, <1>6, <1>7, <1>8, InOrderImage
<1>10. \A j \in 1 .. Cardinality(L) : InOrder(L)[j] \in L
  BY <1>3, InOrderValues
<1> QED BY <1>2, <1>6, <1>9, <1>10 DEF L, B

(* The list that held the first damaged words holds them after the block.   *)
LEMMA ReportedNext ==
  ASSUME TypeOK, Chronological, NEW r \in Checker,
         r.word_cnt_error = Cardinality(Compared(r.buf_current)),
         r.word_error = [j \in 1 .. Least2(MaxErrors, Cardinality(Compared(r.buf_current))) |->
                           changed[InOrder(Compared(r.buf_current))[j]]]
  PROVE  LET next == Compared(r.buf_current + 1)
             B == NewWords(r.buf_current)
         IN /\ r.word_cnt_error + Cardinality(B) = Cardinality(next)
            /\ r.word_error \o Kept(r, B)
                 = [j \in 1 .. Least2(MaxErrors, Cardinality(next)) |-> changed[InOrder(next)[j]]]
<1> DEFINE b == r.buf_current
           seen == Compared(b)
           next == Compared(b + 1)
           B == NewWords(b)
           a == Cardinality(seen)
           c == Cardinality(B)
           p == Least2(MaxErrors, a)
           q == Least2(Room(r), c)
           t == Least2(MaxErrors, a + c)
           f == InOrder(seen)
           g == InOrder(next)
           h == InOrder(B)
<1>1. b \in Nat /\ r.word_cnt_error = a /\ r.word_error = [j \in 1 .. p |-> changed[f[j]]]
      /\ r.word_error \in Seq(Nat \X Nat)
  BY DEF Checker
<1>2. /\ IsFiniteSet(seen) /\ IsFiniteSet(New(b))
      /\ seen \in SUBSET Int /\ New(b) \in SUBSET Int
      /\ next = seen \cup New(b)
      /\ \A k \in seen, l \in New(b) : k < l
  <2> HIDE DEF b
  <2> QED BY <1>1, ComparedNext
<1>3. /\ B \in SUBSET (0 .. Size - 1) /\ c = Cardinality(New(b))
      /\ \A j \in 1 .. c : changed[InOrder(New(b))[j]] = <<b, h[j]>>
  <2> HIDE DEF b
  <2> QED BY <1>1, NewInOrder
<1>4. /\ IsFiniteSet(next) /\ a \in Nat /\ c \in Nat /\ Cardinality(next) = a + c
      /\ \A j \in 1 .. a : g[j] = f[j]
      /\ \A j \in 1 .. c : g[a + j] = InOrder(New(b))[j]
  <2> DEFINE L == New(b)
  <2>1. /\ IsFiniteSet(seen) /\ IsFiniteSet(L) /\ seen \in SUBSET Int /\ L \in SUBSET Int
        /\ next = seen \cup L /\ c = Cardinality(L) /\ \A k \in seen, l \in L : k < l
    <3> HIDE DEF b, B, seen, next
    <3> QED BY <1>2, <1>3
  <2> HIDE DEF L, B, seen, next, c
  <2>2. /\ IsFiniteSet(seen \cup L) /\ a \in Nat /\ Cardinality(L) \in Nat
        /\ Cardinality(seen \cup L) = a + Cardinality(L)
        /\ \A j \in 1 .. a : InOrder(seen \cup L)[j] = f[j]
        /\ \A j \in 1 .. Cardinality(L) : InOrder(seen \cup L)[a + j] = InOrder(L)[j]
    BY <2>1, InOrderUnion
  <2> QED BY <2>1, <2>2 DEF L
<1>5. \A j \in 1 .. c : changed[g[a + j]] = <<b, h[j]>>
  <2> HIDE DEF a, b, c, g, h
  <2> QED BY <1>3, <1>4
<1>6. \A j \in 1 .. a + c : changed[g[j]] \in Nat \X Nat
  <2>1. next \in SUBSET Int /\ next \in SUBSET (DOMAIN changed)
    <3>1. next \in SUBSET (DOMAIN changed)
      BY DEF Compared
    <3>2. next \in SUBSET Int
      <4> HIDE DEF b, seen, next
      <4> QED BY <1>2
    <3> QED BY <3>1, <3>2
  <2>2. \A k \in DOMAIN changed : changed[k] \in Nat \X Nat
    BY TestBufAssumption, Positions DEF TypeOK
  <2>3. \A j \in 1 .. a + c : g[j] \in next
    <3> HIDE DEF b, seen, next, a, c
    <3> QED BY <2>1, <1>4, InOrderValues DEF a, c
  <2> HIDE DEF b, seen, next, a, c, g
  <2> QED BY <2>1, <2>2, <2>3
<1>7. Kept(r, B) = [j \in 1 .. q |-> <<b, h[j]>>]
  BY DEF Kept
<1>8. \A j \in 1 .. c : h[j] \in Nat
  <2>1. \A j \in 1 .. c : h[j] \in B
    <3> HIDE DEF B
    <3> QED BY <1>3, InOrderSeq
  <2>2. B \subseteq Nat
    <3> HIDE DEF B
    <3> QED BY <1>3, TestBufAssumption
  <2> HIDE DEF B, c, h
  <2> QED BY <2>1, <2>2
<1>9. /\ p \in Nat /\ q \in Nat /\ t \in Nat /\ p + q = t /\ p <= a /\ q <= c
      /\ t <= a + c /\ (q > 0 => p = a)
  <2> DEFINE o == Room(r)
  <2>1. o = IF a < MaxErrors THEN MaxErrors - a ELSE 0
    BY <1>1 DEF Room
  <2>2. MaxErrors \in Nat
    BY TestBufAssumption
  <2> HIDE DEF a, c, o
  <2> QED BY <2>1, <2>2, <1>4 DEF Least2, o
<1> DEFINE x == r.word_error
           y == Kept(r, B)
           z == [j \in 1 .. t |-> changed[g[j]]]
<1>10. y = [j \in 1 .. q |-> <<b, h[j]>>] /\ x = [j \in 1 .. p |-> changed[f[j]]]
       /\ x \in Seq(Nat \X Nat)
  BY <1>1, <1>7
<1> HIDE DEF b, seen, next, B, a, c, p, q, t, f, g, h, x, y
<1>11. y \in Seq(Nat \X Nat) /\ Len(y) = q
  <2>1. \A j \in 1 .. q : <<b, h[j]>> \in Nat \X Nat
    BY <1>1, <1>8, <1>9, <1>4
  <2> QED BY <2>1, <1>9, <1>10
<1>12. Len(x) = p
  BY <1>9, <1>10
<1>13. z \in Seq(Nat \X Nat) /\ Len(z) = t /\ \A j \in 1 .. t : z[j] = changed[g[j]]
  <2>1. \A j \in 1 .. t : changed[g[j]] \in Nat \X Nat
    BY <1>4, <1>6, <1>9
  <2> QED BY <2>1, <1>9
<1>14. /\ x \o y \in Seq(Nat \X Nat) /\ Len(x \o y) = p + q
       /\ \A j \in 1 .. p + q : (x \o y)[j] = IF j <= p THEN x[j] ELSE y[j - p]
  <2>1. /\ x \o y \in Seq(Nat \X Nat) /\ Len(x \o y) = Len(x) + Len(y)
        /\ \A j \in 1 .. Len(x) + Len(y) :
             (x \o y)[j] = IF j <= Len(x) THEN x[j] ELSE y[j - Len(x)]
    <3>1. x \in Seq(Nat \X Nat) /\ y \in Seq(Nat \X Nat)
      BY <1>10, <1>11
    <3> HIDE DEF z
    <3> QED BY <3>1, ConcatProperties
  <2> HIDE DEF z
  <2> QED BY <2>1, <1>11, <1>12
<1> HIDE DEF z
<1>15. ASSUME NEW j \in 1 .. p + q PROVE (x \o y)[j] = z[j]
  <2>1. z[j] = changed[g[j]] /\ j \in Nat
    BY <1>9, <1>13
  <2>2. CASE j <= p
    <3>1. j \in 1 .. p /\ j \in 1 .. a
      BY <2>1, <2>2, <1>4, <1>9
    <3>2. x[j] = changed[f[j]] /\ g[j] = f[j]
      BY <3>1, <1>4, <1>10
    <3> QED BY <3>2, <2>1, <2>2, <1>14
  <2>3. CASE ~ (j <= p)
    <3>1. j - p \in 1 .. q /\ j - p \in 1 .. c /\ p = a /\ j = a + (j - p)
      BY <2>1, <2>3, <1>4, <1>9
    <3>2. y[j - p] = <<b, h[j - p]>>
      BY <3>1, <1>10
    <3>3. changed[g[a + (j - p)]] = <<b, h[j - p]>>
      BY <3>1, <1>5
    <3> QED BY <3>1, <3>2, <3>3, <2>1, <2>3, <1>14
  <2> QED BY <2>2, <2>3
<1>16. x \o y = z
  BY <1>9, <1>13, <1>14, <1>15, SeqEqual
<1> QED BY <1>1, <1>4, <1>16 DEF b, next, B, c, t, g, x, y, z

-----------------------------------------------------------------------------
(* What the three checks have in common: r is the checker's record with the *)
(* values gone on, B the words found wrong.                                 *)

SameCounts(r) ==
  /\ r.buf_cnt_ok = rx.buf_cnt_ok /\ r.buf_cnt_error = rx.buf_cnt_error
  /\ r.word_cnt_error = rx.word_cnt_error
  /\ r.buf_current = rx.buf_current /\ r.word_error = rx.word_error

CheckStep(r, B) ==
  /\ line # NoBlock /\ Taken /\ rx' = Report(r, InOrder(B))
  /\ r \in Checker /\ B \in SUBSET (0 .. Size - 1) /\ SameCounts(r)
  /\ test = InTurn => r.block_mode \in 0 .. 9
  /\ lost = 0 /\ test # Psd =>
       /\ B = NewWords(rx.buf_current)
       /\ r.data_ex_cnt = tx.data_ex_cnt /\ r.data_ex_noise = tx.data_ex_noise
       /\ r.data_ex_inv = tx.data_ex_inv
       /\ test # Inv => r.block_mode = tx.block_mode
  /\ test = Psd => rx.word_cnt_error + Cardinality(B)
                     + (IF r.data_ex_psd = tx.data_ex_psd THEN 0 ELSE 1)
                   <= 2 * Len(changed) + lost
  /\ test \in 0 .. 3 => rx.word_cnt_error + Cardinality(B)
                        <= Len(changed) + (IF lost > 0 THEN behind + 1 ELSE behind)

LEMMA CheckKeeps ==
  ASSUME IInv, NEW r, NEW B, CheckStep(r, B)
  PROVE  IInv'
<1> DEFINE b == rx.buf_current
           w == Report(r, InOrder(B))
<1>1. /\ line # NoBlock /\ line' = NoBlock
      /\ behind' = (IF lost > 0 THEN behind + 1 ELSE behind)
      /\ test' = test /\ tx' = tx /\ n' = n /\ changed' = changed /\ lost' = lost
  BY DEF CheckStep, Taken
<1>2. rx' = w /\ r \in Checker /\ B \in SUBSET (0 .. Size - 1) /\ SameCounts(r)
  BY DEF CheckStep
<1>3. /\ w \in Checker
      /\ w.block_mode = r.block_mode
      /\ w.data_ex_cnt = r.data_ex_cnt /\ w.data_ex_noise = r.data_ex_noise
      /\ w.data_ex_psd = r.data_ex_psd /\ w.data_ex_inv = r.data_ex_inv
      /\ w.word_cnt_error = r.word_cnt_error + Cardinality(B)
      /\ w.word_error = r.word_error \o Kept(r, B)
      /\ w.buf_current = r.buf_current + 1
      /\ w.buf_cnt_ok = r.buf_cnt_ok + (IF B = {} THEN 1 ELSE 0)
      /\ w.buf_cnt_error = r.buf_cnt_error + (IF B = {} THEN 0 ELSE 1)
  BY <1>2, ReportIs
<1> HIDE DEF w
<1>4. b \in Nat /\ lost \in Nat /\ behind \in Nat /\ n \in Nat
      /\ rx.buf_cnt_ok \in Nat /\ rx.buf_cnt_error \in Nat /\ rx.word_cnt_error \in Nat
  BY DEF IInv, TypeOK, Checker
<1>5. TypeOK'
  <2>1. behind' \in Nat
    BY <1>1, <1>4
  <2> QED BY <2>1, <1>1, <1>2, <1>3 DEF IInv, TypeOK
<1>6. InTurnHasData'
  BY <1>1, <1>2, <1>3 DEF CheckStep, InTurnHasData
<1>7. Chronological'
  BY <1>1 DEF IInv, Chronological
<1>8. w.buf_current = b + 1
  BY <1>2, <1>3 DEF SameCounts
<1>9. Counted'
  <2>1. rx.buf_cnt_ok + rx.buf_cnt_error = b /\ (lost = 0 => n = b + 1)
    BY <1>1 DEF IInv, Counted
  <2>2. w.buf_cnt_ok + w.buf_cnt_error = b + 1
    <3>1. w.buf_cnt_ok = rx.buf_cnt_ok + (IF B = {} THEN 1 ELSE 0)
          /\ w.buf_cnt_error = rx.buf_cnt_error + (IF B = {} THEN 0 ELSE 1)
      BY <1>2, <1>3 DEF SameCounts
    <3> HIDE DEF b
    <3> QED BY <3>1, <2>1, <1>4
  <2>3. lost = 0 => n = b + 1 + 0
    BY <2>1, <1>4
  <2> HIDE DEF b
  <2> QED BY <2>2, <2>3, <1>1, <1>2, <1>8 DEF Counted
<1>10. Reported'
  <2>1. SUFFICES ASSUME lost = 0, test # Psd PROVE Reported'
    BY <1>1 DEF Reported
  <2> DEFINE seen == Compared(b)
             next == Compared(b + 1)
  <2>2. /\ rx.word_cnt_error = Cardinality(seen)
        /\ rx.word_error = [j \in 1 .. Least2(MaxErrors, Cardinality(seen)) |-> changed[InOrder(seen)[j]]]
        /\ rx.buf_cnt_error = Cardinality(Blocks(seen))
    BY <2>1 DEF IInv, Reported, Blocks
  <2>3. B = NewWords(b)
    BY <2>1 DEF CheckStep
  <2>4. r.buf_current = b /\ r.word_cnt_error = rx.word_cnt_error /\ r.word_error = rx.word_error
        /\ r.buf_cnt_error = rx.buf_cnt_error
    BY <1>2 DEF SameCounts
  <2> HIDE DEF b
  <2>5. /\ r.word_cnt_error + Cardinality(B) = Cardinality(next)
        /\ r.word_error \o Kept(r, B)
             = [j \in 1 .. Least2(MaxErrors, Cardinality(next)) |-> changed[InOrder(next)[j]]]
    BY <2>2, <2>3, <2>4, <1>2, ReportedNext DEF IInv
  <2>6. Cardinality(Blocks(next)) = Cardinality(Blocks(seen)) + (IF B = {} THEN 0 ELSE 1)
    BY <2>3, <1>4, ComparedNext DEF IInv
  <2>7. /\ w.word_cnt_error = Cardinality(next)
        /\ w.word_error = [j \in 1 .. Least2(MaxErrors, Cardinality(next)) |-> changed[InOrder(next)[j]]]
        /\ w.buf_cnt_error = Cardinality(Blocks(next))
    <3> HIDE DEF seen, next
    <3> QED BY <2>2, <2>4, <2>5, <2>6, <1>3
  <2>8. next = Compared(w.buf_current)'
    BY <1>1, <1>8, <1>2 DEF Compared
  <2>9. next = Compared(rx.buf_current)'
    BY <2>8, <1>1, <1>2, <1>8 DEF Compared
  <2>10. Blocks(next) = {changed'[k][1] : k \in next}
    BY <1>1 DEF Blocks
  <2> HIDE DEF next
  <2> QED BY <2>7, <2>9, <2>10, <1>1, <1>2 DEF Reported
<1>11. Idle'
  <2>1. Follows(tx, 0)'
    <3>1. lost = 0 /\ test # Psd => InStep(tx)'
      BY <1>1, <1>2, <1>3 DEF CheckStep, InStep
    <3>2. w.word_cnt_error = rx.word_cnt_error + Cardinality(B)
      BY <1>2, <1>3 DEF SameCounts
    <3> DEFINE x == rx.word_cnt_error + Cardinality(B)
               m == Len(changed)
    <3>3. test = Psd => x + (IF w.data_ex_psd = tx.data_ex_psd THEN 0 ELSE 1) <= 2 * m + lost
      BY <1>3 DEF CheckStep
    <3>4. test \in 0 .. 3 => x <= m + behind'
      BY <1>1 DEF CheckStep
    <3>5. m \in Nat
      BY Positions DEF IInv, TypeOK
    <3>6. m' = m
      BY <1>1
    <3> HIDE DEF x, m
    <3>7. 2 * (m - 0) = 2 * m /\ m - 0 = m
      BY <3>5
    <3>8. /\ test = Psd => x + (IF w.data_ex_psd = tx.data_ex_psd THEN 0 ELSE 1)
                              <= 2 * (m - 0) + lost
          /\ test \in 0 .. 3 => x <= m - 0 + behind'
      BY <3>3, <3>4, <3>7
    <3> QED BY <3>1, <3>2, <3>6, <3>8, <1>1, <1>2 DEF Follows, m, x
  <2> QED BY <2>1 DEF Idle
<1>12. UnderWay'
  BY <1>1 DEF UnderWay
<1>13. Sends'
  BY <1>1 DEF Sends
<1> QED BY <1>5, <1>6, <1>7, <1>9, <1>10, <1>11, <1>12, <1>13 DEF IInv

-----------------------------------------------------------------------------
(* The three checks are such steps.                                         *)

LEMMA DamagedWords ==
  ASSUME TypeOK
  PROVE  /\ Damaged \in SUBSET (0 .. Size - 1)
         /\ IsFiniteSet(Damaged) /\ Cardinality(Damaged) \in Nat
         /\ \A b : b = n - 1 => NewWords(b) = {i \in Damaged : test \in 10 .. 15 => i = 0}
         /\ \A k \in DOMAIN changed : changed[k][1] = n - 1 => changed[k][2] \in Damaged
         /\ \A i \in Damaged : \E k \in DOMAIN changed : changed[k][1] = n - 1 /\ changed[k][2] = i
<1>1. Damaged \in SUBSET (0 .. Size - 1)
  <2>1. \A k \in DOMAIN changed : changed[k][2] \in 0 .. Size - 1
    BY Positions DEF TypeOK
  <2> QED BY <2>1 DEF Damaged
<1>2. IsFiniteSet(Damaged) /\ Cardinality(Damaged) \in Nat
  BY <1>1, InOrderSeq
<1>3. ASSUME NEW b, b = n - 1 PROVE NewWords(b) = {i \in Damaged : test \in 10 .. 15 => i = 0}
  BY <1>3 DEF NewWords, New, Damaged
<1>4. \A k \in DOMAIN changed : changed[k][1] = n - 1 => changed[k][2] \in Damaged
  BY DEF Damaged
<1>5. \A i \in Damaged : \E k \in DOMAIN changed : changed[k][1] = n - 1 /\ changed[k][2] = i
  BY DEF Damaged
<1> QED BY <1>1, <1>2, <1>3, <1>4, <1>5

LEMMA TestKinds ==
  ASSUME test \in Tests
  PROVE  test \in 0 .. 15 \cup {InTurn, Psd, Inv} /\ test \in Nat
BY TestBufAssumption, Kinds

(* What either end does next depends on its values alone.                   *)
LEMMA SameNext ==
  ASSUME NEW s, NEW r, s.block_mode = r.block_mode,
         s.data_ex_cnt = r.data_ex_cnt, s.data_ex_noise = r.data_ex_noise
  PROVE  NextCnt(s) = NextCnt(r) /\ NextNoise(s) = NextNoise(r)
BY DEF NextCnt, NextNoise

WrongWords == {i \in 0 .. Size - 1 :
                 IF i = 0 THEN line[1] # rx.buf_current
                 ELSE /\ Typed(rx).block_mode < 10
                      /\ line[i + 1] # Word(Typed(rx), rx.buf_current, i)}

LEMMA PlainCheck ==
  ASSUME IInv, buf_check
  PROVE  CheckStep(Advance(Typed(rx)), WrongWords)
<1> DEFINE t == Typed(rx)
           r == Advance(t)
           b == rx.buf_current
           B == WrongWords
<1>1. /\ line # NoBlock /\ test \notin {Psd, Inv} /\ Taken
      /\ rx' = Report(r, InOrder(B))
  BY DEF buf_check, Checked, WrongWords
<1>2. TypeOK /\ rx \in Checker /\ test \in Nat /\ test \in 0 .. 15 \cup {InTurn}
      /\ rx.block_mode \in Nat /\ b \in Nat /\ lost \in Nat /\ behind \in Nat /\ n \in Nat
      /\ rx.word_cnt_error \in Nat
  BY <1>1, TestKinds DEF IInv, TypeOK, Checker
<1>3. PICK s \in Value : Carries(s) /\ Follows(s, Cardinality(Damaged))
  BY <1>1 DEF IInv, UnderWay
<1> DEFINE u == Typed(s)
<1>4. t \in Checker /\ SameCounts(t)
      /\ t.block_mode = (IF test \in 0 .. 15 THEN test ELSE rx.block_mode)
      /\ t.data_ex_cnt = rx.data_ex_cnt /\ t.data_ex_noise = rx.data_ex_noise
      /\ t.data_ex_inv = rx.data_ex_inv
  BY <1>2, TypedValue DEF SameCounts
<1>5. u \in Value
      /\ u.block_mode = (IF test \in 0 .. 15 THEN test ELSE s.block_mode)
      /\ u.data_ex_cnt = s.data_ex_cnt /\ u.data_ex_noise = s.data_ex_noise
      /\ u.data_ex_inv = s.data_ex_inv
  BY <1>2, TypedValue
<1> HIDE DEF t, u
<1>6. r \in Checker /\ SameCounts(r) /\ r.block_mode = NextType(t.block_mode)
      /\ r.data_ex_cnt = NextCnt(t) /\ r.data_ex_noise = NextNoise(t)
      /\ r.data_ex_inv = t.data_ex_inv
  BY <1>4, AdvanceValue DEF SameCounts
<1>7. tx = Advance(u) /\ tx.block_mode = NextType(u.block_mode)
      /\ tx.data_ex_cnt = NextCnt(u) /\ tx.data_ex_noise = NextNoise(u)
      /\ tx.data_ex_inv = u.data_ex_inv
  BY <1>1, <1>3, <1>5, AdvanceValue DEF Carries, After, u
<1>8. \A i \in 0 .. Size - 1 :
        i \notin Damaged <=> line[i + 1] = (IF i = 0 THEN n - 1 ELSE Word(u, n - 1, i))
  BY <1>1, <1>3 DEF Carries, Sent, u
<1>9. B = {i \in 0 .. Size - 1 : IF i = 0 THEN line[1] # b
                                 ELSE t.block_mode < 10 /\ line[i + 1] # Word(t, b, i)}
  BY DEF WrongWords, t
<1>10. Damaged \in SUBSET (0 .. Size - 1) /\ IsFiniteSet(Damaged) /\ Cardinality(Damaged) \in Nat
       /\ (b = n - 1 => NewWords(b) = {i \in Damaged : test \in 10 .. 15 => i = 0})
  BY <1>2, DamagedWords
<1>11. test = InTurn => r.block_mode \in 0 .. 9
  <2>1. test = InTurn => t.block_mode \in 0 .. 9
    BY <1>4, Kinds DEF IInv, InTurnHasData
  <2>2. t.block_mode \in Nat
    BY <1>4 DEF Checker
  <2> HIDE DEF r
  <2> QED BY <2>1, <2>2, <1>6, NextTypes
<1>12. t.block_mode < 10 <=> test \notin 10 .. 15
  <2>1. test = InTurn => rx.block_mode \in 0 .. 9
    BY DEF IInv, InTurnHasData
  <2> QED BY <2>1, <1>2, <1>4, Kinds
<1> HIDE DEF r, B
<1>13. ASSUME lost = 0
       PROVE  /\ B = NewWords(b) /\ b = n - 1
              /\ r.data_ex_cnt = tx.data_ex_cnt /\ r.data_ex_noise = tx.data_ex_noise
              /\ r.data_ex_inv = tx.data_ex_inv /\ r.block_mode = tx.block_mode
  <2>1. b = n - 1
    BY <1>1, <1>2, <1>13 DEF IInv, Counted
  <2>2. t.block_mode = u.block_mode /\ t.data_ex_cnt = u.data_ex_cnt
        /\ t.data_ex_noise = u.data_ex_noise /\ t.data_ex_inv = u.data_ex_inv
    BY <1>1, <1>3, <1>4, <1>5, <1>13 DEF Follows, InStep
  <2>3. \A i : Word(t, b, i) = Word(u, b, i)
    BY <2>2, WordOf
  <2>4. ASSUME NEW i \in 0 .. Size - 1
        PROVE  i \in B <=> i \in NewWords(b)
    <3>1. CASE i = 0
      BY <3>1, <2>1, <1>8, <1>9, <1>10
    <3>2. CASE i # 0
      <4>1. line[i + 1] # Word(t, b, i) <=> i \in Damaged
        BY <3>2, <2>1, <2>3, <1>8
      <4> QED BY <4>1, <3>2, <2>1, <1>9, <1>10, <1>12
    <3> QED BY <3>1, <3>2
  <2>5. B \subseteq 0 .. Size - 1 /\ NewWords(b) \subseteq 0 .. Size - 1
    BY <2>1, <1>9, <1>10
  <2> QED BY <2>1, <2>2, <2>4, <2>5, <1>6, <1>7, SameNext
<1>14. ASSUME test \in 0 .. 3
       PROVE  rx.word_cnt_error + Cardinality(B)
                <= Len(changed) + (IF lost > 0 THEN behind + 1 ELSE behind)
  <2> DEFINE d == Cardinality(Damaged)
             c == Cardinality(B)
             m == Len(changed)
             e == rx.word_cnt_error
  <2>1. e <= m - d + behind /\ m \in Nat
    BY <1>2, <1>3, <1>14, Positions DEF Follows, TypeOK
  <2>2. t.block_mode = test /\ u.block_mode = test
    BY <1>4, <1>5, <1>14
  <2>3. \A i : Word(t, b, i) = Word(u, n - 1, i)
    BY <2>2, <1>14, FixedWord
  <2>4. ASSUME NEW i \in B PROVE i \in Damaged \cup {0}
    BY <2>3, <1>8, <1>9
  <2>5. B \in SUBSET (Damaged \cup {0})
    BY <2>4
  <2>6. IsFiniteSet(Damaged \cup {0}) /\ Cardinality(Damaged \cup {0}) <= d + 1
        /\ Cardinality(Damaged \cup {0}) \in Nat
    <3>1. Cardinality(Damaged \cup {0}) = IF 0 \in Damaged THEN d ELSE d + 1
      BY <1>10, FS_AddElement
    <3>2. IsFiniteSet(Damaged \cup {0})
      BY <1>10, FS_AddElement
    <3> HIDE DEF d
    <3>3. d \in Nat
      BY <1>10 DEF d
    <3> QED BY <3>1, <3>2, <3>3
  <2>7. c \in Nat /\ c <= d + 1
    <3>1. IsFiniteSet(B) /\ c <= Cardinality(Damaged \cup {0})
      BY <2>5, <2>6, FS_Subset
    <3>2. c \in Nat
      BY <3>1, FS_CardinalityType
    <3>3. d \in Nat
      BY <1>10
    <3> HIDE DEF c, d
    <3> QED BY <3>1, <3>2, <3>3, <2>6
  <2>8. lost = 0 => c = d
    <3>1. lost = 0 => B = {i \in Damaged : test \in 10 .. 15 => i = 0}
      BY <1>10, <1>13
    <3>2. test \notin 10 .. 15
      BY <1>14
    <3>3. lost = 0 => B = Damaged
      BY <3>1, <3>2
    <3> QED BY <3>3
  <2>9. d \in Nat /\ e \in Nat
    BY <1>2, <1>10
  <2> HIDE DEF c, d, m, e
  <2>10. e + c <= m + (IF lost > 0 THEN behind + 1 ELSE behind)
    BY <2>1, <2>7, <2>8, <2>9, <1>2
  <2> QED BY <2>10 DEF c, m, e
<1>15. B \in SUBSET (0 .. Size - 1)
  BY <1>9
<1> QED BY <1>1, <1>6, <1>11, <1>13, <1>14, <1>15 DEF CheckStep, r, t, B

WrongInv ==
  LET run == Run(Johnson, rx.data_ex_inv) IN {i \in 0 .. Size - 1 : run[i] # line[i + 1]}

LEMMA InvCheck ==
  ASSUME IInv, buf_check_inv
  PROVE  CheckStep([rx EXCEPT !.block_mode = NextType(@),
                              !.data_ex_inv = Run(Johnson, rx.data_ex_inv)[Size]], WrongInv)
<1> DEFINE k == NextType(rx.block_mode)
           x == Run(Johnson, rx.data_ex_inv)[Size]
           r == [rx EXCEPT !.block_mode = k, !.data_ex_inv = x]
           b == rx.buf_current
           B == WrongInv
<1>1. line # NoBlock /\ test = Inv /\ Taken /\ rx' = Report(r, InOrder(B))
  BY DEF buf_check_inv, WrongInv
<1>2. TypeOK /\ rx \in Checker /\ rx.block_mode \in Nat /\ rx.data_ex_inv \in Words
      /\ b \in Nat /\ n \in Nat
  BY DEF IInv, TypeOK, Checker
<1>3. PICK s \in Value : Carries(s) /\ Follows(s, Cardinality(Damaged))
  BY <1>1 DEF IInv, UnderWay
<1>4. k \in Nat /\ x \in Words
  <2>1. Size \in 0 .. Size
    BY TestBufAssumption
  <2> QED BY <2>1, <1>2, NextTypes, Runs
<1>5. tx = [s EXCEPT !.data_ex_inv = Run(Johnson, s.data_ex_inv)[Size]]
  BY <1>1, <1>3, Kinds DEF Carries, After
<1>6. \A i \in 0 .. Size - 1 : i \notin Damaged <=> line[i + 1] = Run(Johnson, s.data_ex_inv)[i]
  BY <1>1, <1>3, Kinds DEF Carries, Sent
<1>7. Damaged \in SUBSET (0 .. Size - 1)
      /\ (b = n - 1 => NewWords(b) = {i \in Damaged : test \in 10 .. 15 => i = 0})
  BY <1>2, DamagedWords
<1>8. ASSUME lost = 0
      PROVE  /\ B = NewWords(b) /\ x = tx.data_ex_inv
             /\ rx.data_ex_cnt = tx.data_ex_cnt /\ rx.data_ex_noise = tx.data_ex_noise
  <2>1. b = n - 1
    BY <1>1, <1>2, <1>8 DEF IInv, Counted
  <2>2. rx.data_ex_inv = s.data_ex_inv /\ rx.data_ex_cnt = s.data_ex_cnt
        /\ rx.data_ex_noise = s.data_ex_noise
    BY <1>1, <1>3, <1>8, Kinds DEF Follows, InStep
  <2>3. test \notin 10 .. 15
    BY <1>1 DEF Inv
  <2>4. NewWords(b) = Damaged
    BY <2>1, <2>3, <1>7
  <2>5. \A i \in 0 .. Size - 1 : i \in B <=> i \in Damaged
    BY <2>2, <1>6 DEF WrongInv
  <2>6. B = Damaged
    BY <2>5, <1>7 DEF WrongInv
  <2> QED BY <2>2, <2>4, <2>6, <1>5 DEF Value
<1>9. B \in SUBSET (0 .. Size - 1)
  BY DEF WrongInv
<1> HIDE DEF k, x, B
<1>10. r \in Checker /\ SameCounts(r) /\ r.data_ex_inv = x
       /\ r.data_ex_cnt = rx.data_ex_cnt /\ r.data_ex_noise = rx.data_ex_noise
  BY <1>2, <1>4 DEF Checker, SameCounts
<1>11. test # InTurn /\ test # Psd /\ test \notin 0 .. 3
  BY <1>1 DEF Inv, InTurn, Psd
<1> HIDE DEF r
<1>12. CheckStep(r, B)
  BY <1>1, <1>8, <1>9, <1>10, <1>11 DEF CheckStep
<1> QED BY <1>12 DEF r, k, x, B

(* What buf_check_psd expects of each word, and of the next block.          *)
Expected == [i \in 0 .. Size |-> IF i = 0 THEN rx.data_ex_psd ELSE Noise[line[i]]]

WrongPsd == {i \in 0 .. Size - 1 : Expected[i] # line[i + 1]}

LEMMA PsdCheck ==
  ASSUME IInv, buf_check_psd
  PROVE  CheckStep([rx EXCEPT !.block_mode = NextType(@), !.data_ex_psd = Expected[Size]], WrongPsd)
<1> DEFINE k == NextType(rx.block_mode)
           x == Expected[Size]
           r == [rx EXCEPT !.block_mode = k, !.data_ex_psd = x]
           B == WrongPsd
           D == Damaged
<1>1. line # NoBlock /\ test = Psd /\ Taken /\ rx' = Report(r, InOrder(B))
  BY DEF buf_check_psd, WrongPsd, Expected
<1>2. TypeOK /\ rx \in Checker /\ rx.block_mode \in Nat /\ rx.data_ex_psd \in Words
      /\ lost \in Nat /\ rx.word_cnt_error \in Nat
  BY DEF IInv, TypeOK, Checker
<1>3. PICK s \in Value : Carries(s) /\ Follows(s, Cardinality(D))
  BY <1>1 DEF IInv, UnderWay
<1> DEFINE run == Run(Noise, s.data_ex_psd)
<1>4. Size \in Nat \ {0}
  BY TestBufAssumption
<1>5. k \in Nat /\ x \in Words
  <2>1. line[Size] \in Words
    BY <1>1, <1>2, <1>4 DEF TypeOK
  <2> QED BY <2>1, <1>2, <1>4, NextTypes, StepTypes DEF Expected
<1>6. /\ run[0] = s.data_ex_psd /\ tx.data_ex_psd = run[Size]
      /\ \A i \in 1 .. Size : run[i] = Noise[run[i - 1]]
  <2>1. s.data_ex_psd \in Words
    BY DEF Value
  <2>2. run[0] = s.data_ex_psd /\ \A i \in 1 .. Size : run[i] = Noise[run[i - 1]]
    BY <2>1, StepTypes, RunValues
  <2>3. tx = [s EXCEPT !.data_ex_psd = run[Size]]
    BY <1>1, <1>3 DEF Carries, After
  <2> HIDE DEF run
  <2>4. tx.data_ex_psd = run[Size]
    BY <2>3 DEF Value
  <2> QED BY <2>2, <2>4
<1>7. \A i \in 0 .. Size - 1 : i \notin D <=> line[i + 1] = run[i]
  BY <1>1, <1>3 DEF Carries, Sent
<1>8. D \in SUBSET (0 .. Size - 1) /\ IsFiniteSet(D) /\ Cardinality(D) \in Nat
  BY <1>2, DamagedWords
<1> HIDE DEF D, run
<1> DEFINE o == IF rx.data_ex_psd = s.data_ex_psd THEN 0 ELSE 1
           f == IF x = tx.data_ex_psd THEN 0 ELSE 1
           X == IF rx.data_ex_psd = s.data_ex_psd THEN {} ELSE {0}
           F == IF x = tx.data_ex_psd THEN {} ELSE {Size}
           N == {i + 1 : i \in D}
(* A word is found wrong if it, or the one before it, was damaged; the      *)
(* first also if the checker was not in step.                               *)
<1>9. B \cup F \in SUBSET (X \cup D \cup N)
  <2>1. ASSUME NEW i \in 0 .. Size, i \notin X, i \notin N
        PROVE  Expected[i] = run[i]
    <3>1. CASE i = 0
      BY <3>1, <2>1, <1>4, <1>6 DEF Expected
    <3>2. CASE i # 0
      <4>1. i \in 1 .. Size /\ i - 1 \in 0 .. Size - 1 /\ (i - 1) + 1 = i
        BY <3>2, <1>4
      <4>2. i - 1 \notin D
        BY <4>1, <2>1
      <4>3. line[i] = run[i - 1]
        BY <4>1, <4>2, <1>7
      <4> QED BY <4>1, <4>3, <3>2, <1>6 DEF Expected
    <3> QED BY <3>1, <3>2
  <2>2. ASSUME NEW i \in B PROVE i \in X \cup D \cup N
    <3>1. i \in 0 .. Size - 1 /\ i \in 0 .. Size /\ Expected[i] # line[i + 1]
      BY <1>4 DEF WrongPsd
    <3> QED BY <3>1, <2>1, <1>7
  <2>3. ASSUME NEW i \in F PROVE i \in X \cup D \cup N
    <3>1. i = Size /\ Expected[i] # run[Size] /\ i \in 0 .. Size
      BY <1>4, <1>6
    <3> QED BY <3>1, <2>1
  <2> HIDE DEF B, F, X, N
  <2> QED BY <2>2, <2>3
<1>10. IsFiniteSet(N) /\ Cardinality(N) = Cardinality(D)
  <2> DEFINE g == [i \in D |-> i + 1]
  <2>1. \A i \in D : i \in Int
    BY <1>4, <1>8
  <2>2. g \in [D -> N] /\ (\A j \in N : \E i \in D : g[i] = j)
    OBVIOUS
  <2>3. \A i, j \in D : g[i] = g[j] => i = j
    BY <2>1
  <2> HIDE DEF g, N
  <2>4. g \in Bijection(D, N)
    BY <2>2, <2>3 DEF Bijection, Injection, IsInjective, Surjection
  <2> QED BY <2>4, <1>8, FS_Bijection DEF ExistsBijection
<1>11. IsFiniteSet(X) /\ Cardinality(X) = o
  BY FS_EmptySet, FS_Singleton
<1>12. IsFiniteSet(B) /\ Cardinality(B) \in Nat /\ B \in SUBSET (0 .. Size - 1)
  <2>1. B \in SUBSET (0 .. Size - 1)
    BY DEF WrongPsd
  <2> HIDE DEF B
  <2> QED BY <2>1, InOrderSeq
<1> HIDE DEF k, x, B, N, X
<1>13. IsFiniteSet(B \cup F) /\ Cardinality(B \cup F) = Cardinality(B) + f
  <2>1. CASE x = tx.data_ex_psd
    BY <2>1, <1>12
  <2>2. CASE x # tx.data_ex_psd
    <3>1. Size \notin B
      BY <1>4, <1>12
    <3>2. F = {Size} /\ f = 1
      BY <2>2
    <3> HIDE DEF F, f
    <3> QED BY <3>1, <3>2, <1>12, FS_AddElement
  <2> QED BY <2>1, <2>2
<1> HIDE DEF F, D
<1>14. IsFiniteSet(X \cup D \cup N) /\ Cardinality(X \cup D \cup N) <= o + 2 * Cardinality(D)
       /\ Cardinality(X \cup D \cup N) \in Nat
  <2>1. IsFiniteSet(X \cup D) /\ Cardinality(X \cup D) = o + Cardinality(D) - Cardinality(X \cap D)
    BY <1>8, <1>11, FS_Union
  <2>2. IsFiniteSet((X \cup D) \cup N)
        /\ Cardinality((X \cup D) \cup N)
             = Cardinality(X \cup D) + Cardinality(D) - Cardinality((X \cup D) \cap N)
    <3> DEFINE Y == X \cup D
    <3>1. IsFiniteSet(Y)
      BY <2>1
    <3> HIDE DEF Y
    <3>2. IsFiniteSet(Y \cup N)
          /\ Cardinality(Y \cup N) = Cardinality(Y) + Cardinality(N) - Cardinality(Y \cap N)
      BY <3>1, <1>10, FS_Union
    <3> QED BY <3>2, <1>10 DEF Y
  <2>3. IsFiniteSet(X \cap D) /\ IsFiniteSet((X \cup D) \cap N)
    BY <1>11, <2>1, FS_Intersection
  <2>4. Cardinality(X \cap D) \in Nat /\ Cardinality((X \cup D) \cap N) \in Nat
        /\ Cardinality((X \cup D) \cup N) \in Nat
    BY <2>2, <2>3, FS_CardinalityType
  <2>5. o \in Nat
    OBVIOUS
  <2> HIDE DEF o
  <2> QED BY <2>1, <2>2, <2>4, <2>5, <1>8
<1>15. Cardinality(B) + f <= o + 2 * Cardinality(D)
  <2>1. Cardinality(B \cup F) <= Cardinality(X \cup D \cup N)
    BY <1>9, <1>14, FS_Subset
  <2>2. f \in Nat /\ o \in Nat
    OBVIOUS
  <2> HIDE DEF f, o
  <2> QED BY <2>1, <2>2, <1>8, <1>12, <1>13, <1>14
<1>16. rx.word_cnt_error + Cardinality(B) + f <= 2 * Len(changed) + lost
  <2> DEFINE d == Cardinality(D)
             m == Len(changed)
             e == rx.word_cnt_error
             c == Cardinality(B)
  <2>1. e + o <= 2 * (m - d) + lost
    BY <1>1, <1>3 DEF Follows
  <2>2. m \in Nat /\ d \in Nat /\ e \in Nat /\ c \in Nat /\ f \in Nat /\ o \in Nat
    BY <1>2, <1>8, <1>12, Positions DEF TypeOK
  <2> HIDE DEF d, m, e, c, f, o
  <2>3. e + c + f <= 2 * m + lost
    BY <2>1, <2>2, <1>2, <1>15 DEF c, d
  <2> QED BY <2>3 DEF m, e, c
<1>17. r \in Checker /\ SameCounts(r) /\ r.data_ex_psd = x
  BY <1>2, <1>5 DEF Checker, SameCounts
<1>18. test # InTurn /\ test \notin 0 .. 3
  BY <1>1 DEF InTurn, Psd
<1> HIDE DEF r
<1>19. CheckStep(r, B)
  BY <1>1, <1>12, <1>16, <1>17, <1>18 DEF CheckStep, f
<1> QED BY <1>19 DEF r, k, x, B

-----------------------------------------------------------------------------
(* The other steps.                                                         *)

SendStep ==
  /\ line = NoBlock /\ line' # NoBlock
  /\ line' \in [1 .. Size -> IF test \in {Psd, Inv} THEN Words ELSE Nat]
  /\ \A i \in 0 .. Size - 1 : line'[i + 1] = Sent(tx, n)[i]
  /\ tx' = After(tx) /\ n' = n + 1 /\ UNCHANGED <<test, rx, changed, lost, behind>>

LEMMA SendKeeps ==
  ASSUME IInv, SendStep
  PROVE  IInv'
<1>1. /\ line = NoBlock /\ line' # NoBlock /\ tx' = After(tx) /\ n' = n + 1
      /\ test' = test /\ rx' = rx /\ changed' = changed /\ lost' = lost /\ behind' = behind
      /\ line' \in [1 .. Size -> IF test \in {Psd, Inv} THEN Words ELSE Nat]
  BY DEF SendStep
<1>2. tx \in Value /\ n \in Nat /\ test \in Tests /\ test \in Nat /\ TypeOK /\ Chronological
      /\ rx.buf_current \in Nat
  BY TestKinds DEF IInv, TypeOK, Checker
<1>3. TypeOK'
  <2>1. After(tx) \in Value
    BY <1>2, SentType
  <2> QED BY <2>1, <1>1, <1>2 DEF TypeOK
<1>4. InTurnHasData'
  BY <1>1 DEF IInv, InTurnHasData
<1>5. Chronological'
  <2>1. \A k \in DOMAIN changed : changed[k][1] < n + 1
    <3>1. \A k \in DOMAIN changed : changed[k][1] \in Nat /\ changed[k][1] < n
      BY <1>2, Positions DEF Chronological, TypeOK
    <3> QED BY <3>1, <1>2
  <2> QED BY <2>1, <1>1, <1>2 DEF Chronological
<1>6. Counted'
  <2>1. rx.buf_cnt_ok + rx.buf_cnt_error = rx.buf_current /\ (lost = 0 => n = rx.buf_current + 0)
    BY <1>1 DEF IInv, Counted
  <2>2. lost = 0 => n + 1 = rx.buf_current + 1
    BY <2>1, <1>2
  <2> QED BY <2>1, <2>2, <1>1 DEF Counted
<1>7. Reported'
  BY <1>1 DEF IInv, Reported, Compared
<1>8. Idle'
  BY <1>1 DEF Idle
<1>9. PICK s \in Value : s = tx
  BY <1>2
<1>10. Damaged' = {}
  <2>1. \A k \in DOMAIN changed : changed[k][1] # n' - 1
    <3>1. \A k \in DOMAIN changed : changed[k][1] \in Nat /\ changed[k][1] < n
      BY <1>2, Positions DEF Chronological, TypeOK
    <3> QED BY <3>1, <1>1, <1>2
  <2> QED BY <2>1, <1>1 DEF Damaged
<1>11. Carries(s)'
  <2>1. n' - 1 = n
    BY <1>1, <1>2
  <2>2. Sent(s, n - 1)' = Sent(s, n)
    <3>1. Typed(s)' = Typed(s)
      BY <1>1 DEF Typed
    <3>2. ASSUME NEW i PROVE Word(Typed(s), n - 1, i)' = Word(Typed(s), n, i)
      BY <2>1, <3>1
    <3> QED BY <3>2, <2>1, <1>1 DEF Sent
  <2>3. After(s)' = After(s)
    BY <1>1 DEF After, Typed
  <2>4. tx' = After(s)'
    BY <2>3, <1>1, <1>9
  <2>5. \A i \in 0 .. Size - 1 : line'[i + 1] = Sent(s, n)[i]
    BY <1>9 DEF SendStep
  <2>6. \A i \in 0 .. Size - 1 : i \notin Damaged'
    BY <1>10
  <2> QED BY <2>2, <2>4, <2>5, <2>6 DEF Carries
<1>12. Follows(s, Cardinality(Damaged))'
  <2>1. Follows(s, 0)
    BY <1>1, <1>9 DEF IInv, Idle
  <2>2. Follows(s, 0)'
    BY <2>1, <1>1 DEF Follows, InStep
  <2> QED BY <2>2, <1>10, FS_EmptySet
<1>13. UnderWay'
  BY <1>11, <1>12 DEF UnderWay
<1>14. Sends'
  BY <1>1, <1>2 DEF Sends
<1> QED BY <1>3, <1>4, <1>5, <1>6, <1>7, <1>8, <1>13, <1>14 DEF IInv

LEMMA SetIsSend ==
  ASSUME IInv, buf_set
  PROVE  SendStep
<1> DEFINE s == Typed(tx)
           g == [i \in 1 .. Size - 1 |-> Word(s, n, i)]
           b == Sent(tx, n)
<1>1. /\ line = NoBlock /\ test \notin {Psd, Inv} /\ line' = <<n>> \o g
      /\ tx' = Advance(s) /\ n' = n + 1 /\ UNCHANGED <<test, rx, changed, lost, behind>>
  BY DEF buf_set
<1>2. tx \in Value /\ n \in Nat /\ test \in Nat /\ Size \in Nat \ {0}
  BY TestKinds, TestBufAssumption DEF IInv, TypeOK
<1>3. b[0] = n /\ \A i \in 1 .. Size - 1 : b[i] = Word(s, n, i)
  BY <1>1, <1>2 DEF Sent
<1>4. After(tx) = Advance(s)
  BY <1>1 DEF After
<1>5. \A i \in 0 .. Size - 1 : b[i] \in Nat
  BY <1>2, SentType
<1>6. g = [i \in 1 .. Size - 1 |-> b[i]]
  BY <1>3
<1> HIDE DEF b, g, s
<1>7. g \in Seq(Nat) /\ Len(g) = Size - 1 /\ \A i \in 1 .. Size - 1 : g[i] = b[i]
  <2>1. g \in [1 .. Size - 1 -> Nat]
    BY <1>2, <1>5, <1>6
  <2> QED BY <2>1, <1>2, <1>6
<1> DEFINE h == <<n>> \o g
<1>8. h \in Seq(Nat) /\ Len(h) = Size
      /\ \A i \in 1 .. Size : h[i] = IF i <= 1 THEN n ELSE g[i - 1]
  <2>1. <<n>> \in Seq(Nat) /\ Len(<<n>>) = 1 /\ <<n>>[1] = n
    BY <1>2
  <2>2. h \in Seq(Nat) /\ Len(h) = 1 + (Size - 1)
        /\ \A i \in 1 .. 1 + (Size - 1) : h[i] = IF i <= 1 THEN <<n>>[i] ELSE g[i - 1]
    BY <2>1, <1>7, ConcatProperties
  <2> HIDE DEF h
  <2>3. 1 + (Size - 1) = Size
    BY <1>2
  <2>4. ASSUME NEW i \in 1 .. Size PROVE h[i] = IF i <= 1 THEN n ELSE g[i - 1]
    <3>1. i <= 1 => i = 1
      OBVIOUS
    <3> QED BY <3>1, <2>1, <2>2, <2>3
  <2> QED BY <2>2, <2>3, <2>4
<1> HIDE DEF h
<1>9. ASSUME NEW i \in 0 .. Size - 1 PROVE h[i + 1] = b[i]
  <2>1. CASE i = 0
    BY <2>1, <1>2, <1>3, <1>8
  <2>2. CASE i # 0
    <3>1. i \in 1 .. Size - 1 /\ i + 1 \in 1 .. Size /\ ~ (i + 1 <= 1) /\ (i + 1) - 1 = i
      BY <2>2, <1>2
    <3> QED BY <3>1, <1>7, <1>8
  <2> QED BY <2>1, <2>2
<1>10. h # NoBlock /\ h \in [1 .. Size -> Nat]
  <2>1. h # NoBlock
    BY <1>2, <1>8 DEF NoBlock
  <2>2. h \in [1 .. Size -> Nat]
    BY <1>8
  <2> QED BY <2>1, <2>2
<1> QED BY <1>1, <1>4, <1>9, <1>10 DEF SendStep, b, h

LEMMA GenerateIsSend ==
  ASSUME IInv, Generate
  PROVE  SendStep
<1> DEFINE run == IF test = Psd THEN Run(Noise, tx.data_ex_psd) ELSE Run(Johnson, tx.data_ex_inv)
           b == Sent(tx, n)
<1>1. /\ line = NoBlock /\ test \in {Psd, Inv} /\ line' = [i \in 1 .. Size |-> run[i - 1]]
      /\ tx' = (IF test = Psd THEN [tx EXCEPT !.data_ex_psd = run[Size]]
                ELSE [tx EXCEPT !.data_ex_inv = run[Size]])
      /\ n' = n + 1 /\ UNCHANGED <<test, rx, changed, lost, behind>>
  BY DEF Generate
<1>2. tx \in Value /\ n \in Nat /\ test \in Nat /\ Size \in Nat \ {0}
  BY TestKinds, TestBufAssumption DEF IInv, TypeOK
<1>3. tx' = After(tx)
  BY <1>1, Kinds DEF After
<1>4. \A i \in 0 .. Size - 1 : b[i] = run[i] /\ b[i] \in Words
  <2>1. \A i \in 0 .. Size - 1 : b[i] \in Words
    BY <1>1, <1>2, SentType
  <2>2. \A i \in 0 .. Size - 1 : b[i] = run[i]
    BY <1>1, Kinds DEF Sent
  <2> QED BY <2>1, <2>2
<1> HIDE DEF run, b
<1>5. \A i \in 1 .. Size : i - 1 \in 0 .. Size - 1
  BY <1>2
<1>6. line' \in [1 .. Size -> Words]
  BY <1>1, <1>4, <1>5
<1>7. ASSUME NEW i \in 0 .. Size - 1 PROVE line'[i + 1] = b[i]
  <2>1. i + 1 \in 1 .. Size /\ (i + 1) - 1 = i
    BY <1>2
  <2> QED BY <2>1, <1>1, <1>4
<1>8. line' # NoBlock
  <2>1. DOMAIN line' # {} /\ DOMAIN NoBlock = {}
    BY <1>2, <1>6 DEF NoBlock
  <2> QED BY <2>1
<1> QED BY <1>1, <1>3, <1>6, <1>7, <1>8 DEF SendStep, b

LEMMA LoseKeeps ==
  ASSUME IInv, Lose
  PROVE  IInv'
<1>1. /\ line # NoBlock /\ line' = NoBlock /\ lost' = lost + 1
      /\ UNCHANGED <<test, tx, rx, n, changed, behind>>
  BY DEF Lose
<1>2. TypeOK /\ lost \in Nat /\ behind \in Nat /\ rx.word_cnt_error \in Nat
      /\ Len(changed) \in Nat
  BY Positions DEF IInv, TypeOK, Checker
<1>3. TypeOK' /\ InTurnHasData' /\ Chronological' /\ Counted' /\ Reported' /\ UnderWay'
  <2>1. TypeOK' /\ InTurnHasData' /\ Chronological'
    BY <1>1, <1>2 DEF IInv, TypeOK, InTurnHasData, Chronological
  <2>2. lost' # 0
    BY <1>1, <1>2
  <2>3. Counted' /\ Reported'
    BY <1>1, <2>2 DEF IInv, Counted, Reported
  <2>4. UnderWay'
    BY <1>1 DEF UnderWay
  <2> QED BY <2>1, <2>3, <2>4
<1>4. PICK s \in Value : Carries(s) /\ Follows(s, Cardinality(Damaged))
  BY <1>1 DEF IInv, UnderWay
<1>5. Cardinality(Damaged) \in Nat
  BY <1>2, DamagedWords
<1> DEFINE d == Cardinality(Damaged)
           m == Len(changed)
           e == rx.word_cnt_error
           o == IF rx.data_ex_psd = s.data_ex_psd THEN 0 ELSE 1
           f == IF rx.data_ex_psd = tx.data_ex_psd THEN 0 ELSE 1
<1>6. /\ test = Psd => e + o <= 2 * (m - d) + lost
      /\ test \in 0 .. 3 => e <= m - d + behind
  BY <1>4 DEF Follows
<1>7. o \in {0, 1} /\ f \in {0, 1} /\ d \in Nat /\ m \in Nat /\ e \in Nat
  BY <1>2, <1>5
<1>8. m' = m /\ e' = e
  BY <1>1
<1> HIDE DEF d, m, e, o, f
<1>9. /\ test = Psd => e + f <= 2 * (m - 0) + (lost + 1)
      /\ test \in 0 .. 3 => e <= m - 0 + behind
  BY <1>2, <1>6, <1>7
<1>10. Follows(tx, 0)'
  <2>1. lost' # 0
    BY <1>1, <1>2
  <2> QED BY <2>1, <1>1, <1>9 DEF Follows, m, e, f
<1>11. Sends'
  BY <1>1 DEF Sends
<1> QED BY <1>3, <1>10, <1>11 DEF IInv, Idle

(* A word is damaged after those before it: it still was the word sent.     *)
LEMMA DamageKeeps ==
  ASSUME IInv, NEW i \in 0 .. Size - 1, NEW d \in Deltas, Damage(i, d)
  PROVE  IInv'
<1> DEFINE x == IF i = 0 /\ test \notin {Psd, Inv} THEN line[i + 1] + d
                ELSE (line[i + 1] + d) % 2^W
           V == IF test \in {Psd, Inv} THEN Words ELSE Nat
<1>1. /\ line # NoBlock /\ line' = [line EXCEPT ![i + 1] = x]
      /\ \A k \in DOMAIN changed : changed[k][1] = n - 1 => changed[k][2] < i
      /\ changed' = Append(changed, <<n - 1, i>>)
      /\ test' = test /\ tx' = tx /\ rx' = rx /\ n' = n /\ lost' = lost /\ behind' = behind
  BY DEF Damage
<1>2. /\ TypeOK /\ Chronological /\ test \in Nat /\ n \in Nat /\ lost \in Nat /\ behind \in Nat
      /\ Size \in Nat \ {0} /\ changed \in Seq(Nat \X (0 .. Size - 1))
      /\ rx.buf_current \in Nat /\ rx.word_cnt_error \in Nat
  BY TestKinds, TestBufAssumption DEF IInv, TypeOK, Checker
<1>3. line \in [1 .. Size -> V] /\ i + 1 \in 1 .. Size
  BY <1>1, <1>2 DEF TypeOK
<1>4. PICK s \in Value : Carries(s) /\ Follows(s, Cardinality(Damaged))
  BY <1>1 DEF IInv, UnderWay
(* Some block was sent: n > 0.                                              *)
<1>5. n - 1 \in Nat
  <2>1. n # 0
    BY <1>1 DEF IInv, Sends
  <2> QED BY <2>1, <1>2
<1> DEFINE b == Sent(s, n - 1)
<1>6. line[i + 1] = b[i]
  <2>1. i \notin Damaged
    <3>1. ASSUME i \in Damaged PROVE FALSE
      <4>1. PICK k \in DOMAIN changed : changed[k][1] = n - 1 /\ changed[k][2] = i
        BY <1>2, <3>1, DamagedWords
      <4>2. i < i /\ i \in Int
        BY <4>1, <1>1
      <4> QED BY <4>2
    <3> QED BY <3>1
  <2> QED BY <2>1, <1>4 DEF Carries
<1>7. /\ b[i] \in Nat
      /\ i # 0 \/ test \in {Psd, Inv} => b[i] \in Words
  BY <1>2, <1>5, SentType
<1>8. d \in 1 .. 2^W - 1 /\ d \in Nat \ {0}
  BY TestBufAssumption, Moduli
<1>9. x # b[i] /\ x \in V
  <2>1. CASE i = 0 /\ test \notin {Psd, Inv}
    BY <2>1, <1>6, <1>7, <1>8
  <2>2. CASE ~ (i = 0 /\ test \notin {Psd, Inv})
    <3>1. b[i] \in Words
      BY <2>2, <1>7
    <3>2. (b[i] + d) % 2^W \in Words /\ (b[i] + d) % 2^W # b[i]
      BY <3>1, <1>8, Moduli
    <3>3. x = (b[i] + d) % 2^W
      BY <2>2, <1>6
    <3>4. Words \subseteq V
      BY Moduli DEF Words
    <3> HIDE DEF x, V
    <3> QED BY <3>2, <3>3, <3>4
  <2> QED BY <2>1, <2>2
<1> HIDE DEF x, b
<1>10. line' \in [1 .. Size -> V] /\ line'[i + 1] = x
       /\ \A j \in 0 .. Size - 1 : j # i => line'[j + 1] = line[j + 1]
  <2>1. \A j \in 0 .. Size - 1 : j + 1 \in 1 .. Size /\ (j # i => j + 1 # i + 1)
    BY <1>2
  <2> HIDE DEF V
  <2> QED BY <2>1, <1>1, <1>3, <1>9
<1>11. line' # NoBlock
  <2> HIDE DEF V
  <2>1. DOMAIN line' = 1 .. Size
    BY <1>10
  <2>2. 1 \in 1 .. Size
    BY <1>2
  <2>3. DOMAIN NoBlock = {}
    BY DEF NoBlock
  <2> QED BY <2>1, <2>2, <2>3
<1> DEFINE m == Len(changed)
<1>12. /\ m \in Nat /\ DOMAIN changed = 1 .. m /\ DOMAIN changed' = 1 .. m + 1 /\ Len(changed') = m + 1
       /\ changed'[m + 1] = <<n - 1, i>> /\ \A k \in 1 .. m : changed'[k] = changed[k]
       /\ changed' \in Seq(Nat \X (0 .. Size - 1))
  <2>1. <<n - 1, i>> \in Nat \X (0 .. Size - 1)
    BY <1>5
  <2> QED BY <2>1, <1>1, <1>2
<1> HIDE DEF m
<1>13. TypeOK'
  BY <1>1, <1>2, <1>10, <1>12 DEF TypeOK
<1>14. InTurnHasData' /\ Sends' /\ Counted' /\ Idle'
  BY <1>1, <1>11 DEF IInv, InTurnHasData, Sends, Counted, Idle
<1>15. \A k \in 1 .. m : changed[k][1] \in Nat /\ changed[k][2] \in Nat /\ changed[k][1] < n
  BY <1>2, <1>12, Positions DEF Chronological
<1>16. changed'[m + 1][1] = n - 1 /\ changed'[m + 1][2] = i
  BY <1>12
<1>17. \A k \in 1 .. m + 1 : k \in 1 .. m \/ k = m + 1
  BY <1>12
<1>18. Chronological'
  <2>1. \A k \in 1 .. m + 1 : changed'[k][1] < n
    <3>1. \A k \in 1 .. m : changed'[k][1] < n
      BY <1>12, <1>15
    <3>2. changed'[m + 1][1] < n
      BY <1>2, <1>16
    <3> QED BY <3>1, <3>2, <1>17
  <2>2. ASSUME NEW k \in 1 .. m + 1, NEW l \in 1 .. m + 1, k < l
        PROVE  \/ changed'[k][1] < changed'[l][1]
               \/ changed'[k][1] = changed'[l][1] /\ changed'[k][2] < changed'[l][2]
    <3>1. k \in 1 .. m
      BY <2>2, <1>12
    <3>2. CASE l \in 1 .. m
      <4>1. \/ changed[k][1] < changed[l][1]
            \/ changed[k][1] = changed[l][1] /\ changed[k][2] < changed[l][2]
        <5>1. k \in DOMAIN changed /\ l \in DOMAIN changed
          BY <3>1, <3>2, <1>12
        <5> QED BY <5>1, <2>2, <1>2 DEF Chronological
      <4>2. changed'[k] = changed[k] /\ changed'[l] = changed[l]
        BY <3>1, <3>2, <1>12
      <4> QED BY <4>1, <4>2
    <3>3. CASE l = m + 1
      <4>1. changed'[l][1] = n - 1 /\ changed'[l][2] = i /\ changed'[k] = changed[k]
        BY <3>1, <3>3, <1>12, <1>16
      <4>2. changed[k][1] \in Nat /\ changed[k][1] < n
        BY <3>1, <1>15
      <4>3. changed[k][1] = n - 1 => changed[k][2] < i
        BY <3>1, <1>1, <1>12
      <4>4. changed[k][1] < n - 1 \/ changed[k][1] = n - 1
        BY SMTT(30), <4>2, <1>2
      <4> QED BY <4>1, <4>3, <4>4
    <3> QED BY <3>2, <3>3, <1>17
  <2> QED BY <2>1, <2>2, <1>1, <1>12 DEF Chronological
<1>19. Reported'
  <2>1. SUFFICES ASSUME lost = 0, test # Psd PROVE Reported'
    BY <1>1 DEF Reported
  <2> DEFINE seen == Compared(rx.buf_current)
  <2>2. n - 1 = rx.buf_current
    BY <2>1, <1>1, <1>2 DEF IInv, Counted
  <2>3. seen \subseteq 1 .. m /\ Compared(rx.buf_current)' = seen
    <3>1. ~ (n - 1 < rx.buf_current)
      BY <2>2, <1>2
    <3>2. seen = {k \in 1 .. m : changed[k][1] < rx.buf_current
                                  /\ (test \in 10 .. 15 => changed[k][2] = 0)}
      BY <1>12 DEF Compared
    <3>3. Compared(rx.buf_current)' = {k \in 1 .. m + 1 : changed'[k][1] < rx.buf_current
                                          /\ (test \in 10 .. 15 => changed'[k][2] = 0)}
      BY <1>1, <1>12 DEF Compared
    <3>4. 1 .. m \subseteq 1 .. m + 1
      BY <1>12
    <3> HIDE DEF seen
    <3> QED BY <3>1, <3>2, <3>3, <3>4, <1>12, <1>16, <1>17
  <2>4. /\ rx.word_cnt_error = Cardinality(seen)
        /\ rx.word_error = [j \in 1 .. Least2(MaxErrors, Cardinality(seen)) |-> changed[InOrder(seen)[j]]]
        /\ rx.buf_cnt_error = Cardinality({changed[k][1] : k \in seen})
    BY <2>1 DEF IInv, Reported
  <2>5. seen \in SUBSET Int /\ IsFiniteSet(seen)
    BY <1>2, ComparedNext
  <2> HIDE DEF seen
  <2> DEFINE c == Cardinality(seen)
             q == Least2(MaxErrors, c)
             f == InOrder(seen)
  <2>6. \A j \in 1 .. q : f[j] \in 1 .. m
    <3>1. \A j \in 1 .. c : f[j] \in seen
      BY <2>5, InOrderValues
    <3>2. c \in Nat
      BY <2>5, FS_CardinalityType
    <3> HIDE DEF c, f
    <3>3. \A j \in 1 .. q : j \in 1 .. c
      BY <3>2, TestBufAssumption DEF Least2
    <3> HIDE DEF q
    <3> QED BY <3>1, <3>3, <2>3
  <2>7. [j \in 1 .. q |-> changed[f[j]]] = [j \in 1 .. q |-> changed'[f[j]]]
    <3> HIDE DEF q, f
    <3> QED BY <2>6, <1>12
  <2>8. {changed[k][1] : k \in seen} = {changed'[k][1] : k \in seen}
    BY <2>3, <1>12
  <2> QED BY <2>3, <2>4, <2>7, <2>8, <1>1 DEF Reported
<1>20. Damaged' = Damaged \cup {i} /\ i \notin Damaged
       /\ Cardinality(Damaged)' = Cardinality(Damaged) + 1 /\ Cardinality(Damaged) \in Nat
  <2>1. Damaged = {changed[k][2] : k \in {l \in 1 .. m : changed[l][1] = n - 1}}
    BY <1>12 DEF Damaged
  <2>2. Damaged' = {changed'[k][2] : k \in {l \in 1 .. m + 1 : changed'[l][1] = n - 1}}
    BY <1>1, <1>12 DEF Damaged
  <2>3. ASSUME NEW j PROVE j \in Damaged' <=> j \in Damaged \/ j = i
    <3>1. j \in Damaged' <=> \E l \in 1 .. m + 1 : changed'[l][1] = n - 1 /\ changed'[l][2] = j
      BY <2>2
    <3>2. j \in Damaged <=> \E l \in 1 .. m : changed[l][1] = n - 1 /\ changed[l][2] = j
      BY <2>1
    <3>3. m + 1 \in 1 .. m + 1 /\ \A l \in 1 .. m : l \in 1 .. m + 1
      BY <1>12
    <3> QED BY <3>1, <3>2, <3>3, <1>12, <1>16, <1>17
  <2>4. Damaged' = Damaged \cup {i}
    BY <2>3
  <2>5. i \notin Damaged
    <3>1. ASSUME i \in Damaged PROVE FALSE
      <4>1. PICK k \in DOMAIN changed : changed[k][1] = n - 1 /\ changed[k][2] = i
        BY <1>2, <3>1, DamagedWords
      <4>2. i < i /\ i \in Int
        BY <4>1, <1>1
      <4> QED BY <4>2
    <3> QED BY <3>1
  <2>6. IsFiniteSet(Damaged) /\ Cardinality(Damaged) \in Nat
    BY <1>2, DamagedWords
  <2>7. Cardinality(Damaged') = Cardinality(Damaged) + 1
    BY <2>4, <2>5, <2>6, FS_AddElement
  <2> QED BY <2>4, <2>5, <2>6, <2>7
<1>21. Carries(s)'
  <2>1. tx' = After(s)'
    <3>1. After(s)' = After(s)
      BY <1>1 DEF After, Typed
    <3> QED BY <3>1, <1>1, <1>4 DEF Carries
  <2>2. Sent(s, n - 1)' = b
    <3>1. Typed(s)' = Typed(s)
      BY <1>1 DEF Typed
    <3>2. ASSUME NEW j PROVE Word(Typed(s), n - 1, j)' = Word(Typed(s), n - 1, j)
      BY <3>1, <1>1
    <3> QED BY <3>2, <1>1 DEF Sent, b
  <2>3. ASSUME NEW j \in 0 .. Size - 1
        PROVE  line'[j + 1] = b[j] <=> j \notin Damaged'
    <3>1. CASE j = i
      BY <3>1, <1>9, <1>10, <1>20
    <3>2. CASE j # i
      <4>1. line[j + 1] = b[j] <=> j \notin Damaged
        BY <1>4 DEF Carries, b
      <4> QED BY <4>1, <3>2, <1>10, <1>20
    <3> QED BY <3>1, <3>2
  <2> QED BY <2>1, <2>2, <2>3 DEF Carries
<1>22. Follows(s, Cardinality(Damaged))'
  <2> DEFINE c == Cardinality(Damaged)
             e == rx.word_cnt_error
             o == IF rx.data_ex_psd = s.data_ex_psd THEN 0 ELSE 1
  <2>1. /\ test = Psd => e + o <= 2 * (m - c) + lost
        /\ test \in 0 .. 3 => e <= m - c + behind
        /\ lost = 0 /\ test # Psd => InStep(s)
    BY <1>4 DEF Follows, m
  <2>2. Len(changed)' - c' = m - c
    <3>1. Len(changed)' = m + 1 /\ c' = c + 1
      BY <1>12, <1>20
    <3>2. c \in Nat
      BY <1>20
    <3> HIDE DEF c
    <3> QED BY <3>1, <3>2, <1>12
  <2>3. InStep(s) => InStep(s)'
    BY <1>1 DEF InStep
  <2> QED BY <2>1, <2>2, <2>3, <1>1 DEF Follows
<1>23. UnderWay'
  BY <1>21, <1>22 DEF UnderWay
<1> QED BY <1>13, <1>14, <1>18, <1>19, <1>23 DEF IInv

-----------------------------------------------------------------------------
(* The theorems.                                                            *)

LEMMA InitIInv == Init => IInv
<1> SUFFICES ASSUME Init PROVE IInv
  OBVIOUS
<1>1. /\ test \in Tests /\ tx = Values /\ rx = buf_check_start
      /\ n = 0 /\ line = NoBlock /\ changed = <<>> /\ lost = 0 /\ behind = 0
  BY DEF Init
<1>2. 0 \in Words /\ 1 \in Words /\ 2 \in Words
  BY Moduli
<1>3. tx \in Value
  BY <1>1, <1>2 DEF Values, Value
<1>4. /\ rx \in Checker /\ rx.block_mode = 0 /\ rx.data_ex_cnt = 0 /\ rx.data_ex_noise = 1
      /\ rx.data_ex_psd = 2 /\ rx.data_ex_inv = 0 /\ rx.buf_cnt_ok = 0 /\ rx.buf_cnt_error = 0
      /\ rx.word_cnt_error = 0 /\ rx.buf_current = 0 /\ rx.word_error = <<>>
  BY <1>1, <1>2 DEF buf_check_start, Checker
<1>5. DOMAIN changed = {} /\ Len(changed) = 0 /\ changed \in Seq(Nat \X (0 .. Size - 1))
  BY <1>1
<1>6. TypeOK /\ InTurnHasData /\ Chronological /\ Sends /\ Counted /\ UnderWay
  BY <1>1, <1>3, <1>4, <1>5
     DEF TypeOK, InTurnHasData, Chronological, Sends, Counted, UnderWay
<1>7. Reported
  <2> DEFINE seen == Compared(rx.buf_current)
  <2>1. seen = {}
    BY <1>5 DEF Compared
  <2>2. {changed[k][1] : k \in {}} = {}
    OBVIOUS
  <2>3. Cardinality({}) = 0 /\ Least2(MaxErrors, 0) = 0
    BY FS_EmptySet, TestBufAssumption DEF Least2
  <2>4. [j \in 1 .. 0 |-> changed[InOrder({})[j]]] = <<>>
    OBVIOUS
  <2> HIDE DEF seen
  <2>5. rx.word_error = [j \in 1 .. Least2(MaxErrors, Cardinality(seen)) |-> changed[InOrder(seen)[j]]]
    BY <2>1, <2>3, <2>4, <1>4
  <2>6. rx.word_cnt_error = Cardinality(seen)
        /\ rx.buf_cnt_error = Cardinality({changed[k][1] : k \in seen})
    BY <2>1, <2>2, <2>3, <1>4
  <2> QED BY <2>5, <2>6 DEF Reported, seen
<1>8. Idle
  <2>1. InStep(tx)
    BY <1>1, <1>4 DEF InStep, Values
  <2>2. rx.data_ex_psd = tx.data_ex_psd
    BY <1>1, <1>4 DEF Values
  <2> QED BY <2>1, <2>2, <1>1, <1>4, <1>5 DEF Idle, Follows
<1> QED BY <1>6, <1>7, <1>8 DEF IInv

LEMMA NextIInv == IInv /\ [Next]_vars => IInv'
<1> SUFFICES ASSUME IInv, [Next]_vars PROVE IInv'
  OBVIOUS
<1>1. CASE buf_set
  BY <1>1, SetIsSend, SendKeeps
<1>2. CASE Generate
  BY <1>2, GenerateIsSend, SendKeeps
<1>3. CASE Lose
  BY <1>3, LoseKeeps
<1>4. CASE \E i \in 0 .. Size - 1, d \in Deltas : Damage(i, d)
  BY <1>4, DamageKeeps
<1>5. CASE buf_check
  BY <1>5, PlainCheck, CheckKeeps
<1>6. CASE buf_check_psd
  <2>1. PICK r, B : CheckStep(r, B)
    BY <1>6, PsdCheck
  <2> QED BY <2>1, CheckKeeps
<1>7. CASE buf_check_inv
  <2>1. PICK r, B : CheckStep(r, B)
    BY <1>7, InvCheck
  <2> QED BY <2>1, CheckKeeps
<1>8. CASE UNCHANGED vars
  <2>1. /\ test' = test /\ tx' = tx /\ rx' = rx /\ n' = n /\ line' = line
        /\ changed' = changed /\ lost' = lost /\ behind' = behind
    BY <1>8 DEF vars
  <2>2. TypeOK' /\ InTurnHasData' /\ Chronological' /\ Sends' /\ Counted'
    BY <2>1 DEF IInv, TypeOK, InTurnHasData, Chronological, Sends, Counted
  <2>3. Reported'
    BY <2>1 DEF IInv, Reported, Compared
  <2>4. Idle'
    BY <2>1 DEF IInv, Idle, Follows, InStep
  <2>5. UnderWay'
    <3>1. SUFFICES ASSUME line # NoBlock PROVE UnderWay'
      BY <2>1 DEF UnderWay
    <3>2. PICK s \in Value : Carries(s) /\ Follows(s, Cardinality(Damaged))
      BY <3>1 DEF IInv, UnderWay
    <3>3. Damaged' = Damaged
      BY <2>1 DEF Damaged
    <3>4. Typed(s)' = Typed(s)
      BY <2>1 DEF Typed
    <3>5. ASSUME NEW j PROVE Word(Typed(s), n - 1, j)' = Word(Typed(s), n - 1, j)
      BY <3>4, <2>1
    <3>6. Sent(s, n - 1)' = Sent(s, n - 1)
      BY <3>5, <2>1 DEF Sent
    <3>7. After(s)' = After(s)
      BY <2>1 DEF After, Typed
    <3>8. Carries(s)'
      BY <3>2, <3>3, <3>6, <3>7, <2>1 DEF Carries
    <3>9. Follows(s, Cardinality(Damaged))'
      BY <3>2, <3>3, <2>1 DEF Follows, InStep
    <3> QED BY <3>8, <3>9 DEF UnderWay
  <2> QED BY <2>2, <2>3, <2>4, <2>5 DEF IInv
<1> QED BY <1>1, <1>2, <1>3, <1>4, <1>5, <1>6, <1>7, <1>8 DEF Next

(* Whatever blocks are sent, damaged and lost, the two ends hold values of  *)
(* their types, the block under way is the one sent but for the damaged     *)
(* words, and until a block is lost the checker is in step with the sender. *)
THEOREM EndsInStep == Spec => []IInv
BY InitIInv, NextIInv, PTL DEF Spec

LEMMA IInvReportsDamage == IInv => ReportsDamage
<1> SUFFICES ASSUME IInv PROVE ReportsDamage
  OBVIOUS
<1> DEFINE seen == {k \in DOMAIN changed : /\ changed[k][1] < rx.buf_current
                                           /\ test \in 10 .. 15 => changed[k][2] = 0}
           most == IF MaxErrors < Cardinality(seen) THEN MaxErrors ELSE Cardinality(seen)
<1>1. seen = Compared(rx.buf_current) /\ most = Least2(MaxErrors, Cardinality(seen))
  BY DEF Compared, Least2
<1>2. test # Psd /\ lost = 0 =>
        /\ rx.word_cnt_error = Cardinality(seen)
        /\ rx.word_error = [j \in 1 .. most |-> changed[InOrder(seen)[j]]]
        /\ rx.buf_cnt_error = Cardinality({changed[k][1] : k \in seen})
  <2> HIDE DEF seen, most
  <2> QED BY <1>1 DEF IInv, Reported
<1>3. rx.buf_cnt_ok + rx.buf_cnt_error = rx.buf_current
  BY DEF IInv, Counted
<1> DEFINE m == Len(changed)
           e == rx.word_cnt_error
<1>4. m \in Nat /\ e \in Nat /\ lost \in Nat /\ behind \in Nat
  BY Positions DEF IInv, TypeOK, Checker
<1>5. \E s, d : d \in Nat /\ Follows(s, d)
  <2>1. CASE line = NoBlock
    BY <2>1 DEF IInv, Idle
  <2>2. CASE line # NoBlock
    <3>1. Cardinality(Damaged) \in Nat
      BY DamagedWords DEF IInv
    <3> QED BY <3>1, <2>2 DEF IInv, UnderWay
  <2> QED BY <2>1, <2>2
<1>6. PICK s, d : d \in Nat /\ Follows(s, d)
  BY <1>5
<1>7. /\ test = Psd => e + (IF rx.data_ex_psd = s.data_ex_psd THEN 0 ELSE 1) <= 2 * (m - d) + lost
      /\ test \in 0 .. 3 => e <= m - d + behind
  BY <1>6 DEF Follows
<1> HIDE DEF m, e
<1>8. /\ test = Psd => e <= 2 * m + lost
      /\ test \in 0 .. 3 => e <= m + behind
  BY <1>4, <1>6, <1>7
<1> HIDE DEF seen, most
<1> QED BY <1>2, <1>3, <1>8 DEF ReportsDamage, seen, most, m, e

(* Until a block is lost, buf_check and buf_check_inv report the words      *)
(* damaged on the way and no other, in order, as many as word_error holds;  *)
(* two errors for a damaged word and one for a lost block are the most that *)
(* buf_check_psd reports, and a loss costs types 0 to 3 one error a block.  *)
THEOREM DamageIsReported == Spec => []ReportsDamage
BY EndsInStep, IInvReportsDamage, PTL

================================================================================
