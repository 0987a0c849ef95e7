--------------------------- MODULE AccountProofs ---------------------------
(***************************************************************************)
(* The accounts: what a device has agrees with what the mainchain says it  *)
(* has, and what it has frozen covers the deals it waits for.              *)
(***************************************************************************)
EXTENDS DealProofs

-----------------------------------------------------------------------------
(* Sums of prices *)

\* Induction up to a bound, for a set.
LEMMA IntervalInduction ==
    ASSUME NEW L \in Nat, NEW S, 0 \in S,
           \A i \in 1 .. L : i - 1 \in S => i \in S
    PROVE  \A i \in 0 .. L : i \in S
<1>. SUFFICES ASSUME NEW j \in 0 .. L, j \notin S PROVE FALSE
  OBVIOUS
<1>. DEFINE T == {i \in 0 .. L : i \notin S}
<1>1. T \subseteq Nat /\ T # {}
  OBVIOUS
<1>2. PICK i \in T : \A y \in T : ~(<<y, i>> \in OpToRel(<, Nat))
  <2>. HIDE DEF T
  <2>. QED  BY <1>1, NatLessThanWellFounded, WFMin
<1>3. i \in 0 .. L /\ i \notin S
  OBVIOUS
<1>4. i \in 1 .. L /\ i - 1 \in 0 .. L
  BY <1>3
<1>5. i - 1 \notin S
  BY <1>3, <1>4
<1>6. i - 1 \in T /\ i - 1 \in Nat /\ i \in Nat /\ i - 1 < i
  BY <1>4, <1>5
<1>7. <<i - 1, i>> \in OpToRel(<, Nat)
  BY <1>6 DEF OpToRel
<1>8. ~(<<i - 1, i>> \in OpToRel(<, Nat))
  BY <1>2, <1>6
<1>. QED  BY <1>7, <1>8, Zenon

\* The partial sums of the prices of N.
Sums(N, L) ==
    {f \in [0 .. L -> Int] :
        /\ f[0] = 0
        /\ \A n \in 1 .. L : f[n] = f[n - 1] + (IF n \in N THEN Price(n) ELSE 0)}

LEMMA LenNat == Len(Deals) \in Nat /\ TxIndex = 1 .. Len(Deals)
                /\ \A n \in TxIndex : Price(n) \in Nat /\ Price(n) < Word
BY LenProperties, LayerAssumption, DealTypes DEF TxIndex, Amount

LEMMA SumsExist ==
    ASSUME NEW N, NEW L \in 0 .. Len(Deals)
    PROVE  Sums(N, L) # {}
<1>. DEFINE S == {k \in 0 .. Len(Deals) : Sums(N, k) # {}}
<1>1. 0 \in S
  <2>1. [n \in 0 .. 0 |-> 0] \in Sums(N, 0)
    BY DEF Sums
  <2>. QED  BY <2>1, LenNat
<1>2. ASSUME NEW i \in 1 .. Len(Deals), i - 1 \in S PROVE i \in S
  <2>1. PICK f : f \in Sums(N, i - 1)
    BY <1>2
  <2>. DEFINE x == f[i - 1] + (IF i \in N THEN Price(i) ELSE 0)
              g == [n \in 0 .. i |-> IF n = i THEN x ELSE f[n]]
  <2>2. x \in Int /\ i \in Nat
    BY <2>1, LenNat DEF Sums
  <2>3. g \in [0 .. i -> Int]
    BY <2>1, <2>2 DEF Sums
  <2>4. g[0] = 0
    BY <2>1, <2>2, LenNat DEF Sums
  <2>5. ASSUME NEW n \in 1 .. i
        PROVE  g[n] = g[n - 1] + (IF n \in N THEN Price(n) ELSE 0)
    <3>1. CASE n = i
      <4>1. i - 1 \in 0 .. i /\ i - 1 # i
        BY LenNat
      <4>. QED  BY <3>1, <4>1
    <3>2. CASE n # i
      <4>1. n \in 1 .. i - 1 /\ n - 1 \in 0 .. i /\ n - 1 # i
        BY <3>2, <2>2
      <4>. QED  BY <2>1, <3>2, <4>1 DEF Sums
    <3>. QED  BY <3>1, <3>2
  <2>6. g \in Sums(N, i)
    <3>. HIDE DEF g
    <3>. QED  BY <2>3, <2>4, <2>5 DEF Sums
  <2>. QED  BY <2>6
<1>. HIDE DEF S
<1>3. \A i \in 0 .. Len(Deals) : i \in S
  BY <1>1, <1>2, IntervalInduction, LenNat
<1>. QED  BY <1>3 DEF S

\* PriceSum is the last partial sum.
LEMMA PriceSumDef ==
    ASSUME NEW N
    PROVE  \E f \in Sums(N, Len(Deals)) : PriceSum(N) = f[Len(Deals)]
<1>. DEFINE sum[n \in 0 .. Len(Deals)] ==
              IF n = 0 THEN 0 ELSE sum[n - 1] + (IF n \in N THEN Price(n) ELSE 0)
            Rec(f) == f = [n \in 0 .. Len(Deals) |->
              IF n = 0 THEN 0 ELSE f[n - 1] + (IF n \in N THEN Price(n) ELSE 0)]
<1>1. PriceSum(N) = sum[Len(Deals)]
  BY DEF PriceSum
<1>2. PICK f \in Sums(N, Len(Deals)) : TRUE
  BY SumsExist, LenNat
<1>3. Rec(f)
  BY <1>2, LenNat DEF Sums
<1>4. sum = CHOOSE g : Rec(g)
  OBVIOUS
<1>5. Rec(sum)
  <2>. HIDE DEF sum, Rec
  <2>. QED  BY <1>3, <1>4
<1>6. sum \in Sums(N, Len(Deals))
  <2>. DEFINE x(n) == IF n = 0 THEN 0 ELSE sum[n - 1] + (IF n \in N THEN Price(n) ELSE 0)
  <2>. HIDE DEF sum
  <2>1. DOMAIN sum = 0 .. Len(Deals) /\ \A n \in 0 .. Len(Deals) : sum[n] = x(n)
    BY <1>5
  <2>. DEFINE S == {k \in 0 .. Len(Deals) : sum[k] \in Int}
  <2>2. 0 \in S
    BY <2>1, LenNat
  <2>3. ASSUME NEW i \in 1 .. Len(Deals), i - 1 \in S PROVE i \in S
    BY <2>1, <2>3, LenNat
  <2>. HIDE DEF S
  <2>4. \A i \in 0 .. Len(Deals) : i \in S
    BY <2>2, <2>3, IntervalInduction, LenNat
  <2>5. sum = [n \in 0 .. Len(Deals) |-> sum[n]]
    BY <1>5
  <2>6. sum \in [0 .. Len(Deals) -> Int]
    BY <2>4, <2>5 DEF S
  <2>. QED  BY <2>1, <2>6, LenNat DEF Sums
<1>. HIDE DEF sum, Rec
<1>. QED  BY <1>1, <1>6

LEMMA SumType ==
    ASSUME NEW N
    PROVE  PriceSum(N) \in Nat
<1>1. PICK f \in Sums(N, Len(Deals)) : PriceSum(N) = f[Len(Deals)]
  BY PriceSumDef
<1>. DEFINE S == {k \in 0 .. Len(Deals) : f[k] \in Nat}
<1>2. 0 \in S
  BY <1>1, LenNat DEF Sums
<1>3. ASSUME NEW i \in 1 .. Len(Deals), i - 1 \in S PROVE i \in S
  BY <1>1, <1>3, LenNat DEF Sums
<1>. HIDE DEF S
<1>4. \A i \in 0 .. Len(Deals) : i \in S
  BY <1>2, <1>3, IntervalInduction, LenNat
<1>. QED  BY <1>1, <1>4, LenNat DEF S

\* Sums of more deals are larger.
LEMMA SumLess ==
    ASSUME NEW M, NEW N, \A n \in TxIndex : n \in M => n \in N
    PROVE  PriceSum(M) <= PriceSum(N)
<1>1. PICK f \in Sums(M, Len(Deals)) : PriceSum(M) = f[Len(Deals)]
  BY PriceSumDef
<1>2. PICK g \in Sums(N, Len(Deals)) : PriceSum(N) = g[Len(Deals)]
  BY PriceSumDef
<1>. DEFINE S == {k \in 0 .. Len(Deals) : f[k] <= g[k]}
<1>3. 0 \in S
  BY <1>1, <1>2, LenNat DEF Sums
<1>4. ASSUME NEW i \in 1 .. Len(Deals), i - 1 \in S PROVE i \in S
  <2>1. /\ f[i] = f[i - 1] + (IF i \in M THEN Price(i) ELSE 0)
        /\ g[i] = g[i - 1] + (IF i \in N THEN Price(i) ELSE 0)
        /\ i - 1 \in 0 .. Len(Deals) /\ f[i - 1] \in Int /\ g[i - 1] \in Int
    BY <1>1, <1>2, LenNat DEF Sums
  <2>2. f[i - 1] <= g[i - 1] /\ Price(i) \in Nat /\ (i \in M => i \in N)
    BY <1>4, LenNat
  <2>. QED  BY <2>1, <2>2
<1>. HIDE DEF S
<1>5. \A i \in 0 .. Len(Deals) : i \in S
  BY <1>3, <1>4, IntervalInduction, LenNat
<1>. QED  BY <1>1, <1>2, <1>5, LenNat DEF S

LEMMA SumSame ==
    ASSUME NEW M, NEW N, \A n \in TxIndex : n \in M <=> n \in N
    PROVE  PriceSum(M) = PriceSum(N)
<1>1. PriceSum(M) <= PriceSum(N) /\ PriceSum(N) <= PriceSum(M)
  BY SumLess
<1>. QED  BY <1>1, SumType

\* The sum of the deals of M, one of which is gone or has come.
LEMMA SumChange ==
    ASSUME NEW M, NEW N, NEW k \in TxIndex, k \notin M, k \in N,
           \A n \in TxIndex \ {k} : n \in M <=> n \in N
    PROVE  PriceSum(N) = PriceSum(M) + Price(k)
<1>1. PICK f \in Sums(M, Len(Deals)) : PriceSum(M) = f[Len(Deals)]
  BY PriceSumDef
<1>2. PICK g \in Sums(N, Len(Deals)) : PriceSum(N) = g[Len(Deals)]
  BY PriceSumDef
<1>. DEFINE S == {i \in 0 .. Len(Deals) :
                     g[i] = f[i] + (IF i >= k THEN Price(k) ELSE 0)}
<1>3. 0 \in S
  BY <1>1, <1>2, LenNat DEF Sums
<1>4. ASSUME NEW i \in 1 .. Len(Deals), i - 1 \in S PROVE i \in S
  <2>1. /\ f[i] = f[i - 1] + (IF i \in M THEN Price(i) ELSE 0)
        /\ g[i] = g[i - 1] + (IF i \in N THEN Price(i) ELSE 0)
        /\ i - 1 \in 0 .. Len(Deals) /\ f[i - 1] \in Int /\ g[i - 1] \in Int
    BY <1>1, <1>2, LenNat DEF Sums
  <2>2. /\ g[i - 1] = f[i - 1] + (IF i - 1 >= k THEN Price(k) ELSE 0)
        /\ Price(i) \in Nat /\ Price(k) \in Nat /\ k \in Nat /\ i \in Nat
    BY <1>4, LenNat
  <2>3. CASE i = k
    <3>1. ~(i - 1 >= k) /\ i >= k
      BY <2>2, <2>3
    <3>. QED  BY <2>1, <2>2, <2>3, <3>1
  <2>4. CASE i # k
    <3>1. i \in M <=> i \in N
      BY <2>4, LenNat
    <3>2. i - 1 >= k <=> i >= k
      BY <2>2, <2>4
    <3>. QED  BY <2>1, <2>2, <3>1, <3>2
  <2>. QED  BY <2>3, <2>4
<1>. HIDE DEF S
<1>5. \A i \in 0 .. Len(Deals) : i \in S
  BY <1>3, <1>4, IntervalInduction, LenNat
<1>6. Len(Deals) >= k
  BY LenNat
<1>. QED  BY <1>1, <1>2, <1>5, <1>6, LenNat DEF S

LEMMA SumNone ==
    ASSUME NEW N, \A n \in TxIndex : n \notin N
    PROVE  PriceSum(N) = 0
<1>1. PICK f \in Sums(N, Len(Deals)) : PriceSum(N) = f[Len(Deals)]
  BY PriceSumDef
<1>. DEFINE S == {i \in 0 .. Len(Deals) : f[i] = 0}
<1>2. 0 \in S
  BY <1>1, LenNat DEF Sums
<1>3. ASSUME NEW i \in 1 .. Len(Deals), i - 1 \in S PROVE i \in S
  BY <1>1, <1>3, LenNat DEF Sums
<1>. HIDE DEF S
<1>4. \A i \in 0 .. Len(Deals) : i \in S
  BY <1>2, <1>3, IntervalInduction, LenNat
<1>. QED  BY <1>1, <1>4, LenNat DEF S

-----------------------------------------------------------------------------
(* Counters modulo Word *)

\* a and b are the same value of a uint32.
Wraps(a, b) == \E k \in Int : a = b + Word * k

LEMMA AddWraps ==
    ASSUME NEW a \in Amount, NEW b \in Amount
    PROVE  /\ Add(a, b) = a + b \/ Add(a, b) = a + b - Word
           /\ a + b < Word => Add(a, b) = a + b
<1>1. Word \in Nat \ {0}
  BY LayerAssumption
<1>2. \A x \in 0 .. Word - 1 : x % Word = x /\ (Word * 1 + x) % Word = x
  BY <1>1
<1>3. CASE a + b < Word
  BY <1>1, <1>2, <1>3 DEF Add, Amount
<1>4. CASE ~(a + b < Word)
  <2>1. a + b - Word \in 0 .. Word - 1 /\ a + b = Word * 1 + (a + b - Word)
    BY <1>1, <1>4 DEF Amount
  <2>2. (a + b) % Word = a + b - Word
    BY <1>2, <2>1
  <2>. QED  BY <1>4, <2>2 DEF Add
<1>. QED  BY <1>3, <1>4

LEMMA SubWraps ==
    ASSUME NEW a \in Amount, NEW b \in Amount
    PROVE  Sub(a, b) = a - b \/ Sub(a, b) = a - b + Word
<1>1. Word \in Nat \ {0}
  BY LayerAssumption
<1>2. \A x \in 0 .. Word - 1 : x % Word = x /\ (Word * (-1) + x) % Word = x
  BY <1>1
<1>3. CASE b <= a
  BY <1>3, SubExact
<1>4. CASE ~(b <= a)
  <2>1. a - b + Word \in 0 .. Word - 1 /\ a - b = Word * (-1) + (a - b + Word)
    BY <1>1, <1>4 DEF Amount
  <2>2. (a - b) % Word = a - b + Word
    BY <1>2, <2>1
  <2>. QED  BY <2>2 DEF Sub
<1>. QED  BY <1>3, <1>4

\* Division with remainder, for a number of any size.
LEMMA Remainder ==
    ASSUME NEW b \in Nat
    PROVE  \E q \in Int, r \in 0 .. Word - 1 : b = Word * q + r
<1>0. Word \in Nat \ {0}
  BY LayerAssumption
<1>. DEFINE P(i) == \E q \in Int, r \in 0 .. Word - 1 : i = Word * q + r
            S == {i \in 0 .. b : P(i)}
<1>1. 0 \in S
  <2>1. 0 = Word * 0 + 0 /\ 0 \in 0 .. Word - 1
    BY <1>0
  <2>. QED  BY <2>1
<1>2. ASSUME NEW i \in 1 .. b, i - 1 \in S PROVE i \in S
  <2>1. PICK q \in Int, r \in 0 .. Word - 1 : i - 1 = Word * q + r
    BY <1>2
  <2>2. CASE r < Word - 1
    <3>1. i = Word * q + (r + 1) /\ r + 1 \in 0 .. Word - 1
      BY <1>0, <2>1, <2>2
    <3>. QED  BY <3>1
  <2>3. CASE r = Word - 1
    <3>1. i = Word * (q + 1) + 0 /\ 0 \in 0 .. Word - 1 /\ q + 1 \in Int
      BY <1>0, <2>1, <2>3
    <3>. QED  BY <3>1
  <2>. QED  BY <1>0, <2>2, <2>3
<1>. HIDE DEF S
<1>3. b \in S
  BY <1>1, <1>2, IntervalInduction
<1>. QED  BY <1>3 DEF S

LEMMA WrapsSame ==
    ASSUME NEW a \in Nat, NEW b \in Nat, Wraps(a, b)
    PROVE  a % Word = b % Word
<1>0. Word \in Nat \ {0}
  BY LayerAssumption
<1>1. PICK k \in Int : a = b + Word * k
  BY DEF Wraps
<1>2. PICK q \in Int, r \in 0 .. Word - 1 : b = Word * q + r
  BY Remainder
<1>3. a = Word * (q + k) + r /\ q + k \in Int
  BY <1>0, <1>1, <1>2
<1>4. \A i \in Int : (Word * i + r) % Word = r
  BY <1>0
<1>. QED  BY <1>2, <1>3, <1>4

\* Both sides move by the same amount, up to multiples of Word.
LEMMA WrapsMove ==
    ASSUME NEW a \in Int, NEW b \in Int, NEW x \in Int, NEW i \in Int, NEW j \in Int,
           Wraps(a, b)
    PROVE  Wraps(a + x + Word * i, b + x + Word * j)
<1>0. Word \in Int
  BY LayerAssumption
<1>1. PICK k \in Int : a = b + Word * k
  BY DEF Wraps
<1>2. k + i - j \in Int
      /\ a + x + Word * i = (b + x + Word * j) + Word * (k + i - j)
  BY <1>0, <1>1
<1>. QED  BY <1>2 DEF Wraps

-----------------------------------------------------------------------------
(* A deal is confirmed once *)

\* Deal n may still be confirmed: it is not taken yet, or it is in a queue or
\* an unconfirmed node.  That its node has failed makes no difference.
Open(n) ==
    \/ n > g_index
    \/ Copies(n) > 0
    \/ \E x \in dag : x.tx = n /\ ~x.confirmed

\* The notices of a confirmation are sent once, and only when the deal is
\* confirmed.  Before main() has initialised g_mainchain there are none that
\* g_mainchain.queue=NULL could lose.
PairOnce(n) ==
    \A s \in {"SRC", "DST"} :
        /\ Noticed(n, {s}) <= 1
        /\ Open(n) => Noticed(n, {s}) = 0
        /\ ~booted => Noticed(n, {s}) = 0
PairInv ==
    /\ ~booted => g_cs # Main /\ dag = {}
    /\ \A n \in TxIndex : PairOnce(n)

LEMMA OpenStep ==
    ASSUME TypeOK, [Next]_vars, NEW k \in TxIndex, Open(k)'
    PROVE  Open(k)
<1>0. Effect
  BY StepEffect
<1>1. /\ dag \in SUBSET Node /\ g_index \in Nat /\ TxIndex \subseteq Nat
      /\ Copies(k) \in Nat /\ Copies(k)' \in Nat
  <2>1. TypeOK'
    BY TypeStep
  <2>2. queue \in [Thread -> Seq(Message)] /\ queue' \in [Thread -> Seq(Message)]
    BY <2>1 DEF TypeOK
  <2>3. Copies(k) \in Nat /\ Copies(k)' \in Nat
    BY <2>2, TallyType DEF Copies
  <2>4. g_index \in Nat /\ TxIndex \subseteq Nat
    BY LenNat DEF TypeOK
  <2>. QED  BY <2>3, <2>4 DEF TypeOK
<1>2. \A n \in TxIndex : Waits(Transaction(n)) => Open(n)
  BY WaitsDeal DEF Open, Copies
<1>3. CASE dag' = dag /\ g_index' >= g_index /\ g_index' \in Nat
           /\ Copies(k)' <= Copies(k)
  BY <1>1, <1>3 DEF Open
<1>4. CASE Idle \/ Cleared \/ Skipped
  BY <1>1, <1>3, <1>4, CopiesStep DEF Idle, Cleared, Skipped
<1>5. CASE Issued
  <2>1. g_index + 1 \in TxIndex /\ g_index' = g_index + 1 /\ dag' = dag
    BY <1>5 DEF Issued
  <2>. QED  BY <1>1, <1>5, <2>1, CopiesStep DEF Open
<1>6. ASSUME NEW n \in TxIndex, Dropped(n) \/ Refused(n) PROVE Open(k)
  <2>1. Copies(k)' <= Copies(k)
    BY <1>1, <1>6, CopiesStep
  <2>. QED  BY <1>1, <1>3, <1>6, <2>1 DEF Dropped, Refused
<1>7. ASSUME NEW d \in Device, NEW m \in LedgerMsg, Settled(d, m) PROVE Open(k)
  BY <1>1, <1>3, <1>7, CopiesStep DEF Settled
<1>8. ASSUME NEW n \in TxIndex, Placed(n) PROVE Open(k)
  <2>1. Copies(k)' = Copies(k) - (IF k = n THEN 1 ELSE 0)
    BY <1>8, CopiesStep
  <2>2. \A x \in dag' : x = Tip(n) \/ x \in dag
    BY <1>8, PlacedNodes
  <2>3. g_index' = g_index /\ Open(n)
    BY <1>2, <1>8 DEF Placed
  <2>. QED  BY <1>1, <2>1, <2>2, <2>3, NodeFacts DEF Open
<1>9. ASSUME NEW n \in TxIndex, NEW bad \in Node, Failed(n, bad) PROVE Open(k)
  <2>1. Copies(k)' = Copies(k) - (IF k = n THEN 1 ELSE 0)
    BY <1>9, CopiesStep
  <2>2. dag' = (dag \ {bad}) \cup {Fail(bad)} /\ bad \in dag /\ g_index' = g_index
    BY <1>9, FailedNodes DEF Failed
  <2>. QED  BY <1>1, <2>1, <2>2, NodeFacts DEF Open
<1>10. ASSUME NEW n \in TxIndex, NEW trunk \in Node, NEW branch \in Node,
              Attached(n, trunk, branch)
       PROVE  Open(k)
  <2>1. Copies(k)' = Copies(k) - (IF k = n THEN 1 ELSE 0)
    BY <1>10, CopiesStep
  <2>2. \A x \in dag' : \/ x = Tip(n)
                        \/ x \in dag \ {trunk, branch}
                        \/ x = Confirm(trunk)
                        \/ x = Confirm(branch)
    BY <1>10, AttachedNodes
  <2>3. g_index' = g_index /\ Open(n)
    BY <1>2, <1>10 DEF Attached
  <2>. QED  BY <1>1, <2>1, <2>2, <2>3, NodeFacts DEF Open
<1>. QED
  BY <1>0, <1>4, <1>5, <1>6, <1>7, <1>8, <1>9, <1>10 DEF Effect

\* A deal that is confirmed is open before, and not after.
LEMMA ConfirmedCloses ==
    ASSUME TypeOK, OneCopyInv, [Next]_vars, NEW n \in TxIndex,
           NEW trunk \in Node, NEW branch \in Node, Attached(n, trunk, branch),
           NEW x \in {trunk, branch}, ~x.confirmed
    PROVE  Open(x.tx) /\ ~Open(x.tx)'
<1>0. trunk \in dag /\ branch \in dag /\ x \in dag /\ x \in Node /\ x.tx \in TxIndex
  BY AttachedNodes, NodeFacts
<1>1. Open(x.tx)
  BY <1>0 DEF Open
<1>. DEFINE k == x.tx
<1>2. Copies(k)' = Copies(k) - (IF k = n THEN 1 ELSE 0) /\ Copies(k) = 0
  BY <1>0, CopiesStep DEF OneCopyInv, Single
<1>3. Copies(k)' \in Nat
  <2>1. TypeOK'
    BY TypeStep
  <2>2. queue' \in [Thread -> Seq(Message)]
    BY <2>1 DEF TypeOK
  <2>. QED  BY <2>2, TallyType DEF Copies
<1>4. k # n
  BY <1>2, <1>3
<1>5. ASSUME NEW y \in dag', y.tx = k PROVE y.confirmed
  <2>1. \/ y = Tip(n)
        \/ y \in dag \ {trunk, branch}
        \/ y = Confirm(trunk)
        \/ y = Confirm(branch)
    BY AttachedNodes
  <2>2. y # Tip(n)
    BY <1>4, <1>5, NodeFacts
  <2>3. y \notin dag \ {trunk, branch}
    BY <1>0, <1>5 DEF OneCopyInv, Single
  <2>. QED  BY <2>1, <2>2, <2>3, NodeFacts
<1>6. g_index' = g_index /\ ~(k > g_index)
  BY <1>0 DEF Attached, OneCopyInv, Single
<1>. QED  BY <1>1, <1>2, <1>4, <1>5, <1>6 DEF Open, Copies

\* Which of the two tips an attached deal confirms, as counts of a notice.
LEMMA PairAttached ==
    ASSUME TypeOK, OneCopyInv, NEW n \in TxIndex, NEW trunk \in Node,
           NEW branch \in Node, Attached(n, trunk, branch),
           NEW k \in TxIndex, NEW s \in {"SRC", "DST"}
    PROVE  Noticed(k, {s})' = Noticed(k, {s})
              + (IF \E x \in {trunk, branch} : x.tx = k /\ ~x.confirmed THEN 1 ELSE 0)
<1>1. {s} \in SUBSET Status /\ Noticed(k, {s}) \in Nat
  BY KindTypes, NoticedType
<1>2. /\ trunk \in dag /\ branch \in dag
      /\ trunk.tx \in TxIndex /\ branch.tx \in TxIndex
  BY AttachedNodes, NodeFacts
<1>3. trunk.tx = branch.tx => trunk = branch
  BY <1>2 DEF OneCopyInv, Single
<1>4. /\ IsPair(trunk.tx, NoticeOf(k, {s})) = IF trunk.tx = k THEN 1 ELSE 0
      /\ IsPair(branch.tx, NoticeOf(k, {s})) = IF branch.tx = k THEN 1 ELSE 0
  BY <1>1, <1>2, PairCounts
<1>5. Noticed(k, {s})' = Noticed(k, {s})
         + (IF ~trunk.confirmed THEN IsPair(trunk.tx, NoticeOf(k, {s})) ELSE 0)
         + (IF ~branch.confirmed /\ trunk # branch
            THEN IsPair(branch.tx, NoticeOf(k, {s})) ELSE 0)
  BY <1>1, NoticedAttached
<1>. QED  BY <1>1, <1>3, <1>4, <1>5

LEMMA PairInit == Init => PairInv
<1>. SUFFICES ASSUME Init PROVE PairInv
  OBVIOUS
<1>1. queue \in [Thread -> Seq(Message)]
  BY InitType DEF TypeOK
<1>2. ASSUME NEW n \in TxIndex, NEW s \in {"SRC", "DST"}
      PROVE  Noticed(n, {s}) = 0
  <2>1. ASSUME NEW t \in Thread, NEW i \in DOMAIN queue[t]
        PROVE  queue[t][i] \notin NoticeOf(n, {s})
    <3>1. t \in Device /\ queue[t] = <<EmptyIndex(t)>>
      BY DEF Init, Thread
    <3>2. queue[t][i] = EmptyIndex(t)
      BY <3>1
    <3>. QED  BY <3>1, <3>2, NewEmptyIndex, PayloadTypes, KindTypes
  <2>. QED  BY <1>1, <2>1, CountNone DEF Tally, Noticed
<1>. QED  BY <1>2 DEF PairInv, PairOnce, Init, Nobody, Main

LEMMA PairStep ==
    ASSUME TypeOK, OneCopyInv, PairInv, [Next]_vars, NEW k \in TxIndex
    PROVE  PairOnce(k)'
<1>. SUFFICES ASSUME NEW s \in {"SRC", "DST"}
              PROVE  /\ Noticed(k, {s})' <= 1
                     /\ Open(k)' => Noticed(k, {s})' = 0
                     /\ ~booted' => Noticed(k, {s})' = 0
  BY DEF PairOnce
<1>0. Effect /\ TypeOK'
  BY StepEffect, TypeStep
<1>1. Noticed(k, {s}) \in Nat /\ Noticed(k, {s})' \in Nat
  <2>1. queue \in [Thread -> Seq(Message)] /\ queue' \in [Thread -> Seq(Message)]
    BY <1>0 DEF TypeOK
  <2>. QED  BY <2>1, TallyType DEF Noticed
<1>2. /\ Noticed(k, {s}) <= 1
      /\ Open(k) => Noticed(k, {s}) = 0
      /\ ~booted => Noticed(k, {s}) = 0
  BY DEF PairInv, PairOnce
<1>3. Open(k)' => Open(k)
  BY OpenStep
<1>4. {s} \in SUBSET Status /\ "LEDGER" \notin {s} /\ "DEVICE" \notin {s}
  BY KindTypes
<1>5. booted' = booted \/ booted'
  BY <1>0
  DEF Effect, Idle, Cleared, Skipped, Issued, Dropped, Refused, Settled, Placed,
      Failed, Attached
<1>6. CASE Noticed(k, {s})' <= Noticed(k, {s})
  BY <1>1, <1>2, <1>3, <1>5, <1>6
<1>7. CASE Idle \/ Skipped \/ Issued \/ Cleared
  BY <1>1, <1>4, <1>6, <1>7, NoticedStep
<1>8. ASSUME NEW n \in TxIndex, Dropped(n) \/ Placed(n) \/ Refused(n)
      PROVE  Noticed(k, {s})' <= Noticed(k, {s})
  BY <1>1, <1>4, <1>8, NoticedStep
<1>9. ASSUME NEW d \in Device, NEW m \in LedgerMsg, Settled(d, m)
      PROVE  Noticed(k, {s})' <= Noticed(k, {s})
  BY <1>1, <1>4, <1>9, NoticedSettled
<1>10. ASSUME NEW n \in TxIndex, NEW bad \in Node, Failed(n, bad)
       PROVE  Noticed(k, {s})' <= Noticed(k, {s})
  BY <1>1, <1>4, <1>10, NoticedFailed
<1>11. ASSUME NEW n \in TxIndex, NEW trunk \in Node, NEW branch \in Node,
              Attached(n, trunk, branch)
       PROVE  /\ Noticed(k, {s})' <= 1
              /\ Open(k)' => Noticed(k, {s})' = 0
              /\ ~booted' => Noticed(k, {s})' = 0
  <2>1. Noticed(k, {s})' = Noticed(k, {s})
          + (IF \E x \in {trunk, branch} : x.tx = k /\ ~x.confirmed THEN 1 ELSE 0)
    BY <1>11, PairAttached
  <2>2. booted' = booted /\ g_cs = Main
    BY <1>11 DEF Attached
  <2>3. booted
    BY <2>2 DEF PairInv
  <2>4. CASE \E x \in {trunk, branch} : x.tx = k /\ ~x.confirmed
    <3>1. Open(k) /\ ~Open(k)'
      BY <1>11, <2>4, ConfirmedCloses
    <3>. QED  BY <1>1, <1>2, <2>1, <2>2, <2>3, <3>1
  <2>5. CASE ~\E x \in {trunk, branch} : x.tx = k /\ ~x.confirmed
    <3>1. Noticed(k, {s})' = Noticed(k, {s})
      BY <1>1, <2>1, <2>5
    <3>. QED  BY <1>2, <1>3, <2>2, <2>3, <3>1
  <2>. QED  BY <2>4, <2>5
<1>. QED
  BY <1>0, <1>6, <1>7, <1>8, <1>9, <1>10, <1>11 DEF Effect

LEMMA BootStep ==
    ASSUME TypeOK, PairInv, [Next]_vars
    PROVE  ~booted' => g_cs' # Main /\ dag' = {}
<1>. SUFFICES ASSUME ~booted' PROVE g_cs' # Main /\ dag' = {}
  OBVIOUS
<1>1. \A d \in Device : d # Main /\ Nobody # Main
  BY LayerAssumption DEF Device, Main, Nobody
<1>2. Effect
  BY StepEffect
<1>3. ~booted /\ g_cs # Main /\ dag = {}
  <2>1. booted' = booted \/ booted'
    BY <1>2
    DEF Effect, Idle, Cleared, Skipped, Issued, Dropped, Refused, Settled, Placed,
        Failed, Attached
  <2>. QED  BY <2>1 DEF PairInv
<1>4. dag' = dag
  BY <1>2, <1>3
  DEF Effect, Idle, Cleared, Skipped, Issued, Dropped, Refused, Settled, Placed,
      Failed, Attached
<1>5. g_cs' # Main
  <2>1. CASE StartMainchain \/ Timer \/ ProcessMainchain \/ UNCHANGED vars
    BY <1>3, <2>1 DEF StartMainchain, Timer, ProcessMainchain, vars, callVars
  <2>2. ASSUME NEW d \in Device, ProcessDevice(d) PROVE g_cs' # Main
    BY <1>1, <2>2 DEF ProcessDevice
  <2>3. ASSUME NEW d \in Device, DeviceCall(d) PROVE g_cs' # Main
    BY <1>1, <1>3, <2>3
    DEF DeviceCall, ConnectRecv, ConnectSend, TransactionDrop, TransactionRecv,
        TransactionNone, TransactionIssue, LedgerRecv, LedgerUnknown, LedgerSend,
        Leave, callVars
  <2>4. ASSUME MainCall PROVE FALSE
    BY <1>3, <2>4
    DEF MainCall, MainConnectRecv, MainConnectSend, MainTransactionDrop,
        MainTransactionReuse, MainTransactionGenesis, MainTransactionDefer,
        MainTransactionFail, MainTransactionAttach, MainTransactionSend,
        MainLedgerSkip, MainLedgerFault, MainLedgerEnd, MainTakes, MainApproves,
        MainRuns
  <2>. QED  BY <2>1, <2>2, <2>3, <2>4 DEF Next, Call
<1>. QED  BY <1>3, <1>4, <1>5

-----------------------------------------------------------------------------
(* The two accounts of a device agree *)

\* The device a notice of status s is about.
End(n, s) == IF s = "DST" THEN Dst(n) ELSE Src(n)

\* The deals whose notice of status s is on its way to device d.
Due(d, s) == {n \in TxIndex : End(n, s) = d /\ Noticed(n, {s}) > 0}

\* The inductive invariant of AccountsAgree.  The counters of layer.h are
\* uint32: the difference is a multiple of Word.
Agree(d) == Wraps(token[d] + frozen[d] + PriceSum(Due(d, "DST")),
                  balance[d] + PriceSum(Due(d, "SRC")))
AgreeInv == \A d \in Device : Agree(d)

\* A sum to which deal k is added under condition c.
LEMMA SumAdd ==
    ASSUME NEW M, NEW N, NEW k \in TxIndex, NEW c \in BOOLEAN,
           \A n \in TxIndex : n \in N <=> n \in M \/ (c /\ n = k),
           c => k \notin M
    PROVE  PriceSum(N) = PriceSum(M) + (IF c THEN Price(k) ELSE 0)
<1>1. CASE c
  BY <1>1, SumChange
<1>2. CASE ~c
  <2>1. PriceSum(N) = PriceSum(M)
    BY <1>2, SumSame
  <2>. QED  BY <1>2, <2>1, SumType
<1>. QED  BY <1>1, <1>2

\* What each effect does to the sums.
LEMMA DueStep ==
    ASSUME TypeOK, TypeOK', PairInv, NEW d \in Device, NEW s \in {"SRC", "DST"},
           \/ Idle \/ Cleared \/ Skipped \/ Issued
           \/ \E n \in TxIndex : \/ Dropped(n) \/ Refused(n) \/ Placed(n)
                                 \/ \E bad \in Node : Failed(n, bad)
    PROVE  PriceSum(Due(d, s)') = PriceSum(Due(d, s))
<1>1. {s} \in SUBSET Status /\ "LEDGER" \notin {s} /\ "DEVICE" \notin {s}
  BY KindTypes
<1>2. \A n \in TxIndex : Noticed(n, {s}) \in Nat /\ Noticed(n, {s})' \in Nat
  <2>1. queue \in [Thread -> Seq(Message)] /\ queue' \in [Thread -> Seq(Message)]
    BY DEF TypeOK
  <2>. QED  BY <2>1, TallyType DEF Noticed
<1>3. ASSUME NEW k \in TxIndex PROVE Noticed(k, {s})' > 0 <=> Noticed(k, {s}) > 0
  <2>1. CASE Idle \/ Skipped \/ Issued
    BY <1>1, <2>1, NoticedStep
  <2>2. CASE Cleared
    <3>1. Noticed(k, {s})' <= Noticed(k, {s})
      BY <1>1, <2>2, NoticedStep
    <3>2. Noticed(k, {s}) = 0
      BY <2>2 DEF Cleared, PairInv, PairOnce
    <3>3. Noticed(k, {s}) \in Nat /\ Noticed(k, {s})' \in Nat
      BY <1>2
    <3>. QED  BY <3>1, <3>2, <3>3
  <2>3. ASSUME NEW n \in TxIndex, Dropped(n) \/ Refused(n) \/ Placed(n)
        PROVE  Noticed(k, {s})' = Noticed(k, {s})
    BY <1>1, <1>2, <2>3, NoticedStep
  <2>4. ASSUME NEW n \in TxIndex, NEW bad \in Node, Failed(n, bad)
        PROVE  Noticed(k, {s})' = Noticed(k, {s})
    BY <1>1, <1>2, <2>4, NoticedFailed
  <2>. QED  BY <2>1, <2>2, <2>3, <2>4
<1>4. \A k \in TxIndex : k \in Due(d, s)' <=> k \in Due(d, s)
  BY <1>3 DEF Due
<1>. QED  BY <1>4, SumSame

LEMMA DueSettled ==
    ASSUME TypeOK, PairInv, AddressedInv, NEW d \in Device, NEW s \in {"SRC", "DST"},
           NEW e \in Device, NEW m \in LedgerMsg, Settled(e, m)
    PROVE  PriceSum(Due(d, s)') = PriceSum(Due(d, s))
              - (IF m.status = s /\ e = d THEN Price(m.tx) ELSE 0)
<1>1. {s} \in SUBSET Status /\ m.tx \in TxIndex
  BY KindTypes DEF LedgerMsg
<1>2. \A n \in TxIndex : Noticed(n, {s}) \in Nat
  BY NoticedType
<1>3. \A k \in TxIndex : Noticed(k, {s})' = Noticed(k, {s})
                           - (IF m.tx = k /\ m.status \in {s} THEN 1 ELSE 0)
  BY <1>1, NoticedSettled
<1>4. CASE m.status = s
  <2>1. Noticed(m.tx, {s}) > 0
    BY <1>4, WaitsNotice DEF Settled, Noticed
  <2>2. Noticed(m.tx, {s}) = 1 /\ Noticed(m.tx, {s})' = 0
    <3>1. Noticed(m.tx, {s}) \in Nat /\ Noticed(m.tx, {s}) <= 1
      BY <1>1, <1>2 DEF PairInv, PairOnce
    <3>2. Noticed(m.tx, {s})' = Noticed(m.tx, {s}) - 1
      BY <1>1, <1>3, <1>4
    <3>. QED  BY <2>1, <3>1, <3>2
  <2>3. End(m.tx, s) = e
    BY <1>4, SettledAddress DEF End
  <2>4. CASE e = d
    <3>1. m.tx \in Due(d, s) /\ m.tx \notin Due(d, s)'
      BY <1>1, <2>1, <2>2, <2>3, <2>4 DEF Due
    <3>2. \A k \in TxIndex \ {m.tx} : k \in Due(d, s)' <=> k \in Due(d, s)
      BY <1>2, <1>3 DEF Due
    <3>3. PriceSum(Due(d, s)) = PriceSum(Due(d, s)') + Price(m.tx)
      BY <1>1, <3>1, <3>2, SumChange
    <3>. QED  BY <1>1, <1>4, <2>4, <3>3, SumType, LenNat
  <2>5. CASE e # d
    <3>1. m.tx \notin Due(d, s) /\ m.tx \notin Due(d, s)'
      BY <2>3, <2>5 DEF Due, End
    <3>2. \A k \in TxIndex : k \in Due(d, s)' <=> k \in Due(d, s)
      BY <1>2, <1>3, <3>1 DEF Due
    <3>. QED  BY <2>5, <3>2, SumSame, SumType
  <2>. QED  BY <2>4, <2>5
<1>5. CASE m.status # s
  <2>1. \A k \in TxIndex : k \in Due(d, s)' <=> k \in Due(d, s)
    BY <1>2, <1>3, <1>5 DEF Due
  <2>. QED  BY <1>5, <2>1, SumSame, SumType
<1>. QED  BY <1>4, <1>5

LEMMA DueAttached ==
    ASSUME TypeOK, OneCopyInv, PairInv, NEW d \in Device, NEW s \in {"SRC", "DST"},
           NEW n \in TxIndex, NEW trunk \in Node, NEW branch \in Node,
           Attached(n, trunk, branch)
    PROVE  PriceSum(Due(d, s)') = PriceSum(Due(d, s))
              + (IF ~trunk.confirmed /\ End(trunk.tx, s) = d THEN Price(trunk.tx) ELSE 0)
              + (IF ~branch.confirmed /\ trunk # branch /\ End(branch.tx, s) = d
                 THEN Price(branch.tx) ELSE 0)
<1>1. /\ trunk \in dag /\ branch \in dag
      /\ trunk.tx \in TxIndex /\ branch.tx \in TxIndex
      /\ trunk.confirmed \in BOOLEAN /\ branch.confirmed \in BOOLEAN
  BY AttachedNodes, NodeFacts
<1>2. trunk.tx = branch.tx => trunk = branch
  BY <1>1 DEF OneCopyInv, Single
<1>3. \A k \in TxIndex :
         /\ Noticed(k, {s}) \in Nat
         /\ Noticed(k, {s})' = Noticed(k, {s})
              + (IF \E x \in {trunk, branch} : x.tx = k /\ ~x.confirmed THEN 1 ELSE 0)
  <2>. SUFFICES ASSUME NEW k \in TxIndex
                PROVE  /\ Noticed(k, {s}) \in Nat
                       /\ Noticed(k, {s})' = Noticed(k, {s})
                            + (IF \E x \in {trunk, branch} : x.tx = k /\ ~x.confirmed
                               THEN 1 ELSE 0)
    OBVIOUS
  <2>1. Noticed(k, {s}) \in Nat
    BY NoticedType
  <2>2. Noticed(k, {s})' = Noticed(k, {s})
          + (IF \E x \in {trunk, branch} : x.tx = k /\ ~x.confirmed THEN 1 ELSE 0)
    BY PairAttached
  <2>. QED  BY <2>1, <2>2
<1>4. \A x \in {trunk, branch} : ~x.confirmed => Noticed(x.tx, {s}) = 0
  BY <1>1 DEF PairInv, PairOnce, Open
<1>. DEFINE c1 == ~trunk.confirmed /\ End(trunk.tx, s) = d
            c2 == ~branch.confirmed /\ trunk # branch /\ End(branch.tx, s) = d
            M == {k \in TxIndex : k \in Due(d, s) \/ (c1 /\ k = trunk.tx)}
<1>5. PriceSum(M) = PriceSum(Due(d, s)) + (IF c1 THEN Price(trunk.tx) ELSE 0)
  <2>1. c1 => trunk.tx \notin Due(d, s)
    BY <1>4 DEF Due
  <2>2. \A k \in TxIndex : k \in M <=> k \in Due(d, s) \/ (c1 /\ k = trunk.tx)
    OBVIOUS
  <2>3. c1 \in BOOLEAN
    OBVIOUS
  <2>. HIDE DEF M, c1
  <2>. QED  BY <1>1, <2>1, <2>2, <2>3, SumAdd
<1>6. PriceSum(Due(d, s)') = PriceSum(M) + (IF c2 THEN Price(branch.tx) ELSE 0)
  <2>1. c2 => branch.tx \notin M
    BY <1>2, <1>4 DEF Due
  <2>2. \A k \in TxIndex : k \in Due(d, s)' <=> k \in M \/ (c2 /\ k = branch.tx)
    BY <1>1, <1>2, <1>3 DEF Due
  <2>3. c2 \in BOOLEAN
    OBVIOUS
  <2>. HIDE DEF M, c2
  <2>. QED  BY <1>1, <2>1, <2>2, <2>3, SumAdd
<1>. HIDE DEF M
<1>. QED  BY <1>5, <1>6

LEMMA AddTurns ==
    ASSUME NEW a \in Amount, NEW b \in Amount
    PROVE  \E i \in Int : Add(a, b) = a + b + Word * i
<1>1. Word \in Nat /\ a \in Int /\ b \in Int
  BY LayerAssumption DEF Amount
<1>2. a + b = a + b + Word * 0 /\ a + b - Word = a + b + Word * (-1)
  BY <1>1
<1>. QED  BY <1>1, <1>2, AddWraps

LEMMA SubTurns ==
    ASSUME NEW a \in Amount, NEW b \in Amount
    PROVE  \E i \in Int : Sub(a, b) = a - b + Word * i
<1>1. Word \in Nat /\ a \in Int /\ b \in Int
  BY LayerAssumption DEF Amount
<1>2. a - b = a - b + Word * 0 /\ a - b + Word = a - b + Word * 1
  BY <1>1
<1>. QED  BY <1>1, <1>2, SubWraps

\* What a confirmed deal does to the mainchain's entries.
Gain(d, n) == IF Dst(n) = d THEN Price(n) ELSE 0
Loss(d, n) == IF Src(n) = d THEN Price(n) ELSE 0

LEMMA TransferTurns ==
    ASSUME NEW b \in [Device -> Amount], NEW n \in TxIndex, NEW d \in Device
    PROVE  \E i \in Int : Transfer(b, n)[d] = b[d] - Loss(d, n) + Gain(d, n) + Word * i
<1>0. Src(n) \in Device /\ Dst(n) \in Device /\ Price(n) \in Amount
  BY DealTypes
<1>1. Word \in Nat /\ Amount \subseteq Int /\ \A i \in Int : i + Word * 0 = i
  BY LayerAssumption DEF Amount
<1>. DEFINE a == [b EXCEPT ![Src(n)] = Sub(@, Price(n))]
<1>2. /\ a \in [Device -> Amount] /\ a[d] \in Int /\ b[d] \in Int /\ Price(n) \in Int
      /\ a[d] = IF Src(n) = d THEN Sub(b[d], Price(n)) ELSE b[d]
  <2>1. Sub(b[Src(n)], Price(n)) \in Amount
    BY <1>0, <1>1, AmountClosed
  <2>. QED  BY <1>0, <1>1, <2>1
<1>3. PICK i \in Int : a[d] = b[d] - Loss(d, n) + Word * i
  <2>1. CASE Src(n) = d
    BY <1>0, <1>2, <2>1, SubTurns DEF Loss
  <2>2. CASE Src(n) # d
    <3>1. a[d] = b[d] - Loss(d, n) + Word * 0
      BY <1>1, <1>2, <2>2 DEF Loss
    <3>. QED  BY <3>1
  <2>. QED  BY <2>1, <2>2
<1>. HIDE DEF a
<1>4. Transfer(b, n)[d] = IF Dst(n) = d THEN Add(a[d], Price(n)) ELSE a[d]
  BY <1>0, <1>2 DEF Transfer, a
<1>5. PICK j \in Int : Transfer(b, n)[d] = a[d] + Gain(d, n) + Word * j
  <2>1. CASE Dst(n) = d
    BY <1>0, <1>2, <1>4, <2>1, AddTurns DEF Gain
  <2>2. CASE Dst(n) # d
    <3>1. Transfer(b, n)[d] = a[d] + Gain(d, n) + Word * 0
      BY <1>1, <1>2, <1>4, <2>2 DEF Gain
    <3>. QED  BY <3>1
  <2>. QED  BY <2>1, <2>2
<1>6. Loss(d, n) \in Int /\ Gain(d, n) \in Int /\ b[d] \in Int
  BY <1>2 DEF Loss, Gain
<1>7. i + j \in Int /\ Word * (i + j) = Word * i + Word * j
  BY <1>1
<1>8. Transfer(b, n)[d] = b[d] - Loss(d, n) + Gain(d, n) + Word * (i + j)
  BY <1>1, <1>3, <1>5, <1>6, <1>7
<1>. QED  BY <1>7, <1>8

\* The same for the deals an attached deal confirms.
LEMMA BalanceAttached ==
    ASSUME TypeOK, NEW d \in Device, NEW n \in TxIndex, NEW trunk \in Node,
           NEW branch \in Node, Attached(n, trunk, branch)
    PROVE  \E i \in Int :
              balance'[d] = balance[d]
                 + (IF ~trunk.confirmed THEN Gain(d, trunk.tx) - Loss(d, trunk.tx) ELSE 0)
                 + (IF ~branch.confirmed /\ trunk # branch
                    THEN Gain(d, branch.tx) - Loss(d, branch.tx) ELSE 0)
                 + Word * i
<1>0. /\ trunk.tx \in TxIndex /\ branch.tx \in TxIndex
      /\ balance \in [Device -> Amount] /\ balance[d] \in Int
  BY NodeFacts DEF TypeOK, Amount
<1>1. Word \in Nat /\ \A f \in [Device -> Amount] : f[d] \in Int
  BY LayerAssumption DEF Amount
<1>2. \A k \in TxIndex : Gain(d, k) \in Int /\ Loss(d, k) \in Int
  <2>1. \A k \in TxIndex : Price(k) \in Int
    BY LenNat
  <2>. QED  BY <2>1 DEF Gain, Loss
<1>. DEFINE b1 == IF ~trunk.confirmed THEN Transfer(balance, trunk.tx) ELSE balance
            x == IF ~trunk.confirmed THEN Gain(d, trunk.tx) - Loss(d, trunk.tx) ELSE 0
            y == IF ~branch.confirmed /\ trunk # branch
                 THEN Gain(d, branch.tx) - Loss(d, branch.tx) ELSE 0
<1>3. balance' = IF ~branch.confirmed /\ trunk # branch
                 THEN Transfer(b1, branch.tx) ELSE b1
  BY DEF Attached, Unconfirmed
<1>4. b1 \in [Device -> Amount]
  BY <1>0, TransferType
<1>. HIDE DEF b1
<1>5. PICK i \in Int : b1[d] = balance[d] + x + Word * i
  <2>. USE DEF b1
  <2>1. CASE ~trunk.confirmed
    <3>1. PICK i \in Int : b1[d] = balance[d] - Loss(d, trunk.tx) + Gain(d, trunk.tx)
                                   + Word * i
      BY <1>0, <2>1, TransferTurns
    <3>2. b1[d] = balance[d] + x + Word * i
      BY <1>0, <1>1, <1>2, <2>1, <3>1
    <3>. QED  BY <3>2
  <2>2. CASE trunk.confirmed
    <3>1. b1[d] = balance[d] + x + Word * 0
      BY <1>0, <1>1, <2>2
    <3>. QED  BY <3>1
  <2>. QED  BY <2>1, <2>2
<1>6. PICK j \in Int : balance'[d] = b1[d] + y + Word * j
  <2>1. CASE ~branch.confirmed /\ trunk # branch
    <3>1. PICK j \in Int : balance'[d] = b1[d] - Loss(d, branch.tx) + Gain(d, branch.tx)
                                         + Word * j
      BY <1>0, <1>3, <1>4, <2>1, TransferTurns
    <3>2. balance'[d] = b1[d] + y + Word * j
      BY <1>0, <1>1, <1>2, <1>4, <2>1, <3>1
    <3>. QED  BY <3>2
  <2>2. CASE ~(~branch.confirmed /\ trunk # branch)
    <3>1. balance'[d] = b1[d] + y + Word * 0
      BY <1>1, <1>3, <1>4, <2>2
    <3>. QED  BY <3>1
  <2>. QED  BY <2>1, <2>2
<1>7. x \in Int /\ y \in Int /\ b1[d] \in Int
  BY <1>0, <1>1, <1>2, <1>4
<1>8. i + j \in Int /\ balance'[d] = balance[d] + x + y + Word * (i + j)
  <2>. HIDE DEF x, y
  <2>. QED  BY <1>0, <1>1, <1>5, <1>6, <1>7
<1>. QED  BY <1>8

\* The four counters of the invariant.
LEMMA AgreeTypes ==
    ASSUME TypeOK, NEW d \in Device
    PROVE  /\ token[d] \in Amount /\ frozen[d] \in Amount /\ balance[d] \in Amount
           /\ token[d] \in Int /\ frozen[d] \in Int /\ balance[d] \in Int
           /\ \A s : PriceSum(Due(d, s)) \in Nat
<1>1. \A a \in Amount : a \in Int
  BY LayerAssumption DEF Amount
<1>2. token[d] \in Amount /\ frozen[d] \in Amount /\ balance[d] \in Amount
  BY DEF TypeOK
<1>. QED  BY <1>1, <1>2, SumType

LEMMA AgreeMoves ==
    ASSUME TypeOK, NEW d \in Device, Agree(d), NEW x \in Int, NEW i \in Int, NEW j \in Int,
           token'[d] + frozen'[d] + PriceSum(Due(d, "DST")')
              = token[d] + frozen[d] + PriceSum(Due(d, "DST")) + x + Word * i,
           balance'[d] + PriceSum(Due(d, "SRC")')
              = balance[d] + PriceSum(Due(d, "SRC")) + x + Word * j
    PROVE  Agree(d)'
<1>. DEFINE a == token[d] + frozen[d] + PriceSum(Due(d, "DST"))
            b == balance[d] + PriceSum(Due(d, "SRC"))
<1>1. a \in Int /\ b \in Int
  BY AgreeTypes
<1>2. Wraps(a, b)
  BY DEF Agree
<1>3. Wraps(a + x + Word * i, b + x + Word * j)
  <2>. HIDE DEF a, b
  <2>. QED  BY <1>1, <1>2, WrapsMove
<1>4. Agree(d)' <=> Wraps(token'[d] + frozen'[d] + PriceSum(Due(d, "DST")'),
                          balance'[d] + PriceSum(Due(d, "SRC")'))
  BY DEF Agree
<1>. QED  BY <1>3, <1>4

LEMMA AgreeSettled ==
    ASSUME TypeOK, PairInv, AddressedInv, NEW e \in Device, NEW m \in LedgerMsg,
           Settled(e, m), NEW d \in Device, Agree(d)
    PROVE  Agree(d)'
<1>. DEFINE p == Price(m.tx)
            due(s) == PriceSum(Due(d, s))
            dueNext(s) == PriceSum(Due(d, s)')
<1>1. /\ m.tx \in TxIndex /\ p \in Amount /\ p \in Int /\ Word \in Nat
      /\ m.status \in Status
  BY LenNat, DealTypes, LayerAssumption DEF LedgerMsg
<1>2. /\ token[d] \in Amount /\ frozen[d] \in Amount /\ balance[d] \in Amount
      /\ token[d] \in Int /\ frozen[d] \in Int /\ balance[d] \in Int
      /\ \A s : due(s) \in Int
  BY AgreeTypes
<1>3. \A s \in {"SRC", "DST"} :
         dueNext(s) = due(s) - (IF m.status = s /\ e = d THEN p ELSE 0)
  BY DueSettled
<1>4. /\ balance' = balance
      /\ token'[d] = IF e = d /\ m.status # "SRC" THEN Add(token[d], p) ELSE token[d]
      /\ frozen'[d] = IF e = d /\ m.status # "DST" THEN Sub(frozen[d], p) ELSE frozen[d]
  BY DEF Settled, Settle, TypeOK
<1>5. SUFFICES \E x, i, j \in Int :
                  /\ token'[d] + frozen'[d] + dueNext("DST")
                       = token[d] + frozen[d] + due("DST") + x + Word * i
                  /\ balance'[d] + dueNext("SRC")
                       = balance[d] + due("SRC") + x + Word * j
  BY AgreeMoves
<1>. HIDE DEF p, due, dueNext
<1>6. CASE e # d
  <2>1. /\ token'[d] + frozen'[d] + dueNext("DST")
             = token[d] + frozen[d] + due("DST") + 0 + Word * 0
        /\ balance'[d] + dueNext("SRC") = balance[d] + due("SRC") + 0 + Word * 0
    BY <1>1, <1>2, <1>3, <1>4, <1>6
  <2>. QED  BY <2>1
<1>7. CASE e = d /\ m.status = "SRC"
  <2>1. PICK i \in Int : Sub(frozen[d], p) = frozen[d] - p + Word * i
    BY <1>1, <1>2, SubTurns
  <2>2. /\ token'[d] = token[d] /\ frozen'[d] = frozen[d] - p + Word * i
        /\ dueNext("DST") = due("DST") /\ dueNext("SRC") = due("SRC") - p
    BY <1>1, <1>2, <1>3, <1>4, <1>7, <2>1
  <2>3. /\ token'[d] + frozen'[d] + dueNext("DST")
             = token[d] + frozen[d] + due("DST") + (-p) + Word * i
        /\ balance'[d] + dueNext("SRC") = balance[d] + due("SRC") + (-p) + Word * 0
    BY <1>1, <1>2, <1>4, <2>2
  <2>. QED  BY <1>1, <2>3
<1>8. CASE e = d /\ m.status = "DST"
  <2>1. PICK i \in Int : Add(token[d], p) = token[d] + p + Word * i
    BY <1>1, <1>2, AddTurns
  <2>2. /\ token'[d] = token[d] + p + Word * i /\ frozen'[d] = frozen[d]
        /\ dueNext("DST") = due("DST") - p /\ dueNext("SRC") = due("SRC")
    BY <1>1, <1>2, <1>3, <1>4, <1>8, <2>1
  <2>3. /\ token'[d] + frozen'[d] + dueNext("DST")
             = token[d] + frozen[d] + due("DST") + 0 + Word * i
        /\ balance'[d] + dueNext("SRC") = balance[d] + due("SRC") + 0 + Word * 0
    BY <1>1, <1>2, <1>4, <2>2
  <2>. QED  BY <2>3
<1>9. CASE e = d /\ m.status # "SRC" /\ m.status # "DST"
  <2>1. PICK i \in Int : Add(token[d], p) = token[d] + p + Word * i
    BY <1>1, <1>2, AddTurns
  <2>2. PICK j \in Int : Sub(frozen[d], p) = frozen[d] - p + Word * j
    BY <1>1, <1>2, SubTurns
  <2>3. /\ token'[d] = token[d] + p + Word * i
        /\ frozen'[d] = frozen[d] - p + Word * j
        /\ dueNext("DST") = due("DST") /\ dueNext("SRC") = due("SRC")
    BY <1>1, <1>2, <1>3, <1>4, <1>9, <2>1, <2>2
  <2>4. /\ token'[d] + frozen'[d] + dueNext("DST")
             = token[d] + frozen[d] + due("DST") + 0 + Word * (i + j)
        /\ balance'[d] + dueNext("SRC") = balance[d] + due("SRC") + 0 + Word * 0
        /\ i + j \in Int
    BY <1>1, <1>2, <1>4, <2>3
  <2>. QED  BY <2>4
<1>. QED  BY <1>6, <1>7, <1>8, <1>9

LEMMA AgreeIssued ==
    ASSUME TypeOK, TypeOK', PairInv, Issued, NEW d \in Device, Agree(d)
    PROVE  Agree(d)'
<1>0. PICK n \in TxIndex : n = g_index + 1
  BY DEF Issued
<1>1. Src(n) \in Device /\ Price(n) \in Amount /\ Price(n) \in Int /\ Word \in Nat
  BY DealTypes, LenNat, LayerAssumption
<1>2. /\ token[d] \in Amount /\ frozen[d] \in Amount /\ balance[d] \in Amount
      /\ token[d] \in Int /\ frozen[d] \in Int /\ balance[d] \in Int
      /\ \A s : PriceSum(Due(d, s)) \in Int
  BY AgreeTypes
<1>3. \A s \in {"SRC", "DST"} : PriceSum(Due(d, s)') = PriceSum(Due(d, s))
  BY DueStep
<1>4. /\ balance' = balance
      /\ token'[d] = IF Src(n) = d THEN Sub(token[d], Price(n)) ELSE token[d]
      /\ frozen'[d] = IF Src(n) = d THEN Add(frozen[d], Price(n)) ELSE frozen[d]
  BY <1>0, <1>1 DEF Issued, TypeOK
<1>5. PICK i \in Int : token'[d] + frozen'[d] = token[d] + frozen[d] + Word * i
  <2>1. CASE Src(n) = d
    <3>1. PICK i \in Int : Sub(token[d], Price(n)) = token[d] - Price(n) + Word * i
      BY <1>1, <1>2, SubTurns
    <3>2. PICK j \in Int : Add(frozen[d], Price(n)) = frozen[d] + Price(n) + Word * j
      BY <1>1, <1>2, AddTurns
    <3>3. i + j \in Int
          /\ token'[d] + frozen'[d] = token[d] + frozen[d] + Word * (i + j)
      BY <1>1, <1>2, <1>4, <2>1, <3>1, <3>2
    <3>. QED  BY <3>3
  <2>2. CASE Src(n) # d
    <3>1. token'[d] + frozen'[d] = token[d] + frozen[d] + Word * 0
      BY <1>1, <1>2, <1>4, <2>2
    <3>. QED  BY <3>1
  <2>. QED  BY <2>1, <2>2
<1>6. token'[d] \in Int /\ frozen'[d] \in Int
  <2>1. \A a \in Amount : a \in Int
    BY LayerAssumption DEF Amount
  <2>. QED  BY <2>1 DEF TypeOK
<1>7. /\ token'[d] + frozen'[d] + PriceSum(Due(d, "DST")')
           = token[d] + frozen[d] + PriceSum(Due(d, "DST")) + 0 + Word * i
      /\ balance'[d] + PriceSum(Due(d, "SRC")')
           = balance[d] + PriceSum(Due(d, "SRC")) + 0 + Word * 0
  BY <1>1, <1>2, <1>3, <1>4, <1>5, <1>6
<1>. QED  BY <1>7, AgreeMoves

LEMMA AgreeAttached ==
    ASSUME TypeOK, OneCopyInv, PairInv, NEW n \in TxIndex, NEW trunk \in Node,
           NEW branch \in Node, Attached(n, trunk, branch), NEW d \in Device, Agree(d)
    PROVE  Agree(d)'
<1>. DEFINE first == ~trunk.confirmed
            second == ~branch.confirmed /\ trunk # branch
            x1 == IF first THEN Gain(d, trunk.tx) ELSE 0
            x2 == IF second THEN Gain(d, branch.tx) ELSE 0
            y1 == IF first THEN Loss(d, trunk.tx) ELSE 0
            y2 == IF second THEN Loss(d, branch.tx) ELSE 0
<1>0. trunk.tx \in TxIndex /\ branch.tx \in TxIndex /\ Word \in Nat
  BY NodeFacts, LayerAssumption
<1>1. x1 \in Int /\ x2 \in Int /\ y1 \in Int /\ y2 \in Int
  BY <1>0, LenNat DEF Gain, Loss
<1>2. PICK i \in Int : balance'[d] = balance[d] + (x1 - y1) + (x2 - y2) + Word * i
  <2>1. PICK i \in Int : balance'[d] = balance[d]
                 + (IF first THEN Gain(d, trunk.tx) - Loss(d, trunk.tx) ELSE 0)
                 + (IF second THEN Gain(d, branch.tx) - Loss(d, branch.tx) ELSE 0)
                 + Word * i
    BY BalanceAttached
  <2>2. /\ x1 - y1 = IF first THEN Gain(d, trunk.tx) - Loss(d, trunk.tx) ELSE 0
        /\ x2 - y2 = IF second THEN Gain(d, branch.tx) - Loss(d, branch.tx) ELSE 0
    OBVIOUS
  <2>. QED  BY <2>1, <2>2
<1>3. PriceSum(Due(d, "DST")') = PriceSum(Due(d, "DST")) + x1 + x2
  <2>1. PriceSum(Due(d, "DST")') = PriceSum(Due(d, "DST"))
          + (IF first /\ End(trunk.tx, "DST") = d THEN Price(trunk.tx) ELSE 0)
          + (IF second /\ End(branch.tx, "DST") = d THEN Price(branch.tx) ELSE 0)
    BY DueAttached
  <2>. QED  BY <2>1 DEF End, Gain
<1>4. PriceSum(Due(d, "SRC")') = PriceSum(Due(d, "SRC")) + y1 + y2
  <2>1. PriceSum(Due(d, "SRC")') = PriceSum(Due(d, "SRC"))
          + (IF first /\ End(trunk.tx, "SRC") = d THEN Price(trunk.tx) ELSE 0)
          + (IF second /\ End(branch.tx, "SRC") = d THEN Price(branch.tx) ELSE 0)
    BY DueAttached
  <2>. QED  BY <2>1 DEF End, Loss
<1>5. token' = token /\ frozen' = frozen
  BY DEF Attached
<1>6. /\ token[d] \in Int /\ frozen[d] \in Int /\ balance[d] \in Int
      /\ PriceSum(Due(d, "DST")) \in Int /\ PriceSum(Due(d, "SRC")) \in Int
  BY AgreeTypes
<1>. HIDE DEF x1, x2, y1, y2
<1>7. /\ token'[d] + frozen'[d] + PriceSum(Due(d, "DST")')
           = token[d] + frozen[d] + PriceSum(Due(d, "DST")) + (x1 + x2) + Word * 0
      /\ balance'[d] + PriceSum(Due(d, "SRC")')
           = balance[d] + PriceSum(Due(d, "SRC")) + (x1 + x2) + Word * i
      /\ x1 + x2 \in Int
  BY <1>0, <1>1, <1>2, <1>3, <1>4, <1>5, <1>6
<1>. QED  BY <1>7, AgreeMoves

LEMMA AgreeStep ==
    ASSUME TypeOK, OneCopyInv, PairInv, AddressedInv, AgreeInv, [Next]_vars,
           NEW d \in Device
    PROVE  Agree(d)'
<1>0. Effect /\ TypeOK' /\ Agree(d)
  BY StepEffect, TypeStep DEF AgreeInv
<1>1. CASE Issued
  BY <1>0, <1>1, AgreeIssued
<1>2. ASSUME NEW e \in Device, NEW m \in LedgerMsg, Settled(e, m) PROVE Agree(d)'
  BY <1>0, <1>2, AgreeSettled
<1>3. ASSUME NEW n \in TxIndex, NEW trunk \in Node, NEW branch \in Node,
             Attached(n, trunk, branch)
      PROVE  Agree(d)'
  BY <1>0, <1>3, AgreeAttached
<1>4. CASE \/ Idle \/ Cleared \/ Skipped
           \/ \E n \in TxIndex : \/ Dropped(n) \/ Refused(n) \/ Placed(n)
                                 \/ \E bad \in Node : Failed(n, bad)
  <2>1. token' = token /\ frozen' = frozen /\ balance' = balance
    BY <1>4 DEF Idle, Cleared, Skipped, Dropped, Refused, Placed, Failed
  <2>2. \A s \in {"SRC", "DST"} : PriceSum(Due(d, s)') = PriceSum(Due(d, s))
    BY <1>0, <1>4, DueStep
  <2>3. /\ token[d] \in Int /\ frozen[d] \in Int /\ balance[d] \in Int
        /\ PriceSum(Due(d, "DST")) \in Int /\ PriceSum(Due(d, "SRC")) \in Int
        /\ Word \in Nat
    BY AgreeTypes, LayerAssumption
  <2>4. /\ token'[d] + frozen'[d] + PriceSum(Due(d, "DST")')
             = token[d] + frozen[d] + PriceSum(Due(d, "DST")) + 0 + Word * 0
        /\ balance'[d] + PriceSum(Due(d, "SRC")')
             = balance[d] + PriceSum(Due(d, "SRC")) + 0 + Word * 0
    BY <2>1, <2>2, <2>3
  <2>. QED  BY <1>0, <2>4, AgreeMoves
<1>. QED  BY <1>0, <1>1, <1>2, <1>3, <1>4 DEF Effect

LEMMA AgreeInit == Init => AgreeInv
<1>. SUFFICES ASSUME Init, NEW d \in Device PROVE Agree(d)
  BY DEF AgreeInv
<1>1. TypeOK /\ PairInv /\ ~booted
  BY InitType, PairInit DEF Init
<1>2. \A s \in {"SRC", "DST"} : PriceSum(Due(d, s)) = 0
  <2>1. ASSUME NEW s \in {"SRC", "DST"}, NEW n \in TxIndex PROVE n \notin Due(d, s)
    <3>1. Noticed(n, {s}) = 0
      BY <1>1 DEF PairInv, PairOnce
    <3>. QED  BY <3>1 DEF Due
  <2>. QED  BY <2>1, SumNone
<1>3. token[d] = Token /\ frozen[d] = 0 /\ balance[d] = Token
      /\ Token \in Int /\ Word \in Nat
  BY LayerAssumption DEF Init, Amount
<1>4. token[d] + frozen[d] + PriceSum(Due(d, "DST"))
      = balance[d] + PriceSum(Due(d, "SRC")) + Word * 0
  BY <1>2, <1>3
<1>. QED  BY <1>4 DEF Agree, Wraps

\* If no heavy device's uninitialised dag_index reads 1, a device's account
\* (layer.h:128) and the mainchain's entry for it (layer.h:91) differ by the
\* notices on their way, whatever deals are confirmed, refused or failed, in
\* uint32 arithmetic of any width.
THEOREM AccountsAgreeHolds == LightStray => (Spec => []AccountsAgree)
<1>. SUFFICES ASSUME LightStray PROVE Spec => []AccountsAgree
  OBVIOUS
<1>. DEFINE Inv == OneCopyInv /\ PairInv /\ AddressedInv /\ AgreeInv
<1>1. Init => Inv
  BY OneCopyInit, PairInit, AddressedInit, AgreeInit
<1>2. TypeOK /\ Inv /\ [Next]_vars => Inv'
  <2>. SUFFICES ASSUME TypeOK, Inv, [Next]_vars PROVE Inv'
    OBVIOUS
  <2>1. \A k \in TxIndex : PairOnce(k)'
    BY PairStep
  <2>2. \A d \in Device : Agree(d)'
    BY AgreeStep
  <2>3. PairInv'
    BY <2>1, BootStep DEF PairInv
  <2>. QED  BY <2>2, <2>3, OneCopyStep, AddressedStep DEF AgreeInv
<1>3. TypeOK /\ Inv => AccountsAgree
  <2>. SUFFICES ASSUME TypeOK, Inv, NEW d \in Device
                PROVE  (token[d] + frozen[d] + InFlight(d, "DST")) % Word
                       = (balance[d] + InFlight(d, "SRC")) % Word
    BY DEF AccountsAgree
  <2>1. queue \in [Thread -> Seq(Message)]
    BY DEF TypeOK
  <2>2. ASSUME NEW s \in {"SRC", "DST"} PROVE InFlight(d, s) = PriceSum(Due(d, s))
    <3>. DEFINE N == {n \in TxIndex : /\ (IF s = "DST" THEN Dst(n) ELSE Src(n)) = d
                                      /\ Notices(n, {s}) # {}}
    <3>1. ASSUME NEW n \in TxIndex PROVE Notices(n, {s}) # {} <=> Noticed(n, {s}) > 0
      <4>1. {s} \in SUBSET Status
        BY KindTypes
      <4>2. Notices(n, {s}) = Spots(queue, NoticeOf(n, {s}))
        BY <2>1, <4>1, NoticesSpots DEF Notices, Places, MessageAt
      <4>. QED  BY <2>1, <4>2, EmptyTally DEF Noticed
    <3>2. \A n \in TxIndex : n \in N <=> n \in Due(d, s)
      BY <3>1 DEF Due, End
    <3>3. InFlight(d, s) = PriceSum(N)
      BY DEF InFlight
    <3>. HIDE DEF N
    <3>. QED  BY <3>2, <3>3, SumSame
  <2>3. /\ token[d] \in Nat /\ frozen[d] \in Nat /\ balance[d] \in Nat
        /\ \A s : PriceSum(Due(d, s)) \in Nat
    BY AgreeTypes, LayerAssumption DEF Amount
  <2>4. Wraps(token[d] + frozen[d] + PriceSum(Due(d, "DST")),
              balance[d] + PriceSum(Due(d, "SRC")))
    BY DEF AgreeInv, Agree
  <2>5. (token[d] + frozen[d] + PriceSum(Due(d, "DST"))) % Word
        = (balance[d] + PriceSum(Due(d, "SRC"))) % Word
    BY <2>3, <2>4, WrapsSame
  <2>. QED  BY <2>2, <2>5
<1>. HIDE DEF Inv
<1>. QED  BY <1>1, <1>2, <1>3, TypeCorrect, PTL DEF Spec

-----------------------------------------------------------------------------
(* Confirmed deals stand when everybody can pay *)

\* No counter overflows when all deals with a device are paid to it.
Roomy == \A d \in Device : Token + PriceSum({n \in TxIndex : Dst(n) = d}) < Word

\* No source runs out: what it starts with pays for all its deals and for any
\* one of them again, since a confirmed tip is verified once more whenever it
\* is picked.  The deals of blockchain/initial.ini are such a case.
Rich ==
    /\ \A n \in TxIndex :
          Price(n) + PriceSum({k \in TxIndex : Src(k) = Src(n)}) <= Token
    /\ Roomy

Closed == {n \in TxIndex : ~Open(n)}

\* The mainchain's entries b, when at most the deals of C are confirmed.
Funded(b, C) ==
    \A d \in Device :
        /\ Token - PriceSum({n \in C : Src(n) = d}) <= b[d]
        /\ b[d] <= Token + PriceSum({n \in C : Dst(n) = d})

\* The inductive invariant of ConfirmedStands: besides, the source of a
\* confirmed deal is listed, as transaction_verify asks for.
StandsInv ==
    /\ Funded(balance, Closed)
    /\ \A x \in dag : x.confirmed => listed[Src(x.tx)] /\ ~x.failed

LEMMA FundedMore ==
    ASSUME NEW b \in [Device -> Amount], NEW C \in SUBSET TxIndex,
           NEW D \in SUBSET TxIndex, C \subseteq D, Funded(b, C)
    PROVE  Funded(b, D)
<1>. SUFFICES ASSUME NEW d \in Device
              PROVE  /\ Token - PriceSum({n \in D : Src(n) = d}) <= b[d]
                     /\ b[d] <= Token + PriceSum({n \in D : Dst(n) = d})
  BY DEF Funded
<1>1. /\ Token - PriceSum({n \in C : Src(n) = d}) <= b[d]
      /\ b[d] <= Token + PriceSum({n \in C : Dst(n) = d})
  BY DEF Funded
<1>2. /\ PriceSum({n \in C : Src(n) = d}) <= PriceSum({n \in D : Src(n) = d})
      /\ PriceSum({n \in C : Dst(n) = d}) <= PriceSum({n \in D : Dst(n) = d})
  BY SumLess
<1>3. /\ Token \in Int /\ b[d] \in Int
      /\ PriceSum({n \in C : Src(n) = d}) \in Nat /\ PriceSum({n \in D : Src(n) = d}) \in Nat
      /\ PriceSum({n \in C : Dst(n) = d}) \in Nat /\ PriceSum({n \in D : Dst(n) = d}) \in Nat
  <2>1. \A a \in Amount : a \in Int
    BY LayerAssumption DEF Amount
  <2>. QED  BY <2>1, SumType, LayerAssumption
<1>. QED  BY <1>1, <1>2, <1>3

\* A transfer that the accounts have room for wraps nothing.
LEMMA TransferExact ==
    ASSUME NEW b \in [Device -> Amount], NEW n \in TxIndex,
           Price(n) <= b[Src(n)], b[Dst(n)] + Price(n) < Word, NEW d \in Device
    PROVE  Transfer(b, n)[d] = b[d] - Loss(d, n) + Gain(d, n)
<1>0. Src(n) \in Device /\ Dst(n) \in Device /\ Price(n) \in Amount
  BY DealTypes
<1>1. Word \in Nat /\ \A x \in Amount : x \in Nat
  BY LayerAssumption DEF Amount
<1>2. Price(n) \in Nat /\ b[d] \in Nat /\ b[Dst(n)] \in Nat /\ b[Src(n)] \in Nat
      /\ b[Src(n)] \in Amount
  BY <1>0, <1>1
<1>. DEFINE a == [b EXCEPT ![Src(n)] = Sub(@, Price(n))]
<1>3. Sub(b[Src(n)], Price(n)) = b[Src(n)] - Price(n)
  BY <1>0, <1>2, SubExact
<1>4. /\ a \in [Device -> Amount]
      /\ \A e \in Device : a[e] = b[e] - Loss(e, n)
  <2>1. Sub(b[Src(n)], Price(n)) \in Amount
    BY <1>0, <1>2, AmountClosed
  <2>2. a \in [Device -> Amount]
    BY <1>0, <2>1
  <2>3. ASSUME NEW e \in Device PROVE a[e] = b[e] - Loss(e, n)
    <3>1. CASE e = Src(n)
      BY <1>0, <1>3, <3>1 DEF Loss
    <3>2. CASE e # Src(n)
      <4>1. a[e] = b[e] /\ b[e] \in Nat /\ Loss(e, n) = 0
        BY <1>0, <1>1, <3>2 DEF Loss
      <4>. QED  BY <4>1
    <3>. QED  BY <3>1, <3>2
  <2>. QED  BY <2>2, <2>3
<1>. HIDE DEF a
<1>5. Transfer(b, n) = [a EXCEPT ![Dst(n)] = Add(@, Price(n))]
  BY DEF Transfer, a
<1>6. Loss(Dst(n), n) \in Nat /\ Loss(d, n) \in Nat
  BY <1>2 DEF Loss
<1>7. Add(a[Dst(n)], Price(n)) = a[Dst(n)] + Price(n)
  <2>1. a[Dst(n)] \in Amount /\ a[Dst(n)] + Price(n) < Word
    BY <1>0, <1>1, <1>2, <1>4, <1>6
  <2>. QED  BY <1>0, <2>1, AddWraps
<1>8. CASE d = Dst(n)
  BY <1>0, <1>4, <1>5, <1>7, <1>8 DEF Gain
<1>9. CASE d # Dst(n)
  <2>1. Transfer(b, n)[d] = a[d] /\ a[d] = b[d] - Loss(d, n) /\ Gain(d, n) = 0
    BY <1>0, <1>4, <1>5, <1>9 DEF Gain
  <2>. QED  BY <1>2, <1>6, <2>1
<1>. QED  BY <1>8, <1>9

LEMMA FundedTransfer ==
    ASSUME Rich, NEW b \in [Device -> Amount], NEW C \in SUBSET TxIndex,
           NEW n \in TxIndex, n \notin C, Funded(b, C)
    PROVE  Funded(Transfer(b, n), C \cup {n})
<1>. DEFINE out(D, d) == {k \in D : Src(k) = d}
            in(D, d) == {k \in D : Dst(k) = d}
            D == C \cup {n}
<1>0. /\ Src(n) \in Device /\ Dst(n) \in Device /\ Price(n) \in Nat
      /\ Word \in Nat /\ Token \in Nat /\ \A d \in Device : b[d] \in Nat
  <2>1. \A x \in Amount : x \in Nat
    BY LayerAssumption DEF Amount
  <2>. QED  BY <2>1, DealTypes, LayerAssumption
<1>1. ASSUME NEW d \in Device
      PROVE  /\ PriceSum(out(D, d)) = PriceSum(out(C, d)) + Loss(d, n)
             /\ PriceSum(in(D, d)) = PriceSum(in(C, d)) + Gain(d, n)
  <2>1. PriceSum(out(D, d)) = PriceSum(out(C, d)) + (IF Src(n) = d THEN Price(n) ELSE 0)
    <3>. DEFINE c == Src(n) = d
    <3>1. \A k \in TxIndex : k \in out(D, d) <=> k \in out(C, d) \/ (c /\ k = n)
      OBVIOUS
    <3>2. n \notin out(C, d) /\ c \in BOOLEAN
      OBVIOUS
    <3>3. PriceSum(out(D, d)) = PriceSum(out(C, d)) + (IF c THEN Price(n) ELSE 0)
      <4>. HIDE DEF out, D, c
      <4>. QED  BY <3>1, <3>2, SumAdd
    <3>. QED  BY <3>3
  <2>2. PriceSum(in(D, d)) = PriceSum(in(C, d)) + (IF Dst(n) = d THEN Price(n) ELSE 0)
    <3>. DEFINE c == Dst(n) = d
    <3>1. \A k \in TxIndex : k \in in(D, d) <=> k \in in(C, d) \/ (c /\ k = n)
      OBVIOUS
    <3>2. n \notin in(C, d) /\ c \in BOOLEAN
      OBVIOUS
    <3>3. PriceSum(in(D, d)) = PriceSum(in(C, d)) + (IF c THEN Price(n) ELSE 0)
      <4>. HIDE DEF in, D, c
      <4>. QED  BY <3>1, <3>2, SumAdd
    <3>. QED  BY <3>3
  <2>. QED  BY <2>1, <2>2 DEF Loss, Gain
<1>2. \A d \in Device : /\ Token - PriceSum(out(C, d)) <= b[d]
                        /\ b[d] <= Token + PriceSum(in(C, d))
  BY DEF Funded
<1>3. \A N : PriceSum(N) \in Nat
  BY SumType
<1>4. Price(n) <= b[Src(n)]
  <2>1. PriceSum(out(C, Src(n))) <= PriceSum({k \in TxIndex : Src(k) = Src(n)})
    BY SumLess
  <2>2. Price(n) + PriceSum({k \in TxIndex : Src(k) = Src(n)}) <= Token
    BY DEF Rich
  <2>3. Token - PriceSum(out(C, Src(n))) <= b[Src(n)] /\ b[Src(n)] \in Nat
    BY <1>0, <1>2
  <2>4. /\ PriceSum(out(C, Src(n))) \in Nat
        /\ PriceSum({k \in TxIndex : Src(k) = Src(n)}) \in Nat
    BY <1>3
  <2>. HIDE DEF out
  <2>. QED  BY <1>0, <2>1, <2>2, <2>3, <2>4
<1>5. b[Dst(n)] + Price(n) < Word
  <2>. DEFINE all == {k \in TxIndex : Dst(k) = Dst(n)}
  <2>1. PriceSum(in(D, Dst(n))) <= PriceSum(all)
    BY SumLess
  <2>2. PriceSum(in(D, Dst(n))) = PriceSum(in(C, Dst(n))) + Price(n)
    BY <1>0, <1>1 DEF Gain
  <2>3. b[Dst(n)] <= Token + PriceSum(in(C, Dst(n))) /\ b[Dst(n)] \in Nat
    BY <1>0, <1>2
  <2>4. Token + PriceSum(all) < Word
    BY <1>0 DEF Rich, Roomy
  <2>5. PriceSum(in(C, Dst(n))) \in Nat /\ PriceSum(all) \in Nat
    BY <1>3
  <2>. HIDE DEF in, D, all
  <2>. QED  BY <1>0, <2>1, <2>2, <2>3, <2>4, <2>5
<1>6. ASSUME NEW d \in Device
      PROVE  /\ Token - PriceSum(out(D, d)) <= Transfer(b, n)[d]
             /\ Transfer(b, n)[d] <= Token + PriceSum(in(D, d))
  <2>1. Transfer(b, n)[d] = b[d] - Loss(d, n) + Gain(d, n)
    BY <1>4, <1>5, TransferExact
  <2>2. /\ PriceSum(out(D, d)) = PriceSum(out(C, d)) + Loss(d, n)
        /\ PriceSum(in(D, d)) = PriceSum(in(C, d)) + Gain(d, n)
    BY <1>1
  <2>3. /\ Token - PriceSum(out(C, d)) <= b[d]
        /\ b[d] <= Token + PriceSum(in(C, d))
    BY <1>2
  <2>4. Loss(d, n) \in Nat /\ Gain(d, n) \in Nat /\ b[d] \in Nat
        /\ PriceSum(out(C, d)) \in Nat /\ PriceSum(in(C, d)) \in Nat
    BY <1>0, <1>3 DEF Loss, Gain
  <2>. HIDE DEF in, out, D
  <2>. QED  BY <1>0, <2>1, <2>2, <2>3, <2>4
<1>. QED  BY <1>6 DEF Funded

\* A device that has been listed stays so.
LEMMA ListedStep ==
    ASSUME TypeOK, [Next]_vars, NEW d \in Device, listed[d]
    PROVE  listed'[d]
<1>1. CASE listed' = listed
  BY <1>1
<1>2. CASE MainConnectRecv
  BY <1>2 DEF MainConnectRecv
<1>3. ASSUME ~MainConnectRecv PROVE listed' = listed
  <2>1. CASE StartMainchain \/ Timer \/ ProcessMainchain \/ UNCHANGED vars
    BY <2>1 DEF StartMainchain, Timer, ProcessMainchain, vars, chainVars
  <2>2. ASSUME NEW e \in Device, ProcessDevice(e) PROVE listed' = listed
    BY <2>2 DEF ProcessDevice, chainVars
  <2>3. ASSUME NEW e \in Device, DeviceCall(e) PROVE listed' = listed
    BY <2>3
    DEF DeviceCall, ConnectRecv, ConnectSend, TransactionDrop, TransactionRecv,
        TransactionNone, TransactionIssue, LedgerRecv, LedgerUnknown, LedgerSend,
        chainVars
  <2>4. ASSUME MainCall PROVE listed' = listed
    BY <1>3, <2>4
    DEF MainCall, MainConnectSend, MainTransactionDrop,
        MainTransactionReuse, MainTransactionGenesis, MainTransactionDefer,
        MainTransactionFail, MainTransactionAttach, MainTransactionSend,
        MainLedgerSkip, MainLedgerFault, MainLedgerEnd, chainVars
  <2>. QED  BY <2>1, <2>2, <2>3, <2>4 DEF Next, Call
<1>. QED  BY <1>1, <1>2, <1>3

\* A confirmed tip verifies whenever it is picked again.
LEMMA ConfirmedVerifies ==
    ASSUME TypeOK, Rich, StandsInv, NEW x \in dag, x.confirmed
    PROVE  Verify(x.tx) = "DONE"
<1>. DEFINE n == x.tx
            out == {k \in Closed : Src(k) = Src(n)}
            all == {k \in TxIndex : Src(k) = Src(n)}
<1>1. n \in TxIndex /\ listed[Src(n)]
  BY NodeFacts DEF StandsInv, TypeOK
<1>2. Src(n) \in Device /\ Price(n) \in Nat
  BY <1>1, DealTypes, LenNat
<1>3. Token - PriceSum(out) <= balance[Src(n)]
  BY <1>2 DEF StandsInv, Funded
<1>4. PriceSum(out) <= PriceSum(all) /\ PriceSum(out) \in Nat /\ PriceSum(all) \in Nat
  BY SumLess, SumType DEF Closed
<1>5. Price(n) + PriceSum(all) <= Token
  BY <1>1 DEF Rich
<1>6. Token \in Int /\ balance[Src(n)] \in Int
  BY <1>2, AgreeTypes, LayerAssumption DEF Amount
<1>7. ~(Price(n) > balance[Src(n)])
  <2>. HIDE DEF n, out, all
  <2>. QED  BY <1>2, <1>3, <1>4, <1>5, <1>6
<1>. QED  BY <1>1, <1>7 DEF Verify

LEMMA FundedAttached ==
    ASSUME TypeOK, OneCopyInv, Rich, StandsInv, [Next]_vars,
           NEW n \in TxIndex, NEW trunk \in Node, NEW branch \in Node,
           Attached(n, trunk, branch)
    PROVE  Funded(balance, Closed)'
<1>. DEFINE first == ~trunk.confirmed
            second == ~branch.confirmed /\ trunk # branch
            b1 == IF first THEN Transfer(balance, trunk.tx) ELSE balance
            C1 == IF first THEN Closed \cup {trunk.tx} ELSE Closed
            C2 == IF second THEN C1 \cup {branch.tx} ELSE C1
<1>1. /\ trunk \in dag /\ branch \in dag
      /\ trunk.tx \in TxIndex /\ branch.tx \in TxIndex
      /\ balance \in [Device -> Amount]
  BY AttachedNodes, NodeFacts DEF TypeOK
<1>2. trunk # branch => trunk.tx # branch.tx
  BY <1>1 DEF OneCopyInv, Single
<1>3. /\ first => Open(trunk.tx) /\ ~Open(trunk.tx)'
      /\ second => Open(branch.tx) /\ ~Open(branch.tx)'
  BY ConfirmedCloses
<1>4. Closed \in SUBSET TxIndex /\ Closed' \in SUBSET TxIndex
  BY DEF Closed
<1>5. Closed \subseteq Closed'
  BY OpenStep DEF Closed
<1>6. /\ b1 \in [Device -> Amount] /\ C1 \in SUBSET TxIndex
      /\ Funded(b1, C1) /\ C1 \subseteq Closed'
      /\ second => branch.tx \notin C1
  <2>1. CASE first
    <3>1. trunk.tx \notin Closed /\ trunk.tx \in Closed'
      BY <1>1, <1>3, <2>1 DEF Closed
    <3>2. Funded(Transfer(balance, trunk.tx), Closed \cup {trunk.tx})
      BY <1>1, <1>4, <3>1, FundedTransfer DEF StandsInv
    <3>3. Transfer(balance, trunk.tx) \in [Device -> Amount]
      BY <1>1, TransferType
    <3>. QED  BY <1>1, <1>2, <1>3, <1>4, <1>5, <2>1, <3>1, <3>2, <3>3 DEF Closed
  <2>2. CASE ~first
    BY <1>1, <1>3, <1>4, <1>5, <2>2 DEF Closed, StandsInv
  <2>. QED  BY <2>1, <2>2
<1>7. balance' = IF second THEN Transfer(b1, branch.tx) ELSE b1
  BY DEF Attached, Unconfirmed
<1>. HIDE DEF b1, C1
<1>8. /\ balance' \in [Device -> Amount] /\ C2 \in SUBSET TxIndex
      /\ Funded(balance', C2) /\ C2 \subseteq Closed'
  <2>1. CASE second
    <3>1. branch.tx \in Closed'
      BY <1>1, <1>3, <2>1 DEF Closed
    <3>2. Funded(Transfer(b1, branch.tx), C1 \cup {branch.tx})
      BY <1>1, <1>6, <2>1, FundedTransfer
    <3>3. Transfer(b1, branch.tx) \in [Device -> Amount]
      BY <1>1, <1>6, TransferType
    <3>. QED  BY <1>1, <1>6, <1>7, <2>1, <3>1, <3>2, <3>3
  <2>2. CASE ~second
    BY <1>6, <1>7, <2>2
  <2>. QED  BY <2>1, <2>2
<1>. HIDE DEF C2
<1>9. Funded(balance', Closed')
  BY <1>4, <1>8, FundedMore
<1>10. Funded(balance, Closed)' <=> Funded(balance', Closed')
  BY DEF Funded
<1>. QED  BY <1>9, <1>10

LEMMA StandsStep ==
    ASSUME TypeOK, OneCopyInv, Rich, StandsInv, [Next]_vars
    PROVE  StandsInv'
<1>0. Effect /\ TypeOK'
  BY StepEffect, TypeStep
<1>. DEFINE Good(x) == x.confirmed => listed[Src(x.tx)] /\ ~x.failed
            GoodNext(x) == x.confirmed => listed'[Src(x.tx)] /\ ~x.failed
<1>1. \A x \in dag : Good(x) /\ GoodNext(x) /\ x \in Node
  <2>1. ASSUME NEW x \in dag PROVE Good(x) /\ GoodNext(x) /\ x \in Node
    <3>1. x \in Node /\ Src(x.tx) \in Device
      BY NodeFacts, DealTypes DEF TypeOK
    <3>2. Good(x)
      BY DEF StandsInv
    <3>. QED  BY <3>1, <3>2, ListedStep
  <2>. QED  BY <2>1
<1>2. Funded(balance, Closed)'
  <2>1. CASE balance' = balance
    <3>1. /\ balance \in [Device -> Amount] /\ Closed \in SUBSET TxIndex
          /\ Closed' \in SUBSET TxIndex /\ Closed \subseteq Closed'
      BY OpenStep DEF TypeOK, Closed
    <3>2. Funded(balance, Closed')
      BY <3>1, FundedMore DEF StandsInv
    <3>3. Funded(balance, Closed)' <=> Funded(balance', Closed')
      BY DEF Funded
    <3>. QED  BY <2>1, <3>2, <3>3
  <2>2. ASSUME NEW n \in TxIndex, NEW trunk \in Node, NEW branch \in Node,
               Attached(n, trunk, branch)
        PROVE  Funded(balance, Closed)'
    BY <2>2, FundedAttached
  <2>3. balance' = balance \/ \E n \in TxIndex : \E trunk, branch \in Node :
                                 Attached(n, trunk, branch)
    BY <1>0 DEF Effect, Idle, Cleared, Skipped, Issued, Dropped, Refused, Settled,
                Placed, Failed
  <2>. QED  BY <2>1, <2>2, <2>3
<1>3. \A x \in dag' : GoodNext(x)
  <2>1. CASE dag' = dag
    BY <1>1, <2>1
  <2>2. ASSUME NEW n \in TxIndex, Placed(n), NEW x \in dag' PROVE GoodNext(x)
    <3>1. x = Tip(n) \/ x \in dag
      BY <2>2, PlacedNodes
    <3>. QED  BY <1>1, <2>2, <3>1, NodeFacts
  <2>3. ASSUME NEW n \in TxIndex, NEW bad \in Node, Failed(n, bad), NEW x \in dag'
        PROVE  GoodNext(x)
    <3>1. dag' = (dag \ {bad}) \cup {Fail(bad)} /\ bad \in dag
      BY <2>3, FailedNodes
    <3>2. ~bad.confirmed
      BY <2>3, <3>1, ConfirmedVerifies DEF Failed
    <3>. QED  BY <1>1, <3>1, <3>2, NodeFacts
  <2>4. ASSUME NEW n \in TxIndex, NEW trunk \in Node, NEW branch \in Node,
               Attached(n, trunk, branch), NEW x \in dag'
        PROVE  GoodNext(x)
    <3>1. /\ trunk \in dag /\ branch \in dag /\ ~trunk.failed /\ ~branch.failed
          /\ \/ x = Tip(n)
             \/ x \in dag \ {trunk, branch}
             \/ x = Confirm(trunk)
             \/ x = Confirm(branch)
      BY <2>4, AttachedNodes
    <3>2. \A y \in {trunk, branch} : Verify(y.tx) = "DONE"
      BY <2>4 DEF Attached
    <3>3. ASSUME NEW y \in {trunk, branch} PROVE GoodNext(Confirm(y))
      <4>1. y.tx \in TxIndex /\ Src(y.tx) \in Device
        BY NodeFacts, DealTypes
      <4>2. listed[Src(y.tx)]
        BY <3>2 DEF Verify
      <4>3. listed'[Src(y.tx)]
        BY <4>1, <4>2, ListedStep
      <4>. QED  BY <3>1, <3>3, <4>3, NodeFacts
    <3>. QED  BY <1>1, <2>4, <3>1, <3>3, NodeFacts
  <2>. QED
    BY <1>0, <2>1, <2>2, <2>3, <2>4
    DEF Effect, Idle, Cleared, Skipped, Issued, Dropped, Refused, Settled
<1>. QED  BY <1>2, <1>3 DEF StandsInv

LEMMA StandsInit == Init => StandsInv
<1>. SUFFICES ASSUME Init PROVE StandsInv
  OBVIOUS
<1>1. ASSUME NEW d \in Device, NEW N PROVE Token - PriceSum(N) <= balance[d]
                                         /\ balance[d] <= Token + PriceSum(N)
  <2>1. balance[d] = Token /\ Token \in Int
    BY LayerAssumption DEF Init, Amount
  <2>2. PriceSum(N) \in Nat
    BY SumType
  <2>. QED  BY <2>1, <2>2
<1>. QED  BY <1>1 DEF StandsInv, Funded, Init

\* A transaction that has become part of the dag is never failed later
\* (layer.h:74) when every source can pay all its deals and one of them
\* twice: the run confirmed_fails shows what happens when one cannot.
THEOREM ConfirmedStandsHolds == Rich => (Spec => []ConfirmedStands)
<1>. SUFFICES ASSUME Rich PROVE Spec => []ConfirmedStands
  OBVIOUS
<1>1. Init => OneCopyInv /\ StandsInv
  BY OneCopyInit, StandsInit
<1>2. TypeOK /\ OneCopyInv /\ StandsInv /\ [Next]_vars => OneCopyInv' /\ StandsInv'
  BY OneCopyStep, StandsStep
<1>3. StandsInv => ConfirmedStands
  BY DEF StandsInv, ConfirmedStands
<1>. QED  BY <1>1, <1>2, <1>3, TypeCorrect, PTL DEF Spec

-----------------------------------------------------------------------------
(* What is frozen covers what is undecided *)

LEMMA SumWithout ==
    ASSUME NEW M, NEW N, NEW k \in TxIndex, k \in N, k \notin M,
           \A n \in TxIndex : n \in M => n \in N
    PROVE  PriceSum(M) + Price(k) <= PriceSum(N)
<1>. DEFINE P == {n \in TxIndex : n \in N /\ n # k}
<1>1. PriceSum(N) = PriceSum(P) + Price(k)
  <2>1. k \notin P /\ \A n \in TxIndex \ {k} : n \in P <=> n \in N
    OBVIOUS
  <2>. HIDE DEF P
  <2>. QED  BY <2>1, SumChange
<1>2. PriceSum(M) <= PriceSum(P)
  <2>1. \A n \in TxIndex : n \in M => n \in P
    OBVIOUS
  <2>. HIDE DEF P
  <2>. QED  BY <2>1, SumLess
<1>3. PriceSum(M) \in Nat /\ PriceSum(P) \in Nat /\ Price(k) \in Nat
  BY SumType, LenNat
<1>. QED  BY <1>1, <1>2, <1>3

LEMMA SumAtMost ==
    ASSUME NEW M, NEW N, NEW k \in TxIndex,
           \A n \in TxIndex : n \in N => n \in M \/ n = k
    PROVE  PriceSum(N) <= PriceSum(M) + Price(k)
<1>1. PriceSum(M) \in Nat /\ PriceSum(N) \in Nat /\ Price(k) \in Nat
  BY SumType, LenNat
<1>2. CASE k \in M
  <2>1. PriceSum(N) <= PriceSum(M)
    BY <1>2, SumLess
  <2>. QED  BY <1>1, <2>1
<1>3. CASE k \notin M
  <2>. DEFINE P == {n \in TxIndex : n \in M \/ n = k}
  <2>1. PriceSum(P) = PriceSum(M) + Price(k)
    <3>1. k \in P /\ \A n \in TxIndex \ {k} : n \in M <=> n \in P
      OBVIOUS
    <3>. HIDE DEF P
    <3>. QED  BY <1>3, <3>1, SumChange
  <2>2. PriceSum(N) <= PriceSum(P)
    <3>1. \A n \in TxIndex : n \in N => n \in P
      OBVIOUS
    <3>. HIDE DEF P
    <3>. QED  BY <3>1, SumLess
  <2>. QED  BY <2>1, <2>2
<1>. QED  BY <1>2, <1>3

\* The deals device d waits for, and those that may still pay it.
Waiting(d) == {n \in TxIndex : Src(n) = d /\ Going(n, Final)}
Coming(d) == {n \in TxIndex : Dst(n) = d /\ (n > g_index \/ Going(n, Paying))}
Meant(d) == {n \in TxIndex : Dst(n) = d}

\* The inductive invariant of FrozenCovers: besides, what a device has and
\* may still get stays within what it starts with and is meant to get, so
\* that nothing it adds wraps.
Covered(d) ==
    /\ PriceSum(Waiting(d)) <= frozen[d]
    /\ token[d] + frozen[d] + PriceSum(Coming(d)) <= Token + PriceSum(Meant(d))
CoverInv == \A d \in Device : Covered(d)

\* Deals leave these sets, except for the one that is taken up.
LEMMA CoverSets ==
    ASSUME TypeOK, OneCopyInv, ConfirmedStands', [Next]_vars, NEW d \in Device
    PROVE  /\ ~Issued => \A k \in TxIndex : k \in Waiting(d)' => k \in Waiting(d)
           /\ Issued => \A k \in TxIndex :
                           k \in Waiting(d)' => k \in Waiting(d) \/ k = g_index + 1
           /\ \A k \in TxIndex : k \in Coming(d)' => k \in Coming(d)
<1>1. /\ g_index \in Nat /\ g_index' \in Nat /\ g_index' >= g_index
      /\ TxIndex \subseteq Nat
  <2>1. g_index \in Nat /\ g_index' \in Nat /\ TxIndex \subseteq Nat
    BY TypeStep, LenNat DEF TypeOK
  <2>2. g_index' \in {g_index, g_index + 1}
    BY StepEffect
    DEF Effect, Idle, Cleared, Skipped, Issued, Dropped, Refused, Settled, Placed,
        Failed, Attached
  <2>. QED  BY <2>1, <2>2
<1>2. Final \in SUBSET Status /\ Paying \in SUBSET Status
  BY KindTypes
<1>3. ASSUME ~Issued, NEW k \in TxIndex, NEW kinds \in {Final, Paying}, Going(k, kinds)'
      PROVE  Going(k, kinds)
  BY <1>2, <1>3, GoingStep
<1>4. ASSUME Issued, NEW k \in TxIndex, NEW kinds \in {Final, Paying},
             Going(k, kinds)', k # g_index + 1
      PROVE  Going(k, kinds)
  <2>1. Copies(k)' \in {Copies(k), Copies(k) + (IF k = g_index + 1 THEN 1 ELSE 0)}
    BY <1>4, CopiesStep
  <2>2. queue \in [Thread -> Seq(Message)]
    BY DEF TypeOK
  <2>3. Copies(k) \in Nat
    BY <2>2, TallyType DEF Copies
  <2>4. Noticed(k, kinds)' = Noticed(k, kinds)
    BY <1>2, <1>4, NoticedStep
  <2>5. dag' = dag
    BY <1>4 DEF Issued
  <2>. QED  BY <1>4, <2>1, <2>3, <2>4, <2>5 DEF Going
<1>5. ASSUME ~Issued
      PROVE  \A k \in TxIndex : /\ k \in Waiting(d)' => k \in Waiting(d)
                                /\ k \in Coming(d)' => k \in Coming(d)
  BY <1>1, <1>3, <1>5 DEF Waiting, Coming
<1>6. ASSUME Issued
      PROVE  \A k \in TxIndex : /\ k \in Waiting(d)' => k \in Waiting(d) \/ k = g_index + 1
                                /\ k \in Coming(d)' => k \in Coming(d)
  <2>1. \A k \in TxIndex : k \in Waiting(d)' => k \in Waiting(d) \/ k = g_index + 1
    BY <1>4, <1>6 DEF Waiting
  <2>2. \A k \in TxIndex : k \in Coming(d)' => k \in Coming(d)
    BY <1>1, <1>4, <1>6 DEF Coming
  <2>. QED  BY <2>1, <2>2
<1>. QED  BY <1>5, <1>6

\* A notice that is settled was the last of its deal on the way.
LEMMA SettledEnds ==
    ASSUME TypeOK, OnceInv, NEW e \in Device, NEW m \in LedgerMsg, Settled(e, m),
           NEW kinds \in {Final, Paying}, m.status \in kinds
    PROVE  Going(m.tx, kinds) /\ ~Going(m.tx, kinds)' /\ ~(m.tx > g_index)
<1>. DEFINE n == m.tx
<1>0. n \in TxIndex /\ kinds \in SUBSET Status
  BY KindTypes DEF LedgerMsg
<1>1. queue \in [Thread -> Seq(Message)]
  BY DEF TypeOK
<1>2. Noticed(n, kinds) \in Nat /\ Copies(n) \in Nat
      /\ Noticed(n, kinds) <= Noticed(n, Status) /\ Noticed(n, Status) \in Nat
  BY <1>0, <1>1, TallyType, NoticedType DEF Noticed, Copies
<1>3. Noticed(n, kinds) > 0
  BY WaitsNotice DEF Settled, Noticed
<1>4. Noticed(n, kinds) = 1 /\ ~Live(n)
  BY <1>0, <1>2, <1>3 DEF OnceInv, Once
<1>5. Noticed(n, kinds)' = 0 /\ Copies(n)' = Copies(n) /\ dag' = dag
  <2>1. Noticed(n, kinds)' = Noticed(n, kinds) - 1
    BY <1>0, NoticedSettled
  <2>2. Copies(n)' = Copies(n)
    BY <1>0, CopiesStep
  <2>3. dag' = dag
    BY DEF Settled
  <2>. QED  BY <1>4, <2>1, <2>2, <2>3
<1>. QED  BY <1>2, <1>3, <1>4, <1>5 DEF Live, Going

LEMMA CoverIssued ==
    ASSUME TypeOK, OneCopyInv, Roomy, ConfirmedStands', [Next]_vars, Issued,
           NEW d \in Device, Covered(d)
    PROVE  Covered(d)'
<1>0. PICK n \in TxIndex : n = g_index + 1
  BY DEF Issued
<1>. DEFINE p == Price(n)
            w == PriceSum(Waiting(d))
            wNext == PriceSum(Waiting(d)')
            c == PriceSum(Coming(d))
            cNext == PriceSum(Coming(d)')
            total == Token + PriceSum(Meant(d))
<1>1. /\ Src(n) \in Device /\ p \in Amount /\ p \in Nat /\ Word \in Nat
      /\ token[d] \in Amount /\ frozen[d] \in Amount
      /\ token[d] \in Nat /\ frozen[d] \in Nat
      /\ w \in Nat /\ wNext \in Nat /\ c \in Nat /\ cNext \in Nat /\ total \in Nat
  <2>1. \A a \in Amount : a \in Nat
    BY LayerAssumption DEF Amount
  <2>2. Token \in Nat /\ Word \in Nat
    BY <2>1, LayerAssumption
  <2>3. Src(n) \in Device /\ p \in Amount
    BY DealTypes
  <2>4. token[d] \in Amount /\ frozen[d] \in Amount
    BY AgreeTypes
  <2>5. \A N : PriceSum(N) \in Nat
    BY SumType
  <2>. HIDE DEF p
  <2>. QED  BY <2>1, <2>2, <2>3, <2>4, <2>5
<1>2. w <= frozen[d] /\ token[d] + frozen[d] + c <= total /\ total < Word
  BY DEF Covered, Roomy, Meant
<1>3. cNext <= c
  BY CoverSets, SumLess
<1>4. /\ token'[d] = IF Src(n) = d THEN Sub(token[d], p) ELSE token[d]
      /\ frozen'[d] = IF Src(n) = d THEN Add(frozen[d], p) ELSE frozen[d]
      /\ Src(n) = d => p <= token[d]
  BY <1>0, <1>1 DEF Issued, TypeOK
<1>5. SUFFICES wNext <= frozen'[d] /\ token'[d] + frozen'[d] + cNext <= total
  BY DEF Covered, Meant
<1>6. CASE Src(n) = d
  <2>1. wNext <= w + p
    BY <1>0, CoverSets, SumAtMost
  <2>2. token'[d] = token[d] - p
    BY <1>1, <1>4, <1>6, SubExact
  <2>3. frozen[d] + p < Word
    <3>. HIDE DEF p, w, c, total
    <3>. QED  BY <1>1, <1>2, <1>4, <1>6
  <2>4. frozen'[d] = frozen[d] + p
    BY <1>1, <1>4, <1>6, <2>3, AddWraps
  <2>. HIDE DEF p, w, wNext, c, cNext, total
  <2>. QED  BY <1>1, <1>2, <1>3, <2>1, <2>2, <2>4
<1>7. CASE Src(n) # d
  <2>1. \A k \in TxIndex : k \in Waiting(d)' => k \in Waiting(d)
    BY <1>0, <1>7, CoverSets DEF Waiting
  <2>2. wNext <= w
    BY <2>1, SumLess
  <2>. HIDE DEF p, w, wNext, c, cNext, total
  <2>. QED  BY <1>1, <1>2, <1>3, <1>4, <1>7, <2>2
<1>. QED  BY <1>6, <1>7

LEMMA CoverSettled ==
    ASSUME TypeOK, OneCopyInv, OnceInv, AddressedInv, Roomy, ConfirmedStands',
           [Next]_vars, ~Issued, NEW e \in Device, NEW m \in LedgerMsg, Settled(e, m),
           NEW d \in Device, Covered(d)
    PROVE  Covered(d)'
<1>. DEFINE n == m.tx
            p == Price(n)
            w == PriceSum(Waiting(d))
            wNext == PriceSum(Waiting(d)')
            c == PriceSum(Coming(d))
            cNext == PriceSum(Coming(d)')
            total == Token + PriceSum(Meant(d))
<1>0. n \in TxIndex /\ m.status \in Status
  BY DEF LedgerMsg
<1>1. /\ p \in Amount /\ p \in Nat /\ Word \in Nat
      /\ token[d] \in Amount /\ frozen[d] \in Amount
      /\ token[d] \in Nat /\ frozen[d] \in Nat
      /\ w \in Nat /\ wNext \in Nat /\ c \in Nat /\ cNext \in Nat /\ total \in Nat
  <2>1. \A a \in Amount : a \in Nat
    BY LayerAssumption DEF Amount
  <2>2. Token \in Nat /\ Word \in Nat
    BY <2>1, LayerAssumption
  <2>3. p \in Amount
    BY <1>0, DealTypes
  <2>4. token[d] \in Amount /\ frozen[d] \in Amount
    BY AgreeTypes
  <2>5. \A N : PriceSum(N) \in Nat
    BY SumType
  <2>. HIDE DEF p
  <2>. QED  BY <2>1, <2>2, <2>3, <2>4, <2>5
<1>2. w <= frozen[d] /\ token[d] + frozen[d] + c <= total /\ total < Word
  BY DEF Covered, Roomy, Meant
<1>3. wNext <= w /\ cNext <= c
  BY CoverSets, SumLess
<1>4. /\ token'[d] = IF e = d /\ m.status # "SRC" THEN Add(token[d], p) ELSE token[d]
      /\ frozen'[d] = IF e = d /\ m.status # "DST" THEN Sub(frozen[d], p) ELSE frozen[d]
  BY DEF Settled, Settle, TypeOK
<1>5. SUFFICES wNext <= frozen'[d] /\ token'[d] + frozen'[d] + cNext <= total
  BY DEF Covered, Meant
<1>6. CASE e # d
  <2>. HIDE DEF p, w, wNext, c, cNext, total
  <2>. QED  BY <1>1, <1>2, <1>3, <1>4, <1>6
<1>7. CASE e = d /\ m.status # "DST"
  <2>1. m.status \in Final
    BY <1>0, <1>7 DEF Final, Status
  <2>2. Going(n, Final) /\ ~Going(n, Final)'
    BY <2>1, SettledEnds
  <2>3. Src(n) = d
    BY <1>7, SettledAddress
  <2>4. n \in Waiting(d) /\ n \notin Waiting(d)'
    BY <1>0, <2>2, <2>3 DEF Waiting
  <2>5. wNext + p <= w
    BY <1>0, <2>4, CoverSets, SumWithout
  <2>6. p <= frozen[d] /\ token[d] + p < Word
    <3>. HIDE DEF p, w, wNext, c, total
    <3>. QED  BY <1>1, <1>2, <2>5
  <2>7. frozen'[d] = frozen[d] - p
    BY <1>1, <1>4, <1>7, <2>6, SubExact
  <2>8. token'[d] \in {token[d], token[d] + p}
    BY <1>1, <1>4, <1>7, <2>6, AddWraps
  <2>. HIDE DEF p, w, wNext, c, cNext, total
  <2>. QED  BY <1>1, <1>2, <1>3, <2>5, <2>7, <2>8
<1>8. CASE e = d /\ m.status = "DST"
  <2>1. m.status \in Paying
    BY <1>8 DEF Paying
  <2>2. Going(n, Paying) /\ ~Going(n, Paying)' /\ ~(n > g_index)
    BY <2>1, SettledEnds
  <2>3. Dst(n) = d /\ g_index' = g_index
    BY <1>8, SettledAddress DEF Settled
  <2>4. n \in Coming(d) /\ n \notin Coming(d)'
    BY <1>0, <2>2, <2>3 DEF Coming
  <2>5. cNext + p <= c
    BY <1>0, <2>4, CoverSets, SumWithout
  <2>6. token[d] + p < Word
    <3>. HIDE DEF p, w, cNext, c, total
    <3>. QED  BY <1>1, <1>2, <2>5
  <2>7. token'[d] = token[d] + p /\ frozen'[d] = frozen[d]
    BY <1>1, <1>4, <1>8, <2>6, AddWraps
  <2>. HIDE DEF p, w, wNext, c, cNext, total
  <2>. QED  BY <1>1, <1>2, <1>3, <2>5, <2>7
<1>. QED  BY <1>6, <1>7, <1>8

LEMMA CoverStep ==
    ASSUME TypeOK, OneCopyInv, OnceInv, AddressedInv, CoverInv, Roomy,
           ConfirmedStands', [Next]_vars, NEW d \in Device
    PROVE  Covered(d)'
<1>0. Effect /\ Covered(d)
  BY StepEffect DEF CoverInv
<1>1. CASE Issued
  BY <1>0, <1>1, CoverIssued
<1>2. ASSUME ~Issued, NEW e \in Device, NEW m \in LedgerMsg, Settled(e, m)
      PROVE  Covered(d)'
  BY <1>0, <1>2, CoverSettled
<1>3. CASE ~Issued /\ token' = token /\ frozen' = frozen
  <2>1. PriceSum(Waiting(d)') <= PriceSum(Waiting(d))
        /\ PriceSum(Coming(d)') <= PriceSum(Coming(d))
    BY <1>3, CoverSets, SumLess
  <2>2. /\ token[d] \in Int /\ frozen[d] \in Int /\ Token + PriceSum(Meant(d)) \in Int
        /\ PriceSum(Waiting(d)) \in Nat /\ PriceSum(Waiting(d)') \in Nat
        /\ PriceSum(Coming(d)) \in Nat /\ PriceSum(Coming(d)') \in Nat
    BY AgreeTypes, SumType, LayerAssumption DEF Amount
  <2>3. /\ PriceSum(Waiting(d)') <= frozen'[d]
        /\ token'[d] + frozen'[d] + PriceSum(Coming(d)') <= Token + PriceSum(Meant(d))
    BY <1>0, <1>3, <2>1, <2>2 DEF Covered
  <2>. QED  BY <2>3 DEF Covered, Meant
<1>4. \/ Issued \/ (token' = token /\ frozen' = frozen)
      \/ \E e \in Device : \E m \in LedgerMsg : Settled(e, m)
  BY <1>0
  DEF Effect, Idle, Cleared, Skipped, Dropped, Refused, Placed, Failed, Attached
<1>. QED  BY <1>1, <1>2, <1>3, <1>4

LEMMA CoverInit == Init => CoverInv
<1>. SUFFICES ASSUME Init, NEW d \in Device PROVE Covered(d)
  BY DEF CoverInv
<1>1. TypeOK /\ OnceInv /\ dag = {} /\ g_index = 0
  BY InitType, OnceInit DEF Init
<1>2. ASSUME NEW n \in TxIndex PROVE ~Going(n, Final)
  <2>1. n > g_index
    BY <1>1, LenNat
  <2>2. Live(n) /\ Noticed(n, Final) <= Noticed(n, Status) /\ Noticed(n, Final) \in Nat
    BY <1>1, <2>1, NoticedType, KindTypes DEF Live
  <2>3. Noticed(n, Final) = 0
    BY <1>1, <2>2 DEF OnceInv, Once
  <2>4. Copies(n) = 0
    BY <1>1, <2>1, OneCopyInit DEF OneCopyInv, Single
  <2>. QED  BY <1>1, <2>3, <2>4 DEF Going
<1>3. PriceSum(Waiting(d)) = 0
  <2>1. \A n \in TxIndex : n \notin Waiting(d)
    BY <1>2 DEF Waiting
  <2>. QED  BY <2>1, SumNone
<1>4. PriceSum(Coming(d)) <= PriceSum(Meant(d))
  <2>1. \A n \in TxIndex : n \in Coming(d) => n \in Meant(d)
    BY DEF Coming, Meant
  <2>. QED  BY <2>1, SumLess
<1>5. /\ token[d] = Token /\ frozen[d] = 0 /\ Token \in Int
      /\ PriceSum(Coming(d)) \in Nat /\ PriceSum(Meant(d)) \in Nat
  BY SumType, LayerAssumption DEF Init, Amount
<1>. QED  BY <1>3, <1>4, <1>5 DEF Covered

LEMMA UndecidedGoing ==
    ASSUME queue \in [Thread -> Seq(Message)], NEW n \in TxIndex
    PROVE  Undecided(n) <=> Going(n, Final)
<1>1. Held(n) = Spots(queue, DealOf(n))
  BY HeldSpots DEF Held, Places, MessageAt
<1>2. Notices(n, {"SRC", "DEVICE", "LEDGER"}) = Spots(queue, NoticeOf(n, Final))
  BY NoticesSpots, KindTypes DEF Notices, Places, MessageAt, Final
<1>. QED
  BY <1>1, <1>2, EmptyTally DEF Undecided, Going, Nodes, Copies, Noticed

\* As long as no confirmed deal fails later, and no counter has to overflow,
\* the tokens a device has frozen cover its undecided deals, so the token[1]
\* that ledger_recv subtracts never wraps below zero (layer_device.cpp).
THEOREM FrozenCoversHolds ==
    LightStray /\ Roomy => (Spec /\ []ConfirmedStands => []FrozenCovers)
<1>. SUFFICES ASSUME LightStray, Roomy
              PROVE  Spec /\ []ConfirmedStands => []FrozenCovers
  OBVIOUS
<1>. DEFINE Inv == OneCopyInv /\ OnceInv /\ AddressedInv /\ CoverInv
<1>1. Init => Inv
  BY OneCopyInit, OnceInit, AddressedInit, CoverInit
<1>2. TypeOK /\ Inv /\ [Next]_vars /\ ConfirmedStands' => Inv'
  <2>. SUFFICES ASSUME TypeOK, Inv, [Next]_vars, ConfirmedStands' PROVE Inv'
    OBVIOUS
  <2>1. \A k \in TxIndex : Once(k)'
    BY OnceStep
  <2>2. \A d \in Device : Covered(d)'
    BY CoverStep
  <2>. QED  BY <2>1, <2>2, OneCopyStep, AddressedStep DEF OnceInv, CoverInv
<1>3. TypeOK /\ Inv => FrozenCovers
  <2>. SUFFICES ASSUME TypeOK, Inv, NEW d \in Device
                PROVE  PriceSum({n \in TxIndex : Src(n) = d /\ Undecided(n)}) <= frozen[d]
    BY DEF FrozenCovers
  <2>1. queue \in [Thread -> Seq(Message)]
    BY DEF TypeOK
  <2>2. \A n \in TxIndex : n \in {k \in TxIndex : Src(k) = d /\ Undecided(k)}
                           <=> n \in Waiting(d)
    BY <2>1, UndecidedGoing DEF Waiting
  <2>3. PriceSum({n \in TxIndex : Src(n) = d /\ Undecided(n)}) = PriceSum(Waiting(d))
    BY <2>2, SumSame
  <2>. QED  BY <2>3 DEF CoverInv, Covered
<1>. HIDE DEF Inv
<1>. QED  BY <1>1, <1>2, <1>3, TypeCorrect, PTL DEF Spec

\* With sources that can pay, a deal is decided once, pays once, and what is
\* frozen for it is there, whatever the threads do.
THEOREM RichSettles ==
    Rich /\ LightStray => (Spec => []OneDecision /\ []FrozenCovers /\ PaysOnce)
<1>1. Rich => (Spec => []ConfirmedStands)
  BY ConfirmedStandsHolds
<1>2. Spec /\ []ConfirmedStands => []OneDecision
  BY OneDecisionHolds
<1>3. LightStray => (Spec /\ []ConfirmedStands => PaysOnce)
  BY PaysOnceHolds
<1>4. LightStray /\ Roomy => (Spec /\ []ConfirmedStands => []FrozenCovers)
  BY FrozenCoversHolds
<1>5. Rich => Roomy
  BY DEF Rich
<1>. QED  BY <1>1, <1>2, <1>3, <1>4, <1>5

===========================================================================
