----------------------------- MODULE AppProofs -----------------------------
(***************************************************************************)
(* The proof that the list of slaves does not show as connected what is    *)
(* not, for any number of slaves and faults.                               *)
(***************************************************************************)
EXTENDS App, SequenceTheorems, NaturalsInduction, WellFoundedInduction, TLAPS

\* A runnable of h behind the k-th that says that a is disconnected.
Corrected(h, k, a) ==
    \E j \in DOMAIN h : j > k /\ h[j].do = "disconnected" /\ h[j].addr = a

\* The inductive invariants.  A slave is listed once, so that what is said of
\* it is said of the only entry that shows it.
ListedOnce ==
    \A i, j \in DOMAIN master : master[i].addr = master[j].addr => i = j

\* A runnable that will show a slave as connected has the one that says
\* otherwise behind it: callbacks post in the order of their events.
StatusInv ==
    /\ ListedOnce
    /\ \A a \in Slave : asked[a] > 0 => open[a] > 0
    /\ ~amiss /\ ~crashed =>
        /\ \A i \in DOMAIN master : master[i].status \in Live =>
              open[master[i].addr] > 0 \/ Corrected(handler, 0, master[i].addr)
        /\ \A k \in DOMAIN handler : handler[k].do \in {"connected", "services"} =>
              open[handler[k].addr] > 0 \/ Corrected(handler, k, handler[k].addr)

\* A round: "start" waits, then the scan runs, then each missing slave gets
\* one "connect".  So no third client of a slave is connecting.
RoundInv ==
    /\ scan => \A k \in DOMAIN handler : handler[k].do \notin {"start", "connect"}
    /\ \A k \in DOMAIN handler : handler[k].do = "start" =>
          /\ ~scan
          /\ \A j \in DOMAIN handler \ {k} : handler[j].do \notin {"start", "connect"}
    /\ \A j, k \in DOMAIN handler :
          /\ handler[j].do = "connect"
          /\ handler[k].do = "connect"
          /\ handler[j].addr = handler[k].addr
          => j = k
    /\ \A k \in DOMAIN handler : handler[k].do # "start" => handler[k].addr \in Slave
    /\ \A a \in Slave : pending[a] = 2 =>
          /\ ~scan
          /\ \A k \in DOMAIN handler :
                handler[k].do # "start" /\ ~(handler[k].do = "connect" /\ handler[k].addr = a)

-----------------------------------------------------------------------------
(* The entries at some positions of a list *)

\* Induction up to a bound, for a set.
LEMMA UpTo ==
    ASSUME NEW L \in Nat, NEW S, 0 \in S,
           \A i \in 1 .. L : i - 1 \in S => i \in S
    PROVE  \A i \in 0 .. L : i \in S
<1>. SUFFICES ASSUME NEW j \in 0 .. L, j \notin S PROVE FALSE
  OBVIOUS
<1>. DEFINE T == {i \in 0 .. L : i \notin S}
<1>1. T \subseteq Nat /\ T # {}
  OBVIOUS
<1>2. PICK i \in T : \A y \in T : ~(<<y, i>> \in OpToRel(<, Nat))
  <2>. HIDE DEF T
  <2>. QED  BY <1>1, NatLessThanWellFounded, WFMin
<1>3. i \in 1 .. L /\ i - 1 \in 0 .. L /\ i \notin S
  OBVIOUS
<1>4. i - 1 \in T /\ i - 1 \in Nat /\ i \in Nat /\ i - 1 < i
  BY <1>3
<1>5. <<i - 1, i>> \in OpToRel(<, Nat)
  BY <1>4 DEF OpToRel
<1>. QED  BY <1>2, <1>4, <1>5, Zenon

\* What Pick computes from the first entries of a list, up to L.
Among(T, list, S, L) ==
    {f \in [0 .. L -> Seq(T)] :
        /\ f[0] = <<>>
        /\ \A i \in 1 .. L :
              f[i] = IF i \in S THEN Append(f[i - 1], list[i]) ELSE f[i - 1]}

LEMMA AmongExists ==
    ASSUME NEW T, NEW list \in Seq(T), NEW S, NEW L \in 0 .. Len(list)
    PROVE  Among(T, list, S, L) # {}
<1>. DEFINE N == {k \in 0 .. Len(list) : Among(T, list, S, k) # {}}
<1>0. Len(list) \in Nat /\ \A i \in 1 .. Len(list) : list[i] \in T
  BY LenProperties, ElementOfSeq
<1>1. 0 \in N
  <2>1. <<>> \in Seq(T)
    BY EmptySeq
  <2>2. [n \in 0 .. 0 |-> <<>>] \in Among(T, list, S, 0)
    BY <2>1 DEF Among
  <2>. QED  BY <2>2, <1>0
<1>2. ASSUME NEW i \in 1 .. Len(list), i - 1 \in N PROVE i \in N
  <2>1. PICK f : f \in Among(T, list, S, i - 1)
    BY <1>2
  <2>2. i \in Nat /\ i - 1 \in 0 .. i - 1 /\ list[i] \in T /\ f[i - 1] \in Seq(T)
    BY <1>0, <2>1 DEF Among
  <2>. DEFINE x == IF i \in S THEN Append(f[i - 1], list[i]) ELSE f[i - 1]
              g == [n \in 0 .. i |-> IF n = i THEN x ELSE f[n]]
  <2>3. x \in Seq(T)
    BY <2>2, AppendProperties
  <2>4. \A n \in 0 .. i - 1 : g[n] = f[n] /\ f[n] \in Seq(T)
    BY <2>1, <2>2 DEF Among
  <2>5. g[i] = x /\ g \in [0 .. i -> Seq(T)] /\ g[0] = <<>>
    <3>1. \A n \in 0 .. i : n = i \/ n \in 0 .. i - 1
      BY <2>2
    <3>2. f[0] = <<>> /\ 0 \in 0 .. i - 1
      BY <2>1, <2>2 DEF Among
    <3>3. g[i] = x /\ DOMAIN g = 0 .. i
      BY <2>2
    <3>4. 0 \in 0 .. i /\ g[0] = <<>>
      <4>. HIDE DEF g
      <4>. QED  BY <2>2, <2>4, <3>2
    <3>5. \A n \in 0 .. i : g[n] \in Seq(T)
      <4>. HIDE DEF g, x
      <4>. QED  BY <2>3, <2>4, <3>1, <3>3
    <3>. HIDE DEF x
    <3>. QED  BY <3>3, <3>4, <3>5
  <2>6. ASSUME NEW n \in 1 .. i
        PROVE  g[n] = IF n \in S THEN Append(g[n - 1], list[n]) ELSE g[n - 1]
    <3>. HIDE DEF g, x
    <3>1. n - 1 \in 0 .. i - 1 /\ (n = i \/ (n \in 1 .. i - 1 /\ n \in 0 .. i - 1))
      BY <2>6
    <3>2. CASE n = i
      BY <2>4, <2>5, <3>1, <3>2 DEF x
    <3>3. CASE n \in 1 .. i - 1 /\ n \in 0 .. i - 1
      BY <2>1, <2>4, <3>1, <3>3 DEF Among
    <3>. QED  BY <3>1, <3>2, <3>3
  <2>7. g \in Among(T, list, S, i)
    <3>. HIDE DEF g
    <3>. QED  BY <2>5, <2>6 DEF Among
  <2>. QED  BY <2>7
<1>. HIDE DEF N
<1>3. \A i \in 0 .. Len(list) : i \in N
  BY <1>0, <1>1, <1>2, UpTo
<1>. QED  BY <1>3 DEF N

LEMMA PickDef ==
    ASSUME NEW T, NEW list \in Seq(T), NEW S
    PROVE  \E f \in Among(T, list, S, Len(list)) : Pick(list, S) = f[Len(list)]
<1>. DEFINE among[i \in 0 .. Len(list)] ==
              IF i = 0 THEN <<>>
              ELSE IF i \in S THEN Append(among[i - 1], list[i])
              ELSE among[i - 1]
            Rec(f) == f = [i \in 0 .. Len(list) |->
              IF i = 0 THEN <<>>
              ELSE IF i \in S THEN Append(f[i - 1], list[i])
              ELSE f[i - 1]]
<1>0. Len(list) \in Nat /\ \A i \in 1 .. Len(list) : list[i] \in T
  BY LenProperties, ElementOfSeq
<1>1. Pick(list, S) = among[Len(list)]
  BY DEF Pick
<1>2. PICK f \in Among(T, list, S, Len(list)) : TRUE
  BY <1>0, AmongExists
<1>3. Rec(f)
  <2>1. \A i \in 0 .. Len(list) : i = 0 \/ i \in 1 .. Len(list)
    BY <1>0
  <2>2. f = [i \in 0 .. Len(list) |-> f[i]]
    BY <1>2 DEF Among
  <2>3. \A i \in 0 .. Len(list) : f[i] =
          IF i = 0 THEN <<>>
          ELSE IF i \in S THEN Append(f[i - 1], list[i])
          ELSE f[i - 1]
    BY <1>2, <2>1 DEF Among
  <2>. QED  BY <2>2, <2>3
<1>4. among = CHOOSE g : Rec(g)
  OBVIOUS
<1>5. Rec(among)
  <2>. HIDE DEF among, Rec
  <2>. QED  BY <1>3, <1>4
<1>6. among \in Among(T, list, S, Len(list))
  <2>. DEFINE x(i) == IF i = 0 THEN <<>>
                      ELSE IF i \in S THEN Append(among[i - 1], list[i])
                      ELSE among[i - 1]
  <2>. HIDE DEF among
  <2>0. DOMAIN among = 0 .. Len(list) /\ \A i \in 0 .. Len(list) : among[i] = x(i)
    BY <1>5
  <2>1. /\ among[0] = <<>>
        /\ \A i \in 1 .. Len(list) :
              among[i] = IF i \in S THEN Append(among[i - 1], list[i]) ELSE among[i - 1]
    <3>1. 0 \in 0 .. Len(list)
          /\ \A i \in 1 .. Len(list) : i \in 0 .. Len(list) /\ i # 0
      BY <1>0
    <3>. QED  BY <2>0, <3>1
  <2>. DEFINE N == {k \in 0 .. Len(list) : among[k] \in Seq(T)}
  <2>2. 0 \in N
    <3>1. among[0] \in Seq(T)
      BY <2>1, EmptySeq
    <3>. QED  BY <1>0, <3>1
  <2>3. ASSUME NEW i \in 1 .. Len(list), i - 1 \in N PROVE i \in N
    <3>1. among[i - 1] \in Seq(T) /\ list[i] \in T /\ i \in 0 .. Len(list)
      BY <1>0, <2>3
    <3>2. Append(among[i - 1], list[i]) \in Seq(T)
      BY <3>1, AppendProperties
    <3>. QED  BY <2>1, <3>1, <3>2
  <2>. HIDE DEF N
  <2>4. \A i \in 0 .. Len(list) : i \in N
    BY <1>0, <2>2, <2>3, UpTo
  <2>5. among = [i \in 0 .. Len(list) |-> among[i]]
    BY <1>5
  <2>6. among \in [0 .. Len(list) -> Seq(T)]
    BY <2>4, <2>5 DEF N
  <2>. QED  BY <2>1, <2>6 DEF Among
<1>. HIDE DEF among, Rec
<1>. QED  BY <1>1, <1>6

\* Each entry of p is one of list, and no two are the same one.
Part(p, list) ==
    \E from \in [DOMAIN p -> DOMAIN list] :
        /\ \A j, k \in DOMAIN p : from[j] = from[k] => j = k
        /\ \A k \in DOMAIN p : p[k] = list[from[k]]

LEMMA PickProperties ==
    ASSUME NEW T, NEW list \in Seq(T), NEW S
    PROVE  Pick(list, S) \in Seq(T) /\ Part(Pick(list, S), list)
<1>0. /\ Len(list) \in Nat
      /\ DOMAIN list = 1 .. Len(list)
      /\ \A i \in 1 .. Len(list) : list[i] \in T
  BY LenProperties, ElementOfSeq
<1>1. PICK f \in Among(T, list, S, Len(list)) : Pick(list, S) = f[Len(list)]
  BY PickDef
<1>2. /\ f[0] = <<>>
      /\ \A i \in 1 .. Len(list) :
            f[i] = IF i \in S THEN Append(f[i - 1], list[i]) ELSE f[i - 1]
      /\ \A i \in 0 .. Len(list) : f[i] \in Seq(T)
  BY <1>1 DEF Among
<1>. DEFINE Maps(i, h) ==
              /\ h \in [1 .. Len(f[i]) -> S \cap (1 .. i)]
              /\ \A j, k \in 1 .. Len(f[i]) : h[j] = h[k] => j = k
              /\ \A k \in 1 .. Len(f[i]) : f[i][k] = list[h[k]]
            N == {i \in 0 .. Len(list) : \E h : Maps(i, h)}
<1>3. 0 \in N
  <2>1. Len(f[0]) = 0
    BY <1>2, EmptySeq
  <2>2. Maps(0, [k \in 1 .. 0 |-> 0])
    BY <2>1
  <2>. HIDE DEF Maps
  <2>. QED  BY <2>2, <1>0
<1>4. ASSUME NEW i \in 1 .. Len(list), i - 1 \in N PROVE i \in N
  <2>1. PICK h : Maps(i - 1, h)
    BY <1>4
  <2>2. /\ i \in 0 .. Len(list) /\ i - 1 \in 0 .. Len(list) /\ i \in Nat
        /\ list[i] \in T
        /\ f[i - 1] \in Seq(T) /\ Len(f[i - 1]) \in Nat
        /\ \A k \in 1 .. i - 1 : k \in 1 .. i /\ k # i
    BY <1>0, <1>2, LenProperties
  <2>3. CASE i \notin S
    <3>1. f[i] = f[i - 1]
      BY <1>2, <2>3
    <3>2. Maps(i, h)
      BY <2>1, <2>2, <3>1
    <3>. HIDE DEF Maps
    <3>. QED  BY <3>2, <2>2
  <2>4. CASE i \in S
    <3>. DEFINE n == Len(f[i - 1])
                g == [k \in 1 .. n + 1 |-> IF k = n + 1 THEN i ELSE h[k]]
    <3>1. f[i] = Append(f[i - 1], list[i])
      BY <1>2, <2>4
    <3>2. /\ Len(f[i]) = n + 1
          /\ \A k \in 1 .. n : f[i][k] = f[i - 1][k]
          /\ f[i][n + 1] = list[i]
      BY <2>2, <3>1, AppendProperties
    <3>3. \A k \in 1 .. n + 1 : k = n + 1 \/ (k \in 1 .. n /\ k # n + 1)
      <4>1. n \in Nat
        BY <2>2
      <4>. HIDE DEF n
      <4>. QED  BY <4>1
    <3>4. \A k \in 1 .. n : g[k] = h[k] /\ h[k] \in S \cap (1 .. i - 1)
      BY <2>1, <2>2
    <3>5. g[n + 1] = i /\ DOMAIN g = 1 .. n + 1
      BY <2>2
    <3>6. g \in [1 .. n + 1 -> S \cap (1 .. i)]
      <4>1. \A k \in 1 .. n + 1 : g[k] \in S \cap (1 .. i)
        <5>. HIDE DEF g
        <5>. QED  BY <2>2, <2>4, <3>3, <3>4, <3>5
      <4>. QED  BY <4>1
    <3>7. ASSUME NEW j \in 1 .. n + 1, NEW k \in 1 .. n + 1, g[j] = g[k] PROVE j = k
      <4>. HIDE DEF g, n
      <4>1. j \in 1 .. n /\ k \in 1 .. n => h[j] = h[k]
        BY <3>4, <3>7
      <4>2. j \in 1 .. n /\ k \in 1 .. n => j = k
        BY <4>1, <2>1 DEF n
      <4>. QED  BY <2>2, <3>3, <3>4, <3>5, <3>7, <4>2
    <3>8. ASSUME NEW k \in 1 .. n + 1 PROVE f[i][k] = list[g[k]]
      <4>1. \A j \in 1 .. n : f[i - 1][j] = list[h[j]]
        BY <2>1
      <4>. HIDE DEF g, n
      <4>. QED  BY <3>2, <3>3, <3>4, <3>5, <4>1
    <3>9. Maps(i, g)
      <4>. HIDE DEF g, n
      <4>. QED  BY <3>2, <3>6, <3>7, <3>8
    <3>. HIDE DEF Maps, g
    <3>. QED  BY <3>9, <2>2
  <2>. QED  BY <2>3, <2>4
<1>5. Len(list) \in N
  <2>. HIDE DEF N
  <2>1. \A i \in 0 .. Len(list) : i \in N
    BY <1>0, <1>3, <1>4, UpTo
  <2>. QED  BY <1>0, <2>1
<1>6. PICK h : Maps(Len(list), h)
  BY <1>5
<1>7. Pick(list, S) \in Seq(T) /\ DOMAIN Pick(list, S) = 1 .. Len(f[Len(list)])
  BY <1>0, <1>1, <1>2, LenProperties
<1>8. h \in [DOMAIN Pick(list, S) -> DOMAIN list]
  BY <1>0, <1>6, <1>7
<1>. QED  BY <1>1, <1>6, <1>7, <1>8 DEF Part

-----------------------------------------------------------------------------
(* What the steps do to the list and to the runnables *)

Entry == [addr : Slave, status : Live \cup {"disconnect"}, gatt : BOOLEAN]
Runnable == [do : {"start", "connect", "connected", "disconnected", "services",
                   "transfer"},
             addr : Slave \cup {0}, index : Nat]

LEMMA Types ==
    ASSUME AppTypeOK
    PROVE  /\ master \in Seq(Entry) /\ Len(master) \in Nat
           /\ DOMAIN master = 1 .. Len(master)
           /\ \A i \in DOMAIN master : master[i] \in Entry
           /\ handler \in Seq(Runnable) /\ Len(handler) \in Nat
           /\ DOMAIN handler = 1 .. Len(handler)
           /\ \A k \in DOMAIN handler : handler[k] \in Runnable
<1>1. master \in Seq(Entry) /\ handler \in Seq(Runnable)
  BY DEF AppTypeOK, Entry, Runnable
<1>. QED  BY <1>1, LenProperties, ElementOfSeq

LEMMA IndexProperties ==
    ASSUME AppTypeOK, NEW a
    PROVE  /\ Index(a) \in Nat
           /\ Has(a) => Index(a) \in DOMAIN master /\ master[Index(a)].addr = a
BY Types DEF Index, Has

\* Entries that leave the list leave the others as they are.
LEMMA DelMasterProperties ==
    ASSUME AppTypeOK
    PROVE  DelMaster(master) \in Seq(Entry) /\ Part(DelMaster(master), master)
<1>1. PICK S : DelMaster(master) = Pick(master, S)
  BY DEF DelMaster
<1>. QED  BY <1>1, Types, PickProperties

LEMMA SeqOfRunnables ==
    ASSUME NEW n \in Nat, NEW s \in [1 .. n -> Runnable]
    PROVE  s \in Seq(Runnable)
BY SeqDef

\* Runnables are posted behind the others.
LEMMA PostProperties ==
    ASSUME AppTypeOK, NEW s \in Seq(Runnable), handler' = handler \o s
    PROVE  /\ handler' \in Seq(Runnable)
           /\ DOMAIN handler' = 1 .. Len(handler) + Len(s)
           /\ \A k \in DOMAIN handler : k \in DOMAIN handler' /\ handler'[k] = handler[k]
           /\ \A k \in DOMAIN handler' \ DOMAIN handler :
                 k - Len(handler) \in DOMAIN s /\ handler'[k] = s[k - Len(handler)]
           /\ \A j \in DOMAIN s :
                 /\ Len(handler) + j \in DOMAIN handler'
                 /\ handler'[Len(handler) + j] = s[j]
                 /\ \A k \in DOMAIN handler : Len(handler) + j > k
<1>1. /\ Len(handler) \in Nat /\ DOMAIN handler = 1 .. Len(handler)
      /\ Len(s) \in Nat /\ DOMAIN s = 1 .. Len(s)
  BY Types, LenProperties
<1>2. /\ handler' \in Seq(Runnable)
      /\ Len(handler') = Len(handler) + Len(s)
      /\ \A i \in 1 .. Len(handler) + Len(s) :
            handler'[i] = IF i <= Len(handler) THEN handler[i] ELSE s[i - Len(handler)]
  BY Types, ConcatProperties
<1>3. DOMAIN handler' = 1 .. Len(handler) + Len(s)
  BY <1>2, LenProperties
<1>4. ASSUME NEW k \in DOMAIN handler
      PROVE  k \in DOMAIN handler' /\ handler'[k] = handler[k]
  <2>1. k \in 1 .. Len(handler) + Len(s) /\ k <= Len(handler)
    BY <1>1
  <2>. QED  BY <1>2, <1>3, <2>1
<1>5. ASSUME NEW k \in DOMAIN handler' \ DOMAIN handler
      PROVE  k - Len(handler) \in DOMAIN s /\ handler'[k] = s[k - Len(handler)]
  <2>1. k \in 1 .. Len(handler) + Len(s) /\ ~(k <= Len(handler))
        /\ k - Len(handler) \in 1 .. Len(s)
    BY <1>1, <1>3
  <2>. QED  BY <1>1, <1>2, <2>1
<1>6. ASSUME NEW j \in DOMAIN s
      PROVE  /\ Len(handler) + j \in DOMAIN handler'
             /\ handler'[Len(handler) + j] = s[j]
             /\ \A k \in DOMAIN handler : Len(handler) + j > k
  <2>1. /\ Len(handler) + j \in 1 .. Len(handler) + Len(s)
        /\ ~(Len(handler) + j <= Len(handler))
        /\ Len(handler) + j - Len(handler) = j
        /\ \A k \in 1 .. Len(handler) : Len(handler) + j > k
    BY <1>1
  <2>. QED  BY <1>1, <1>2, <1>3, <2>1
<1>. QED  BY <1>2, <1>3, <1>4, <1>5, <1>6

LEMMA PostOne ==
    ASSUME AppTypeOK, NEW r \in Runnable, handler' = Append(handler, r)
    PROVE  /\ handler' = handler \o <<r>>
           /\ <<r>> \in Seq(Runnable)
           /\ DOMAIN <<r>> = {1}
           /\ <<r>>[1] = r
<1>1. handler' = handler \o <<r>>
  BY Types, AppendIsConcat
<1>. QED  BY <1>1

LEMMA PostNone ==
    ASSUME AppTypeOK, UNCHANGED handler
    PROVE  handler' = handler \o <<>> /\ <<>> \in Seq(Runnable) /\ DOMAIN <<>> = {}
BY Types, ConcatEmptySeq, EmptySeq

\* The first runnable is taken; the others move up.
LEMMA TakeProperties ==
    ASSUME AppTypeOK, handler # <<>>, handler' = Tail(handler)
    PROVE  /\ 1 \in DOMAIN handler /\ Head(handler) = handler[1]
           /\ handler' \in Seq(Runnable)
           /\ \A k \in DOMAIN handler' :
                 /\ k \in Nat /\ k + 1 \in DOMAIN handler /\ k + 1 # 1
                 /\ handler'[k] = handler[k + 1]
           /\ \A k \in DOMAIN handler :
                 k > 1 => k - 1 \in DOMAIN handler' /\ handler'[k - 1] = handler[k]
<1>1. /\ Len(handler) \in Nat \ {0} /\ DOMAIN handler = 1 .. Len(handler)
      /\ handler' \in Seq(Runnable)
      /\ Len(handler') = Len(handler) - 1
      /\ \A i \in 1 .. Len(handler') : handler'[i] = handler[i + 1]
  BY Types, EmptySeq, HeadTailProperties
<1>2. DOMAIN handler' = 1 .. Len(handler')
  BY <1>1, LenProperties
<1>3. Head(handler) = handler[1]
  BY Types
<1>4. ASSUME NEW k \in DOMAIN handler'
      PROVE  k \in Nat /\ k + 1 \in DOMAIN handler /\ k + 1 # 1
  BY <1>1, <1>2
<1>5. ASSUME NEW k \in DOMAIN handler, k > 1
      PROVE  k - 1 \in DOMAIN handler' /\ handler'[k - 1] = handler[k]
  <2>1. k - 1 \in 1 .. Len(handler') /\ k - 1 + 1 = k
    BY <1>1, <1>5
  <2>. QED  BY <1>1, <1>2, <2>1
<1>. QED  BY <1>1, <1>2, <1>3, <1>4, <1>5

-----------------------------------------------------------------------------
(* Steps that post runnables *)

Callback(s) ==
    \A k \in DOMAIN s :
        /\ s[k].do \in {"connected", "disconnected", "services", "transfer"}
        /\ s[k].addr \in Slave

Says(s, a) == \E j \in DOMAIN s : s[j].do = "disconnected" /\ s[j].addr = a

LEMMA PostRound ==
    ASSUME AppTypeOK, RoundInv, NEW s \in Seq(Runnable), handler' = handler \o s,
           Callback(s), UNCHANGED scan,
           \A a \in Slave : pending'[a] = 2 => pending[a] = 2
    PROVE  RoundInv'
<1>1. ASSUME NEW k \in DOMAIN handler'
      PROVE  \/ k \in DOMAIN handler /\ handler'[k] = handler[k]
             \/ /\ handler'[k].do \in {"connected", "disconnected", "services", "transfer"}
                /\ handler'[k].addr \in Slave
  <2>1. CASE k \in DOMAIN handler
    BY <2>1, PostProperties
  <2>2. CASE k \notin DOMAIN handler
    BY <2>2, PostProperties DEF Callback
  <2>. QED  BY <2>1, <2>2
<1>2. scan' => \A k \in DOMAIN handler' : handler'[k].do \notin {"start", "connect"}
  BY <1>1 DEF RoundInv
<1>3. ASSUME NEW k \in DOMAIN handler', handler'[k].do = "start"
      PROVE  /\ ~scan'
             /\ \A j \in DOMAIN handler' \ {k} : handler'[j].do \notin {"start", "connect"}
  <2>1. k \in DOMAIN handler /\ handler[k].do = "start"
    BY <1>1, <1>3
  <2>. QED  BY <1>1, <2>1 DEF RoundInv
<1>4. ASSUME NEW j \in DOMAIN handler', NEW k \in DOMAIN handler',
             handler'[j].do = "connect", handler'[k].do = "connect",
             handler'[j].addr = handler'[k].addr
      PROVE  j = k
  <2>1. /\ j \in DOMAIN handler /\ handler'[j] = handler[j]
        /\ k \in DOMAIN handler /\ handler'[k] = handler[k]
    BY <1>1, <1>4
  <2>. QED  BY <1>4, <2>1 DEF RoundInv
<1>5. \A k \in DOMAIN handler' : handler'[k].do # "start" => handler'[k].addr \in Slave
  BY <1>1 DEF RoundInv
<1>6. ASSUME NEW a \in Slave, pending'[a] = 2
      PROVE  /\ ~scan'
             /\ \A k \in DOMAIN handler' :
                   handler'[k].do # "start"
                   /\ ~(handler'[k].do = "connect" /\ handler'[k].addr = a)
  <2>1. pending[a] = 2
    BY <1>6
  <2>. QED  BY <1>1, <2>1 DEF RoundInv
<1>. QED  BY <1>2, <1>3, <1>4, <1>5, <1>6 DEF RoundInv

LEMMA PostStatus ==
    ASSUME AppTypeOK, RoundInv, StatusInv, NEW s \in Seq(Runnable),
           handler' = handler \o s, UNCHANGED <<master, crashed>>,
           ~amiss' => ~amiss,
           \A a \in Slave : asked'[a] > 0 => open'[a] > 0,
           ~amiss' => \A a \in Slave : open[a] > 0 => open'[a] > 0 \/ Says(s, a),
           ~amiss' => \A k \in DOMAIN s :
               s[k].do \in {"connected", "services"} => open'[s[k].addr] > 0
    PROVE  StatusInv'
<1>1. ListedOnce'
  BY DEF StatusInv, ListedOnce
<1>2. SUFFICES ASSUME ~amiss', ~crashed'
               PROVE  /\ \A i \in DOMAIN master' : master'[i].status \in Live =>
                            open'[master'[i].addr] > 0 \/ Corrected(handler', 0, master'[i].addr)
                      /\ \A k \in DOMAIN handler' :
                            handler'[k].do \in {"connected", "services"} =>
                            open'[handler'[k].addr] > 0 \/ Corrected(handler', k, handler'[k].addr)
  BY <1>1 DEF StatusInv
<1>3. ~amiss /\ ~crashed
  BY <1>2
<1>4. ASSUME NEW a, NEW k, Corrected(handler, k, a) PROVE Corrected(handler', k, a)
  BY <1>4, PostProperties DEF Corrected
<1>5. ASSUME NEW a, NEW k \in DOMAIN handler \cup {0}, Says(s, a) PROVE Corrected(handler', k, a)
  <2>1. PICK j \in DOMAIN s : s[j].do = "disconnected" /\ s[j].addr = a
    BY <1>5 DEF Says
  <2>2. /\ Len(handler) + j \in DOMAIN handler'
        /\ handler'[Len(handler) + j] = s[j]
        /\ Len(handler) + j > k
    <3>1. /\ Len(handler) + j \in DOMAIN handler'
          /\ handler'[Len(handler) + j] = s[j]
          /\ k \in DOMAIN handler => Len(handler) + j > k
      BY PostProperties
    <3>2. Len(handler) \in Nat /\ j \in Nat \ {0}
      BY Types, LenProperties
    <3>. QED  BY <3>1, <3>2
  <2>. QED  BY <2>1, <2>2 DEF Corrected
<1>6. ASSUME NEW i \in DOMAIN master', master'[i].status \in Live
      PROVE  open'[master'[i].addr] > 0 \/ Corrected(handler', 0, master'[i].addr)
  <2>1. i \in DOMAIN master /\ master'[i] = master[i] /\ master[i].addr \in Slave
    BY Types DEF Entry
  <2>2. open[master[i].addr] > 0 \/ Corrected(handler, 0, master[i].addr)
    BY <1>3, <1>6, <2>1 DEF StatusInv
  <2>. QED  BY <1>2, <1>4, <1>5, <2>1, <2>2
<1>7. ASSUME NEW k \in DOMAIN handler', handler'[k].do \in {"connected", "services"}
      PROVE  open'[handler'[k].addr] > 0 \/ Corrected(handler', k, handler'[k].addr)
  <2>1. CASE k \in DOMAIN handler
    <3>1. handler'[k] = handler[k] /\ handler[k].addr \in Slave
      BY <1>7, <2>1, PostProperties DEF RoundInv
    <3>2. open[handler[k].addr] > 0 \/ Corrected(handler, k, handler[k].addr)
      BY <1>3, <1>7, <2>1, <3>1 DEF StatusInv
    <3>. QED  BY <1>2, <1>4, <1>5, <2>1, <3>1, <3>2
  <2>2. CASE k \notin DOMAIN handler
    <3>1. k - Len(handler) \in DOMAIN s /\ handler'[k] = s[k - Len(handler)]
      BY <2>2, PostProperties
    <3>. QED  BY <1>2, <1>7, <3>1
  <2>. QED  BY <2>1, <2>2
<1>. QED  BY <1>6, <1>7

\* What a callback posts, unless its event is lost.
LEMMA PostsProperties ==
    ASSUME AppTypeOK, NEW a \in Slave,
           NEW do \in {"connected", "disconnected", "services"}, Posts(do, a)
    PROVE  /\ amiss' \in BOOLEAN /\ (~amiss' => ~amiss)
           /\ \E s \in Seq(Runnable) :
                /\ handler' = handler \o s
                /\ \A k \in DOMAIN s : s[k].do = do /\ s[k].addr = a
                /\ ~amiss' => DOMAIN s = {1}
<1>0. amiss \in BOOLEAN
  BY DEF AppTypeOK
<1>1. CASE Readable(a)
  <2>. DEFINE r == [do |-> do, addr |-> a, index |-> Index(a)]
  <2>1. handler' = Append(handler, r) /\ amiss' = amiss
    BY <1>1 DEF Posts, Post
  <2>2. r \in Runnable
    BY IndexProperties DEF Runnable
  <2>3. r.do = do /\ r.addr = a
    OBVIOUS
  <2>. HIDE DEF r
  <2>4. handler' = handler \o <<r>> /\ <<r>> \in Seq(Runnable) /\ DOMAIN <<r>> = {1}
        /\ <<r>>[1] = r
    BY <2>1, <2>2, PostOne
  <2>. QED  BY <1>0, <2>1, <2>3, <2>4
<1>2. CASE ~Readable(a)
  <2>1. amiss' = TRUE /\ UNCHANGED handler
    BY <1>2 DEF Posts
  <2>2. handler' = handler \o <<>> /\ <<>> \in Seq(Runnable) /\ DOMAIN <<>> = {}
    BY <2>1, PostNone
  <2>. QED  BY <1>0, <2>1, <2>2
<1>. QED  BY <1>1, <1>2

AppInv == AppTypeOK /\ RoundInv /\ StatusInv

LEMMA CallbackKeeps ==
    ASSUME AppInv, NEW s \in Seq(Runnable), handler' = handler \o s, Callback(s),
           UNCHANGED <<master, scan, crashed>>,
           amiss' \in BOOLEAN, ~amiss' => ~amiss,
           pending' \in [Slave -> Count], open' \in [Slave -> Nat],
           asked' \in [Slave -> Nat], faults' \in 0 .. MaxFaults,
           \A a \in Slave : pending'[a] = 2 => pending[a] = 2,
           \A a \in Slave : asked'[a] > 0 => open'[a] > 0,
           ~amiss' => \A a \in Slave : open[a] > 0 => open'[a] > 0 \/ Says(s, a),
           ~amiss' => \A k \in DOMAIN s :
               s[k].do \in {"connected", "services"} => open'[s[k].addr] > 0
    PROVE  AppInv'
<1>1. handler' \in Seq(Runnable)
  BY PostProperties DEF AppInv
<1>2. AppTypeOK'
  BY <1>1 DEF AppInv, AppTypeOK, Runnable
<1>3. RoundInv'
  BY PostRound DEF AppInv
<1>4. StatusInv'
  BY PostStatus DEF AppInv
<1>. QED  BY <1>2, <1>3, <1>4 DEF AppInv

LEMMA ConnectedKeeps ==
    ASSUME AppInv, NEW a \in Slave, Connected(a)
    PROVE  AppInv'
<1>0. /\ AppTypeOK
      /\ pending \in [Slave -> Count] /\ open \in [Slave -> Nat]
      /\ asked \in [Slave -> Nat] /\ faults \in 0 .. MaxFaults
      /\ \A b \in Slave : asked[b] > 0 => open[b] > 0
  BY DEF AppInv, AppTypeOK, StatusInv
<1>1. /\ pending[a] > 0
      /\ pending' = [pending EXCEPT ![a] = @ - 1]
      /\ open' = [open EXCEPT ![a] = @ + 1]
      /\ Posts("connected", a)
      /\ UNCHANGED <<master, scan, asked, crashed, faults>>
  BY DEF Connected
<1>2. /\ amiss' \in BOOLEAN /\ (~amiss' => ~amiss)
      /\ \E s \in Seq(Runnable) :
            /\ handler' = handler \o s
            /\ \A k \in DOMAIN s : s[k].do = "connected" /\ s[k].addr = a
            /\ ~amiss' => DOMAIN s = {1}
  BY <1>0, <1>1, PostsProperties
<1>3. PICK s \in Seq(Runnable) :
        /\ handler' = handler \o s
        /\ \A k \in DOMAIN s : s[k].do = "connected" /\ s[k].addr = a
  BY <1>2
<1>4. pending' \in [Slave -> Count] /\ \A b \in Slave : pending'[b] = 2 => pending[b] = 2
  <2>1. pending[a] - 1 \in Count /\ pending[a] - 1 # 2
    BY <1>0, <1>1 DEF Count
  <2>. QED  BY <1>0, <1>1, <2>1
<1>5. /\ open' \in [Slave -> Nat] /\ open'[a] > 0
      /\ \A b \in Slave : open[b] > 0 => open'[b] > 0
  <2>1. open[a] + 1 \in Nat /\ open[a] + 1 > 0
    BY <1>0
  <2>. QED  BY <1>0, <1>1, <2>1
<1>6. Callback(s)
  BY <1>3 DEF Callback
<1>. QED  BY <1>0, <1>1, <1>2, <1>3, <1>4, <1>5, <1>6, CallbackKeeps

LEMMA TimesOutKeeps ==
    ASSUME AppInv, NEW a \in Slave, TimesOut(a)
    PROVE  AppInv'
<1>0. /\ AppTypeOK
      /\ pending \in [Slave -> Count] /\ open \in [Slave -> Nat]
      /\ asked \in [Slave -> Nat] /\ faults \in 0 .. MaxFaults
      /\ \A b \in Slave : asked[b] > 0 => open[b] > 0
  BY DEF AppInv, AppTypeOK, StatusInv
<1>1. /\ pending[a] > 0
      /\ faults' \in 0 .. MaxFaults
      /\ pending' = [pending EXCEPT ![a] = @ - 1]
      /\ Posts("disconnected", a)
      /\ UNCHANGED <<master, scan, open, asked, crashed>>
  BY <1>0, AppAssumption DEF TimesOut, Fault
<1>2. /\ amiss' \in BOOLEAN /\ (~amiss' => ~amiss)
      /\ \E s \in Seq(Runnable) :
            /\ handler' = handler \o s
            /\ \A k \in DOMAIN s : s[k].do = "disconnected" /\ s[k].addr = a
            /\ ~amiss' => DOMAIN s = {1}
  BY <1>0, <1>1, PostsProperties
<1>3. PICK s \in Seq(Runnable) :
        /\ handler' = handler \o s
        /\ \A k \in DOMAIN s : s[k].do = "disconnected" /\ s[k].addr = a
  BY <1>2
<1>4. pending' \in [Slave -> Count] /\ \A b \in Slave : pending'[b] = 2 => pending[b] = 2
  <2>1. pending[a] - 1 \in Count /\ pending[a] - 1 # 2
    BY <1>0, <1>1 DEF Count
  <2>. QED  BY <1>0, <1>1, <2>1
<1>5. Callback(s)
  BY <1>3 DEF Callback
<1>. QED  BY <1>0, <1>1, <1>2, <1>3, <1>4, <1>5, CallbackKeeps

\* Every client of the slave is told, and there is one.
LEMMA DisconnectedKeeps ==
    ASSUME AppInv, NEW a \in Slave, Disconnected(a)
    PROVE  AppInv'
<1>0. /\ AppTypeOK /\ amiss \in BOOLEAN
      /\ pending \in [Slave -> Count] /\ open \in [Slave -> Nat]
      /\ asked \in [Slave -> Nat] /\ faults \in 0 .. MaxFaults
      /\ \A b \in Slave : asked[b] > 0 => open[b] > 0
  BY DEF AppInv, AppTypeOK, StatusInv
<1>. DEFINE told == [k \in 1 .. open[a] |->
                      [do |-> "disconnected", addr |-> a, index |-> Index(a)]]
<1>1. /\ open[a] > 0
      /\ faults' \in 0 .. MaxFaults
      /\ open' = [open EXCEPT ![a] = 0]
      /\ asked' = [asked EXCEPT ![a] = 0]
      /\ UNCHANGED <<master, scan, pending, crashed>>
  BY <1>0, AppAssumption DEF Disconnected, Fault
<1>2. IF Readable(a) THEN handler' = handler \o told /\ UNCHANGED amiss
      ELSE amiss' = TRUE /\ UNCHANGED handler
  BY DEF Disconnected
<1>3. told \in Seq(Runnable) /\ DOMAIN told = 1 .. open[a] /\ Callback(told) /\ Says(told, a)
      /\ \A k \in DOMAIN told : told[k].do = "disconnected"
  <2>1. [do |-> "disconnected", addr |-> a, index |-> Index(a)] \in Runnable
    BY <1>0, IndexProperties DEF Runnable
  <2>2. open[a] \in Nat /\ 1 \in 1 .. open[a]
    BY <1>0, <1>1
  <2>3. told \in [1 .. open[a] -> Runnable]
    BY <2>1
  <2>4. /\ DOMAIN told = 1 .. open[a]
        /\ \A k \in 1 .. open[a] : told[k].do = "disconnected" /\ told[k].addr = a
    OBVIOUS
  <2>. HIDE DEF told
  <2>5. told \in Seq(Runnable)
    BY <2>2, <2>3, SeqOfRunnables
  <2>. QED  BY <2>2, <2>4, <2>5 DEF Callback, Says
<1>4. /\ open' \in [Slave -> Nat] /\ asked' \in [Slave -> Nat]
      /\ \A b \in Slave : asked'[b] > 0 => open'[b] > 0
      /\ \A b \in Slave : open[b] > 0 => b = a \/ open'[b] > 0
  BY <1>0, <1>1
<1>. HIDE DEF told
<1>5. CASE Readable(a)
  <2>1. handler' = handler \o told /\ UNCHANGED amiss
    BY <1>2, <1>5
  <2>. QED  BY <1>0, <1>1, <1>3, <1>4, <2>1, CallbackKeeps
<1>6. CASE ~Readable(a)
  <2>1. amiss' = TRUE /\ UNCHANGED handler
    BY <1>2, <1>6
  <2>2. handler' = handler \o <<>> /\ <<>> \in Seq(Runnable) /\ DOMAIN <<>> = {}
    BY <1>0, <2>1, PostNone
  <2>3. Callback(<<>>)
    BY <2>2 DEF Callback
  <2>. QED  BY <1>0, <1>1, <1>4, <2>1, <2>2, <2>3, CallbackKeeps
<1>. QED  BY <1>5, <1>6

LEMMA ServicesKeeps ==
    ASSUME AppInv, NEW a \in Slave, Services(a)
    PROVE  AppInv'
<1>0. /\ AppTypeOK /\ amiss \in BOOLEAN
      /\ pending \in [Slave -> Count] /\ open \in [Slave -> Nat]
      /\ asked \in [Slave -> Nat] /\ faults \in 0 .. MaxFaults
      /\ \A b \in Slave : asked[b] > 0 => open[b] > 0
  BY DEF AppInv, AppTypeOK, StatusInv
<1>. DEFINE found == [k \in 1 .. 2 |-> [do |-> IF k = 1 THEN "services" ELSE "transfer",
                                        addr |-> a, index |-> Index(a)]]
<1>1. /\ asked[a] > 0
      /\ asked' = [asked EXCEPT ![a] = @ - 1]
      /\ faults' \in 0 .. MaxFaults
      /\ UNCHANGED <<master, scan, pending, open, crashed>>
      /\ \/ handler' = handler \o found /\ UNCHANGED amiss
         \/ amiss' = TRUE /\ UNCHANGED handler
         \/ UNCHANGED <<handler, amiss>>
  <2>1. /\ asked[a] > 0
        /\ asked' = [asked EXCEPT ![a] = @ - 1]
        /\ UNCHANGED <<master, scan, pending, open, crashed>>
    BY DEF Services
  <2>2. \/ handler' = handler \o found /\ UNCHANGED <<amiss, faults>>
        \/ amiss' = TRUE /\ UNCHANGED <<handler, faults>>
        \/ Fault /\ UNCHANGED <<handler, amiss>>
    BY DEF Services
  <2>3. Fault => faults' \in 0 .. MaxFaults
    BY <1>0, AppAssumption DEF Fault
  <2>. HIDE DEF found
  <2>. QED  BY <1>0, <2>1, <2>2, <2>3
<1>2. /\ found \in Seq(Runnable) /\ DOMAIN found = 1 .. 2
      /\ \A k \in DOMAIN found : found[k].do \in {"services", "transfer"} /\ found[k].addr = a
  <2>1. /\ [do |-> "services", addr |-> a, index |-> Index(a)] \in Runnable
        /\ [do |-> "transfer", addr |-> a, index |-> Index(a)] \in Runnable
    BY <1>0, IndexProperties DEF Runnable
  <2>2. found \in [1 .. 2 -> Runnable]
    BY <2>1
  <2>3. \A k \in 1 .. 2 : found[k].do \in {"services", "transfer"} /\ found[k].addr = a
    OBVIOUS
  <2>. HIDE DEF found
  <2>. QED  BY <2>2, <2>3, SeqOfRunnables
<1>. HIDE DEF found
<1>3. /\ amiss' \in BOOLEAN /\ (~amiss' => ~amiss)
      /\ \E s \in Seq(Runnable) :
            /\ handler' = handler \o s
            /\ \A k \in DOMAIN s : s[k].do \in {"services", "transfer"} /\ s[k].addr = a
  <2>1. CASE handler' = handler \o found /\ UNCHANGED amiss
    BY <1>0, <1>2, <2>1
  <2>2. CASE UNCHANGED handler /\ (amiss' = TRUE \/ UNCHANGED amiss)
    <3>1. handler' = handler \o <<>> /\ <<>> \in Seq(Runnable) /\ DOMAIN <<>> = {}
      BY <1>0, <2>2, PostNone
    <3>. QED  BY <1>0, <2>2, <3>1
  <2>. QED  BY <1>1, <2>1, <2>2
<1>4. PICK s \in Seq(Runnable) :
        /\ handler' = handler \o s
        /\ \A k \in DOMAIN s : s[k].do \in {"services", "transfer"} /\ s[k].addr = a
  BY <1>3
<1>5. /\ asked' \in [Slave -> Nat] /\ open[a] > 0
      /\ \A b \in Slave : asked'[b] > 0 => open[b] > 0
  <2>1. asked[a] - 1 \in Nat
    BY <1>0, <1>1
  <2>. QED  BY <1>0, <1>1, <2>1
<1>6. Callback(s)
  BY <1>4 DEF Callback
<1>. QED  BY <1>0, <1>1, <1>3, <1>4, <1>5, <1>6, CallbackKeeps

LEMMA ExpireKeeps ==
    ASSUME AppInv, Expire
    PROVE  AppInv'
<1>. DEFINE r == [do |-> "start", addr |-> 0, index |-> 0]
<1>1. /\ AppTypeOK /\ RoundInv /\ StatusInv /\ pending \in [Slave -> Count]
      /\ asked \in [Slave -> Nat] /\ open \in [Slave -> Nat]
  BY DEF AppInv, AppTypeOK
<1>2. /\ ~scan /\ \A a \in Slave : pending[a] < 2
      /\ \A k \in DOMAIN handler : handler[k].do \notin {"start", "connect"}
      /\ handler' = Append(handler, r)
      /\ UNCHANGED <<master, scan, clientVars, crashed, amiss>>
  BY DEF Expire, Post
<1>3. r \in Runnable /\ r.do = "start"
  BY DEF Runnable
<1>. HIDE DEF r
<1>4. /\ handler' = handler \o <<r>> /\ <<r>> \in Seq(Runnable) /\ DOMAIN <<r>> = {1}
      /\ <<r>>[1] = r
  BY <1>1, <1>2, <1>3, PostOne
<1>5. /\ handler' \in Seq(Runnable)
      /\ \A k \in DOMAIN handler' :
            \/ k \in DOMAIN handler /\ handler'[k] = handler[k]
            \/ k = Len(handler) + 1 /\ handler'[k] = r
  <2>1. ASSUME NEW k \in DOMAIN handler', k \notin DOMAIN handler
        PROVE  k = Len(handler) + 1 /\ handler'[k] = r
    <3>1. k - Len(handler) = 1 /\ handler'[k] = <<r>>[k - Len(handler)] /\ k \in Int
      BY <1>1, <1>4, <2>1, PostProperties
    <3>. QED  BY <1>1, <1>4, <3>1, Types
  <2>. QED  BY <1>1, <1>4, <2>1, PostProperties
<1>6. AppTypeOK'
  BY <1>1, <1>2, <1>5 DEF AppTypeOK, Runnable, clientVars
<1>7. RoundInv'
  <2>1. UNCHANGED <<scan, pending>>
    BY <1>2 DEF clientVars
  <2>2. \A a \in Slave : pending'[a] # 2
    BY <1>1, <1>2, <2>1 DEF Count
  <2>3. \A k \in DOMAIN handler' :
          handler'[k].do \in {"start", "connect"} => k = Len(handler) + 1 /\ handler'[k] = r
    BY <1>2, <1>5
  <2>4. \A k \in DOMAIN handler' : handler'[k].do # "start" => handler'[k].addr \in Slave
    BY <1>1, <1>3, <1>5 DEF RoundInv
  <2>. QED  BY <1>2, <1>3, <2>1, <2>2, <2>3, <2>4 DEF RoundInv
<1>8. \A k \in DOMAIN <<r>> : <<r>>[k].do \notin {"connected", "services"}
  BY <1>3, <1>4
<1>9. \A a \in Slave : asked[a] > 0 => open[a] > 0
  BY <1>1 DEF StatusInv
<1>10. UNCHANGED <<open, asked, amiss, crashed, master>>
  BY <1>2 DEF clientVars
<1>11. StatusInv'
  BY <1>1, <1>4, <1>8, <1>9, <1>10, PostStatus
<1>. QED  BY <1>6, <1>7, <1>11 DEF AppInv

\* One "connect" for each slave that is missing: it is listed once.
LEMMA StopKeeps ==
    ASSUME AppInv, Stop
    PROVE  AppInv'
<1>1. /\ AppTypeOK /\ RoundInv /\ StatusInv /\ pending \in [Slave -> Count]
      /\ asked \in [Slave -> Nat] /\ open \in [Slave -> Nat]
  BY DEF AppInv, AppTypeOK
<1>2. PICK S : handler' = handler \o [i \in DOMAIN Pick(master, S) |->
                 [do |-> "connect", addr |-> Pick(master, S)[i].addr, index |-> 0]]
  BY DEF Stop
<1>3. scan /\ scan' = FALSE /\ UNCHANGED <<master, clientVars, crashed, amiss>>
  BY DEF Stop
<1>. DEFINE missing == Pick(master, S)
            s == [i \in DOMAIN missing |->
                    [do |-> "connect", addr |-> missing[i].addr, index |-> 0]]
<1>4. missing \in Seq(Entry) /\ Part(missing, master)
  BY <1>1, Types, PickProperties
<1>5. handler' = handler \o s
  BY <1>2
<1>. HIDE DEF missing
<1>6. /\ Len(missing) \in Nat /\ DOMAIN missing = 1 .. Len(missing)
      /\ \A i \in DOMAIN missing : missing[i].addr \in Slave
  <2>1. Len(missing) \in Nat /\ DOMAIN missing = 1 .. Len(missing)
    BY <1>4, LenProperties
  <2>2. \A i \in 1 .. Len(missing) : missing[i] \in Entry
    BY <1>4, ElementOfSeq
  <2>. QED  BY <2>1, <2>2 DEF Entry
<1>7. /\ DOMAIN s = DOMAIN missing
      /\ \A i \in DOMAIN missing : /\ s[i].do = "connect"
                                   /\ s[i].addr = missing[i].addr
                                   /\ s[i] \in Runnable
  BY <1>6 DEF Runnable
<1>8. s \in Seq(Runnable)
  <2>1. s \in [1 .. Len(missing) -> Runnable]
    BY <1>6, <1>7
  <2>. HIDE DEF s
  <2>. QED  BY <1>6, <2>1, SeqOfRunnables
<1>. HIDE DEF s
<1>9. \A i, j \in DOMAIN s : s[i].addr = s[j].addr => i = j
  <2>1. PICK from \in [DOMAIN missing -> DOMAIN master] :
          /\ \A j, k \in DOMAIN missing : from[j] = from[k] => j = k
          /\ \A k \in DOMAIN missing : missing[k] = master[from[k]]
    BY <1>4 DEF Part
  <2>. QED  BY <1>1, <1>7, <2>1 DEF StatusInv, ListedOnce
<1>10. UNCHANGED <<pending, open, asked, faults, amiss, crashed, master>>
  BY <1>3 DEF clientVars
<1>11. handler' \in Seq(Runnable)
  BY <1>1, <1>5, <1>8, PostProperties
<1>12. AppTypeOK'
  BY <1>1, <1>3, <1>10, <1>11 DEF AppTypeOK, Runnable
<1>13. ASSUME NEW k \in DOMAIN handler'
       PROVE  \/ /\ k \in DOMAIN handler /\ handler'[k] = handler[k]
                 /\ handler[k].do \notin {"start", "connect"}
              \/ /\ k \notin DOMAIN handler
                 /\ k - Len(handler) \in DOMAIN s /\ handler'[k] = s[k - Len(handler)]
  <2>1. k \in DOMAIN handler => handler[k].do \notin {"start", "connect"}
    BY <1>1, <1>3 DEF RoundInv
  <2>. QED  BY <1>1, <1>5, <1>8, <2>1, PostProperties
<1>14. RoundInv'
  <2>1. ASSUME NEW k \in DOMAIN handler'
        PROVE  /\ handler'[k].do # "start"
               /\ handler'[k].addr \in Slave
    <3>1. k \in DOMAIN handler /\ handler[k].do # "start" => handler[k].addr \in Slave
      BY <1>1 DEF RoundInv
    <3>. QED  BY <1>6, <1>7, <1>13, <3>1
  <2>2. ASSUME NEW j \in DOMAIN handler', NEW k \in DOMAIN handler',
               handler'[j].do = "connect", handler'[k].do = "connect",
               handler'[j].addr = handler'[k].addr
        PROVE  j = k
    <3>1. /\ j - Len(handler) \in DOMAIN s /\ handler'[j] = s[j - Len(handler)]
          /\ k - Len(handler) \in DOMAIN s /\ handler'[k] = s[k - Len(handler)]
      BY <1>13, <2>2
    <3>2. j - Len(handler) = k - Len(handler)
      BY <1>9, <2>2, <3>1
    <3>3. Len(handler) \in Nat /\ j \in Int /\ k \in Int
      BY <1>1, <1>5, <1>8, Types, LenProperties, PostProperties
    <3>. QED  BY <3>2, <3>3
  <2>3. \A a \in Slave : pending'[a] # 2
    BY <1>1, <1>3, <1>10 DEF RoundInv
  <2>. QED  BY <1>3, <2>1, <2>2, <2>3 DEF RoundInv
<1>15. \A k \in DOMAIN s : s[k].do \notin {"connected", "services"}
  BY <1>7
<1>16. \A a \in Slave : asked[a] > 0 => open[a] > 0
  BY <1>1 DEF StatusInv
<1>17. StatusInv'
  BY <1>1, <1>5, <1>8, <1>10, <1>15, <1>16, PostStatus
<1>. QED  BY <1>12, <1>14, <1>17 DEF AppInv

-----------------------------------------------------------------------------
(* Steps that change the list *)

LEMMA ScanResultKeeps ==
    ASSUME AppInv, NEW a \in Slave, ScanResult(a)
    PROVE  AppInv'
<1>. DEFINE e == [addr |-> a, status |-> "disconnect", gatt |-> FALSE]
<1>1. AppTypeOK /\ RoundInv /\ StatusInv
  BY DEF AppInv
<1>2. /\ ~Has(a) /\ master' = Append(master, e)
      /\ UNCHANGED <<handler, scan, clientVars, crashed, amiss>>
  BY DEF ScanResult
<1>3. e \in Entry /\ e.addr = a /\ e.status \notin Live
  BY DEF Entry, Live
<1>. HIDE DEF e
<1>4. /\ master' \in Seq(Entry)
      /\ \A i \in DOMAIN master' :
            \/ i \in DOMAIN master /\ master'[i] = master[i]
            \/ i = Len(master) + 1 /\ master'[i] = e
  <2>1. /\ Len(master) \in Nat /\ DOMAIN master = 1 .. Len(master)
        /\ Append(master, e) \in Seq(Entry)
        /\ Len(Append(master, e)) = Len(master) + 1
        /\ \A i \in 1 .. Len(master) : Append(master, e)[i] = master[i]
        /\ Append(master, e)[Len(master) + 1] = e
    BY <1>1, <1>3, Types, AppendProperties
  <2>2. DOMAIN master' = 1 .. Len(master) + 1
    BY <1>2, <2>1, LenProperties
  <2>. QED  BY <1>2, <2>1, <2>2
<1>5. UNCHANGED <<pending, open, asked, faults>>
  BY <1>2 DEF clientVars
<1>6. AppTypeOK'
  BY <1>1, <1>2, <1>4, <1>5 DEF AppTypeOK, Entry
<1>7. RoundInv'
  BY <1>1, <1>2, <1>5 DEF RoundInv
<1>8. ListedOnce'
  <2>1. \A i \in DOMAIN master : master[i].addr # a
    BY <1>2 DEF Has
  <2>. QED  BY <1>1, <1>3, <1>4, <2>1 DEF StatusInv, ListedOnce
<1>9. StatusInv'
  BY <1>1, <1>2, <1>3, <1>4, <1>5, <1>8 DEF StatusInv
<1>. QED  BY <1>6, <1>7, <1>9 DEF AppInv

LEMMA ScanNullKeeps ==
    ASSUME AppInv, ScanNull
    PROVE  AppInv'
<1>1. /\ AppTypeOK /\ RoundInv /\ StatusInv
      /\ crashed' = TRUE /\ faults' \in 0 .. MaxFaults
      /\ UNCHANGED <<master, handler, scan, pending, open, asked, amiss>>
  BY AppAssumption DEF AppInv, AppTypeOK, ScanNull, Fault
<1>. QED  BY <1>1 DEF AppInv, AppTypeOK, RoundInv, StatusInv, ListedOnce

-----------------------------------------------------------------------------
(* Steps that run a runnable *)

LEMMA TakeRound ==
    ASSUME AppTypeOK, RoundInv, handler # <<>>, handler' = Tail(handler),
           scan' => scan \/ handler[1].do = "start",
           \A a \in Slave : pending'[a] = 2 =>
               \/ pending[a] = 2 /\ ~scan'
               \/ handler[1].do = "connect" /\ handler[1].addr = a /\ ~scan'
    PROVE  RoundInv'
<1>1. /\ 1 \in DOMAIN handler
      /\ \A k \in DOMAIN handler' : /\ k \in Nat /\ k + 1 \in DOMAIN handler /\ k + 1 # 1
                                    /\ handler'[k] = handler[k + 1]
  BY TakeProperties
<1>2. ASSUME NEW k \in DOMAIN handler', handler'[k].do = "start"
      PROVE  /\ ~scan'
             /\ \A j \in DOMAIN handler' \ {k} : handler'[j].do \notin {"start", "connect"}
  <2>1. /\ ~scan
        /\ \A j \in DOMAIN handler \ {k + 1} : handler[j].do \notin {"start", "connect"}
    BY <1>1, <1>2 DEF RoundInv
  <2>2. \A j \in DOMAIN handler' \ {k} : j + 1 \in DOMAIN handler \ {k + 1}
    BY <1>1
  <2>. QED  BY <1>1, <2>1, <2>2
<1>3. scan' => \A k \in DOMAIN handler' : handler'[k].do \notin {"start", "connect"}
  BY <1>1 DEF RoundInv
<1>4. ASSUME NEW j \in DOMAIN handler', NEW k \in DOMAIN handler',
             handler'[j].do = "connect", handler'[k].do = "connect",
             handler'[j].addr = handler'[k].addr
      PROVE  j = k
  <2>1. j + 1 = k + 1
    BY <1>1, <1>4 DEF RoundInv
  <2>. QED  BY <1>1, <2>1
<1>5. \A k \in DOMAIN handler' : handler'[k].do # "start" => handler'[k].addr \in Slave
  BY <1>1 DEF RoundInv
<1>6. ASSUME NEW a \in Slave, pending'[a] = 2
      PROVE  /\ ~scan'
             /\ \A k \in DOMAIN handler' :
                   handler'[k].do # "start"
                   /\ ~(handler'[k].do = "connect" /\ handler'[k].addr = a)
  <2>1. CASE pending[a] = 2 /\ ~scan'
    BY <1>1, <2>1 DEF RoundInv
  <2>2. CASE handler[1].do = "connect" /\ handler[1].addr = a /\ ~scan'
    BY <1>1, <2>2 DEF RoundInv
  <2>. QED  BY <1>6, <2>1, <2>2
<1>. QED  BY <1>2, <1>3, <1>4, <1>5, <1>6 DEF RoundInv

LEMMA TakeStatus ==
    ASSUME AppTypeOK, RoundInv, StatusInv, handler # <<>>, handler' = Tail(handler),
           UNCHANGED open, ~amiss' => ~amiss, ~crashed' => ~crashed,
           ListedOnce',
           \A a \in Slave : asked'[a] > 0 => open[a] > 0,
           ~amiss' /\ ~crashed' => \A i \in DOMAIN master' :
               master'[i].status \in Live =>
               open[master'[i].addr] > 0 \/ Corrected(handler, 1, master'[i].addr)
    PROVE  StatusInv'
<1>1. SUFFICES ASSUME ~amiss', ~crashed'
               PROVE  /\ \A i \in DOMAIN master' : master'[i].status \in Live =>
                            open'[master'[i].addr] > 0 \/ Corrected(handler', 0, master'[i].addr)
                      /\ \A k \in DOMAIN handler' :
                            handler'[k].do \in {"connected", "services"} =>
                            open'[handler'[k].addr] > 0 \/ Corrected(handler', k, handler'[k].addr)
  BY DEF StatusInv
<1>2. ~amiss /\ ~crashed
  BY <1>1
<1>3. ASSUME NEW a, NEW k \in Nat, Corrected(handler, k + 1, a)
      PROVE  Corrected(handler', k, a)
  <2>1. PICK j \in DOMAIN handler :
          j > k + 1 /\ handler[j].do = "disconnected" /\ handler[j].addr = a
    BY <1>3 DEF Corrected
  <2>2. j \in Nat /\ j > 1 /\ j - 1 > k
    BY <2>1, Types
  <2>3. j - 1 \in DOMAIN handler' /\ handler'[j - 1] = handler[j]
    BY <2>2, TakeProperties
  <2>. QED  BY <2>1, <2>2, <2>3 DEF Corrected
<1>4. 0 + 1 = 1
  OBVIOUS
<1>5. ASSUME NEW i \in DOMAIN master', master'[i].status \in Live
      PROVE  open'[master'[i].addr] > 0 \/ Corrected(handler', 0, master'[i].addr)
  BY <1>1, <1>3, <1>4, <1>5
<1>6. ASSUME NEW k \in DOMAIN handler', handler'[k].do \in {"connected", "services"}
      PROVE  open'[handler'[k].addr] > 0 \/ Corrected(handler', k, handler'[k].addr)
  <2>1. k \in Nat /\ k + 1 \in DOMAIN handler /\ handler'[k] = handler[k + 1]
    BY TakeProperties
  <2>2. \/ open[handler[k + 1].addr] > 0
        \/ Corrected(handler, k + 1, handler[k + 1].addr)
    BY <1>2, <1>6, <2>1 DEF StatusInv
  <2>. QED  BY <1>3, <2>1, <2>2
<1>. QED  BY <1>5, <1>6

\* What is corrected by another than the first runnable stays corrected.
LEMMA StillCorrected ==
    ASSUME AppTypeOK, NEW a, Corrected(handler, 0, a),
           ~(handler[1].do = "disconnected" /\ handler[1].addr = a)
    PROVE  Corrected(handler, 1, a)
<1>1. PICK j \in DOMAIN handler :
        j > 0 /\ handler[j].do = "disconnected" /\ handler[j].addr = a
  BY DEF Corrected
<1>2. j > 1
  BY <1>1, Types
<1>. QED  BY <1>1, <1>2 DEF Corrected

LEMMA StartKeeps ==
    ASSUME AppInv, handler # <<>>, handler' = Tail(handler),
           handler[1].do = "start", Start
    PROVE  AppInv'
<1>1. AppTypeOK /\ RoundInv /\ StatusInv
  BY DEF AppInv
<1>2. /\ master' = DelMaster(master) /\ scan' = TRUE
      /\ UNCHANGED <<pending, open, asked, faults, crashed, amiss>>
  BY DEF Start, clientVars
<1>3. /\ 1 \in DOMAIN handler /\ handler' \in Seq(Runnable)
  BY <1>1, TakeProperties
<1>4. master' \in Seq(Entry) /\ Part(master', master)
  BY <1>1, <1>2, DelMasterProperties
<1>5. AppTypeOK'
  BY <1>1, <1>2, <1>3, <1>4 DEF AppTypeOK, Entry, Runnable
<1>6. \A a \in Slave : pending[a] # 2
  BY <1>1, <1>3 DEF RoundInv
<1>7. RoundInv'
  BY <1>1, <1>2, <1>6, TakeRound
<1>8. PICK from \in [DOMAIN master' -> DOMAIN master] :
        /\ \A j, k \in DOMAIN master' : from[j] = from[k] => j = k
        /\ \A k \in DOMAIN master' : master'[k] = master[from[k]]
  BY <1>4 DEF Part
<1>9. ListedOnce'
  <2>1. ASSUME NEW i \in DOMAIN master', NEW j \in DOMAIN master',
               master'[i].addr = master'[j].addr
        PROVE  i = j
    <3>1. from[i] = from[j]
      BY <1>1, <1>8, <2>1 DEF StatusInv, ListedOnce
    <3>. QED  BY <1>8, <3>1
  <2>. QED  BY <2>1 DEF ListedOnce
<1>10. ASSUME ~amiss', ~crashed', NEW i \in DOMAIN master', master'[i].status \in Live
       PROVE  open[master'[i].addr] > 0 \/ Corrected(handler, 1, master'[i].addr)
  <2>1. from[i] \in DOMAIN master /\ master'[i] = master[from[i]]
    BY <1>8
  <2>2. open[master'[i].addr] > 0 \/ Corrected(handler, 0, master'[i].addr)
    BY <1>1, <1>2, <1>10, <2>1 DEF StatusInv
  <2>. QED  BY <1>1, <2>2, StillCorrected
<1>11. \A a \in Slave : asked'[a] > 0 => open[a] > 0
  BY <1>1, <1>2 DEF StatusInv
<1>12. StatusInv'
  BY <1>1, <1>2, <1>9, <1>10, <1>11, TakeStatus
<1>. QED  BY <1>5, <1>7, <1>12 DEF AppInv

\* A step that keeps the addresses of the list.
LEMMA SameAddresses ==
    ASSUME ListedOnce, DOMAIN master' = DOMAIN master,
           \A i \in DOMAIN master : master'[i].addr = master[i].addr
    PROVE  ListedOnce'
BY DEF ListedOnce

LEMMA ConnectKeeps ==
    ASSUME AppInv, ~crashed, handler # <<>>, handler' = Tail(handler),
           handler[1].do = "connect", Connect(handler[1].addr)
    PROVE  AppInv'
<1>. DEFINE a == handler[1].addr
<1>1. /\ AppTypeOK /\ RoundInv /\ StatusInv /\ pending \in [Slave -> Count]
      /\ crashed \in BOOLEAN
  BY DEF AppInv, AppTypeOK
<1>2. /\ pending' = [pending EXCEPT ![a] = @ + 1]
      /\ crashed' = ~Has(a)
      /\ master' = IF Has(a) THEN [master EXCEPT ![Index(a)].gatt = TRUE] ELSE master
      /\ UNCHANGED <<scan, open, asked, amiss, faults>>
  BY DEF Connect
<1>3. /\ 1 \in DOMAIN handler /\ handler' \in Seq(Runnable)
  BY <1>1, TakeProperties
<1>4. a \in Slave /\ pending[a] # 2 /\ ~scan
  BY <1>1, <1>3 DEF RoundInv
<1>. HIDE DEF a
<1>5. /\ pending' \in [Slave -> Count]
      /\ \A b \in Slave : b # a => pending'[b] = pending[b]
  <2>1. pending[a] + 1 \in Count
    BY <1>1, <1>4 DEF Count
  <2>. QED  BY <1>1, <1>2, <1>4, <2>1
<1>6. /\ master' \in Seq(Entry)
      /\ DOMAIN master' = DOMAIN master
      /\ \A i \in DOMAIN master : /\ master'[i].addr = master[i].addr
                                  /\ master'[i].status = master[i].status
  <2>1. CASE Has(a)
    <3>. DEFINE x == Index(a)
                e == [master[x] EXCEPT !.gatt = TRUE]
    <3>1. x \in DOMAIN master /\ master' = [master EXCEPT ![x] = e]
      BY <1>1, <1>2, <2>1, IndexProperties
    <3>2. master[x] \in Entry
      BY <1>1, <3>1, Types
    <3>3. e \in Entry /\ e.addr = master[x].addr /\ e.status = master[x].status
      BY <3>2 DEF Entry
    <3>. HIDE DEF x, e
    <3>4. master' \in Seq(Entry)
      BY <1>1, <3>1, <3>3, Types, ExceptSeq
    <3>. QED  BY <3>1, <3>3, <3>4
  <2>2. CASE ~Has(a)
    BY <1>1, <1>2, <2>2, Types
  <2>. QED  BY <2>1, <2>2
<1>7. AppTypeOK'
  BY <1>1, <1>2, <1>3, <1>5, <1>6 DEF AppTypeOK, Entry, Runnable
<1>8. RoundInv'
  <2>1. \A b \in Slave : pending'[b] = 2 =>
          \/ pending[b] = 2 /\ ~scan'
          \/ handler[1].do = "connect" /\ handler[1].addr = b /\ ~scan'
    BY <1>2, <1>4, <1>5 DEF a
  <2>. QED  BY <1>1, <1>2, <2>1, TakeRound
<1>9. ListedOnce'
  BY <1>1, <1>6, SameAddresses DEF StatusInv
<1>10. ASSUME ~amiss', ~crashed', NEW i \in DOMAIN master', master'[i].status \in Live
       PROVE  open[master'[i].addr] > 0 \/ Corrected(handler, 1, master'[i].addr)
  <2>1. open[master'[i].addr] > 0 \/ Corrected(handler, 0, master'[i].addr)
    BY <1>1, <1>2, <1>6, <1>10 DEF StatusInv
  <2>. QED  BY <1>1, <2>1, StillCorrected
<1>11. \A b \in Slave : asked'[b] > 0 => open[b] > 0
  BY <1>1, <1>2 DEF StatusInv
<1>12. StatusInv'
  BY <1>1, <1>2, <1>9, <1>10, <1>11, TakeStatus
<1>. QED  BY <1>7, <1>8, <1>12 DEF AppInv

\* The entry that a runnable sets gets the status of the event; if it is
\* another slave's that is remembered.
LEMMA SetProperties ==
    ASSUME AppTypeOK, NEW i, NEW a,
           NEW status \in Live \cup {"disconnect"}, Set(i, a, status)
    PROVE  /\ master' \in Seq(Entry)
           /\ DOMAIN master' = DOMAIN master
           /\ \A j \in DOMAIN master : /\ master'[j].addr = master[j].addr
                                       /\ j # i => master'[j].status = master[j].status
           /\ amiss' \in BOOLEAN /\ crashed' \in BOOLEAN
           /\ ~amiss' => ~amiss
           /\ ~crashed' => /\ ~crashed
                           /\ i \in DOMAIN master /\ master'[i].status = status
                           /\ ~amiss' => master[i].addr = a
<1>0. amiss \in BOOLEAN /\ crashed \in BOOLEAN
  BY DEF AppTypeOK
<1>1. CASE i \in DOMAIN master
  <2>. DEFINE e == [master[i] EXCEPT !.status = status]
  <2>1. /\ master' = [master EXCEPT ![i] = e]
        /\ amiss' = (amiss \/ master[i].addr # a)
        /\ UNCHANGED crashed
    BY <1>1 DEF Set
  <2>2. master[i] \in Entry
    BY <1>1, Types
  <2>3. e \in Entry /\ e.addr = master[i].addr /\ e.status = status
    BY <2>2 DEF Entry
  <2>. HIDE DEF e
  <2>4. master' \in Seq(Entry)
    BY <1>1, <2>1, <2>3, Types, ExceptSeq
  <2>5. /\ DOMAIN master' = DOMAIN master
        /\ \A j \in DOMAIN master : /\ master'[j].addr = master[j].addr
                                    /\ j # i => master'[j].status = master[j].status
        /\ master'[i].status = status
    BY <1>1, <2>1, <2>3
  <2>6. ~crashed' => ~crashed
    BY <2>1
  <2>. QED  BY <1>0, <1>1, <2>1, <2>4, <2>5, <2>6
<1>2. CASE i \notin DOMAIN master
  <2>1. crashed' = TRUE /\ UNCHANGED <<master, amiss>>
    BY <1>2 DEF Set
  <2>. QED  BY <1>0, <2>1, Types
<1>. QED  BY <1>1, <1>2

LEMMA UpdateKeeps ==
    ASSUME AppInv, ~crashed, handler # <<>>, handler' = Tail(handler),
           Update(handler[1])
    PROVE  AppInv'
<1>. DEFINE r == handler[1]
            status == IF r.do = "connected" THEN "connect"
                      ELSE IF r.do = "disconnected" THEN "disconnect" ELSE "services"
<1>1. /\ AppTypeOK /\ RoundInv /\ StatusInv
      /\ asked \in [Slave -> Nat] /\ open \in [Slave -> Nat]
  BY DEF AppInv, AppTypeOK
<1>2. /\ 1 \in DOMAIN handler /\ handler' \in Seq(Runnable) /\ r \in Runnable
  BY <1>1, Types, TakeProperties
<1>3. /\ r.do \in {"connected", "disconnected", "services"}
      /\ Set(r.index, r.addr, status)
      /\ \/ asked' = asked
         \/ /\ open[r.addr] > 0 /\ asked' = [asked EXCEPT ![r.addr] = @ + 1]
      /\ UNCHANGED <<scan, pending, open, faults>>
  BY DEF Update
<1>4. status \in Live \cup {"disconnect"} /\ (status \in Live <=> r.do # "disconnected")
  BY <1>3 DEF Live
<1>5. r.addr \in Slave
  BY <1>1, <1>2, <1>3 DEF RoundInv
<1>. HIDE DEF status
<1>6. /\ master' \in Seq(Entry)
      /\ DOMAIN master' = DOMAIN master
      /\ \A j \in DOMAIN master : /\ master'[j].addr = master[j].addr
                                  /\ j # r.index => master'[j].status = master[j].status
      /\ amiss' \in BOOLEAN /\ crashed' \in BOOLEAN
      /\ ~amiss' => ~amiss
      /\ ~crashed' => /\ ~crashed
                      /\ r.index \in DOMAIN master /\ master'[r.index].status = status
                      /\ ~amiss' => master[r.index].addr = r.addr
  BY <1>1, <1>3, <1>4, SetProperties
<1>7. asked' \in [Slave -> Nat] /\ \A b \in Slave : asked'[b] > 0 => open[b] > 0
  <2>1. asked[r.addr] + 1 \in Nat
    BY <1>1, <1>5
  <2>2. \A b \in Slave : asked[b] > 0 => open[b] > 0
    BY <1>1 DEF StatusInv
  <2>. HIDE DEF r
  <2>. QED  BY <1>1, <1>3, <1>5, <2>1, <2>2
<1>8. AppTypeOK'
  BY <1>1, <1>2, <1>3, <1>6, <1>7 DEF AppTypeOK, Entry, Runnable
<1>9. RoundInv'
  <2>1. \A b \in Slave : pending'[b] = 2 => pending[b] = 2 /\ ~scan'
    BY <1>1, <1>3 DEF RoundInv
  <2>. QED  BY <1>1, <1>3, <2>1, TakeRound
<1>10. ListedOnce'
  BY <1>1, <1>6, SameAddresses DEF StatusInv
<1>11. ASSUME ~amiss', ~crashed', NEW i \in DOMAIN master', master'[i].status \in Live
       PROVE  open[master'[i].addr] > 0 \/ Corrected(handler, 1, master'[i].addr)
  <2>1. /\ ~amiss /\ ~crashed /\ i \in DOMAIN master /\ master'[i].addr = master[i].addr
        /\ r.index \in DOMAIN master /\ master[r.index].addr = r.addr
        /\ master'[r.index].status = status
    BY <1>6, <1>11
  <2>2. CASE i = r.index
    <3>1. r.do \in {"connected", "services"} /\ master'[i].addr = r.addr
      BY <1>3, <1>4, <1>11, <2>1, <2>2
    <3>. QED  BY <1>1, <1>2, <2>1, <3>1 DEF StatusInv
  <2>3. CASE i # r.index
    <3>1. master[i].status \in Live /\ master[i].addr # r.addr
      BY <1>1, <1>6, <1>11, <2>1, <2>3 DEF StatusInv, ListedOnce
    <3>2. open[master[i].addr] > 0 \/ Corrected(handler, 0, master[i].addr)
      BY <1>1, <2>1, <3>1 DEF StatusInv
    <3>. QED  BY <1>1, <2>1, <3>1, <3>2, StillCorrected
  <2>. QED  BY <2>2, <2>3
<1>12. StatusInv'
  BY <1>1, <1>3, <1>6, <1>7, <1>10, <1>11, TakeStatus
<1>. QED  BY <1>8, <1>9, <1>12 DEF AppInv

\* The list stays as it is.
LEMMA TransferKeeps ==
    ASSUME AppInv, ~crashed, handler # <<>>, handler' = Tail(handler),
           Transfer(handler[1])
    PROVE  AppInv'
<1>1. /\ AppTypeOK /\ RoundInv /\ StatusInv
      /\ amiss \in BOOLEAN /\ crashed \in BOOLEAN
  BY DEF AppInv, AppTypeOK
<1>2. /\ handler[1].do = "transfer"
      /\ amiss' \in BOOLEAN /\ crashed' \in BOOLEAN
      /\ (~amiss' => ~amiss) /\ (~crashed' => ~crashed)
      /\ UNCHANGED <<master, scan, pending, open, asked, faults>>
  BY <1>1 DEF Transfer, clientVars
<1>3. handler' \in Seq(Runnable)
  BY <1>1, TakeProperties
<1>4. AppTypeOK'
  BY <1>1, <1>2, <1>3 DEF AppTypeOK, Runnable
<1>5. RoundInv'
  <2>1. \A b \in Slave : pending'[b] = 2 => pending[b] = 2 /\ ~scan'
    BY <1>1, <1>2 DEF RoundInv
  <2>. QED  BY <1>1, <1>2, <2>1, TakeRound
<1>6. ListedOnce' /\ \A a \in Slave : asked'[a] > 0 => open[a] > 0
  BY <1>1, <1>2 DEF StatusInv, ListedOnce
<1>7. ASSUME ~amiss', ~crashed', NEW i \in DOMAIN master', master'[i].status \in Live
      PROVE  open[master'[i].addr] > 0 \/ Corrected(handler, 1, master'[i].addr)
  <2>1. open[master'[i].addr] > 0 \/ Corrected(handler, 0, master'[i].addr)
    BY <1>1, <1>2, <1>7 DEF StatusInv
  <2>. QED  BY <1>1, <1>2, <2>1, StillCorrected
<1>8. StatusInv'
  BY <1>1, <1>2, <1>6, <1>7, TakeStatus
<1>. QED  BY <1>4, <1>5, <1>8 DEF AppInv

-----------------------------------------------------------------------------
(* The theorems *)

LEMMA AppInit == Init => AppInv
<1>. SUFFICES ASSUME Init PROVE AppInv
  OBVIOUS
<1>0. /\ master = <<>> /\ handler = <<>> /\ scan = FALSE /\ crashed = FALSE
      /\ amiss = FALSE
      /\ pending = [a \in Slave |-> 0] /\ open = [a \in Slave |-> 0]
      /\ asked = [a \in Slave |-> 0] /\ faults = 0
  BY DEF Init
<1>1. /\ DOMAIN master = {} /\ DOMAIN handler = {}
      /\ master \in Seq(Entry) /\ handler \in Seq(Runnable)
  BY <1>0, EmptySeq
<1>2. AppTypeOK
  <2>1. 0 \in Count /\ 0 \in Nat /\ 0 \in 0 .. MaxFaults
    BY AppAssumption DEF Count
  <2>2. /\ pending \in [Slave -> Count] /\ open \in [Slave -> Nat]
        /\ asked \in [Slave -> Nat] /\ faults \in 0 .. MaxFaults
    BY <1>0, <2>1
  <2>3. {scan, crashed, amiss} \subseteq BOOLEAN
    BY <1>0
  <2>. QED  BY <1>1, <2>2, <2>3 DEF AppTypeOK, Entry, Runnable
<1>3. RoundInv
  BY <1>0, <1>1 DEF RoundInv
<1>4. StatusInv
  BY <1>0, <1>1 DEF StatusInv, ListedOnce
<1>. QED  BY <1>2, <1>3, <1>4 DEF AppInv

LEMMA AppStep ==
    ASSUME AppInv, [Next]_vars
    PROVE  AppInv'
<1>1. CASE UNCHANGED vars
  BY <1>1 DEF vars, clientVars, AppInv, AppTypeOK, RoundInv, StatusInv, ListedOnce
<1>2. ASSUME ~crashed, Run PROVE AppInv'
  <2>1. handler # <<>> /\ handler' = Tail(handler)
    BY <1>2 DEF Run
  <2>2. Head(handler) = handler[1]
    BY <2>1, TakeProperties DEF AppInv
  <2>3. \/ handler[1].do = "start" /\ Start
        \/ handler[1].do = "connect" /\ Connect(handler[1].addr)
        \/ Update(handler[1])
        \/ Transfer(handler[1])
    BY <1>2, <2>2 DEF Run
  <2>. QED  BY <1>2, <2>1, <2>3, StartKeeps, ConnectKeeps, UpdateKeeps, TransferKeeps
<1>3. ASSUME Expire PROVE AppInv'
  BY <1>3, ExpireKeeps
<1>4. ASSUME Stop PROVE AppInv'
  BY <1>4, StopKeeps
<1>5. ASSUME ScanNull \/ \E a \in Slave : ScanResult(a) PROVE AppInv'
  BY <1>5, ScanNullKeeps, ScanResultKeeps
<1>6. ASSUME NEW a \in Slave,
             Connected(a) \/ TimesOut(a) \/ Disconnected(a) \/ Services(a)
      PROVE  AppInv'
  BY <1>6, ConnectedKeeps, TimesOutKeeps, DisconnectedKeeps, ServicesKeeps
<1>. QED  BY <1>1, <1>2, <1>3, <1>4, <1>5, <1>6 DEF Next, Handler, Scanned, Binder

\* The list has each slave once, and no third client of a slave is connecting,
\* whatever fails and whenever the scans come.
THEOREM AppInvariant == Spec => []AppInv
BY AppInit, AppStep, PTL DEF Spec

\* A slave that the list shows as connected is connected, or the runnable that
\* says otherwise waits, unless an index has met another slave
\* (ServiceBle.java:505) or an event was lost.
THEOREM StatusTellsHolds == Spec => []StatusTells
<1>1. AppInv => StatusTells
  <2>. SUFFICES ASSUME AppInv, ~amiss, ~crashed,
                       NEW i \in DOMAIN master, master[i].status \in Live
                PROVE  open[master[i].addr] > 0 \/ Queued("disconnected", master[i].addr)
    BY DEF StatusTells
  <2>1. open[master[i].addr] > 0 \/ Corrected(handler, 0, master[i].addr)
    BY DEF AppInv, StatusInv
  <2>. QED  BY <2>1 DEF Corrected, Queued
<1>. QED  BY <1>1, AppInvariant, PTL

===========================================================================
