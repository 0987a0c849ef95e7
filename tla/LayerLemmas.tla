---------------------------- MODULE LayerLemmas ----------------------------
(***************************************************************************)
(* What the operators of module Layer do to a queue, for every queue.      *)
(***************************************************************************)
EXTENDS Layer, SequenceTheorems, NaturalsInduction, WellFoundedInduction,
        FiniteSetTheorems, FunctionTheorems, TLAPS

\* The elements of a sequence, without its positions.
LEMMA ToSetMember ==
    ASSUME NEW S, NEW s \in Seq(S)
    PROVE  /\ \A i \in DOMAIN s : s[i] \in ToSet(s)
           /\ \A m \in ToSet(s) : m \in S /\ \E i \in DOMAIN s : m = s[i]
BY ElementOfSeq, LenProperties DEF ToSet

\* Removing the message at position i keeps the others, in their order.
LEMMA RemoveAtProperties ==
    ASSUME NEW S, NEW s \in Seq(S), NEW i \in DOMAIN s
    PROVE  /\ RemoveAt(s, i) \in Seq(S)
           /\ Len(RemoveAt(s, i)) = Len(s) - 1
           /\ \A j \in 1 .. Len(s) - 1 :
                 RemoveAt(s, i)[j] = IF j < i THEN s[j] ELSE s[j + 1]
<1>. DEFINE front == SubSeq(s, 1, i - 1)
            back == SubSeq(s, i + 1, Len(s))
<1>0. /\ Len(s) \in Nat /\ DOMAIN s = 1 .. Len(s) /\ i \in 1 .. Len(s)
      /\ \A j \in 1 .. Len(s) : s[j] \in S
  BY LenProperties, ElementOfSeq
<1>1. /\ front \in Seq(S)
      /\ Len(front) = i - 1
      /\ \A j \in 1 .. i - 1 : front[j] = s[j]
  <2>1. i - 1 \in Int /\ \A j \in 1 .. i - 1 : s[j] \in S
    BY <1>0
  <2>2. /\ front \in Seq(S)
        /\ Len(front) = IF 1 <= i - 1 THEN (i - 1) - 1 + 1 ELSE 0
        /\ \A j \in 1 .. (i - 1) - 1 + 1 : front[j] = s[1 + j - 1]
    BY <2>1, SubSeqProperties
  <2>. QED  BY <2>2, <1>0
<1>2. /\ back \in Seq(S)
      /\ Len(back) = Len(s) - i
      /\ \A j \in 1 .. Len(s) - i : back[j] = s[i + j]
  <2>1. i + 1 \in Int /\ Len(s) \in Int /\ \A j \in i + 1 .. Len(s) : s[j] \in S
    BY <1>0
  <2>2. /\ back \in Seq(S)
        /\ Len(back) = IF i + 1 <= Len(s) THEN Len(s) - (i + 1) + 1 ELSE 0
        /\ \A j \in 1 .. Len(s) - (i + 1) + 1 : back[j] = s[(i + 1) + j - 1]
    BY <2>1, SubSeqProperties
  <2>. QED  BY <2>2, <1>0
<1>3. RemoveAt(s, i) = front \o back
  BY DEF RemoveAt
<1>. HIDE DEF front, back
<1>4. /\ front \o back \in Seq(S)
      /\ Len(front \o back) = Len(front) + Len(back)
      /\ \A j \in 1 .. Len(front) + Len(back) :
            (front \o back)[j] = IF j <= Len(front) THEN front[j]
                                 ELSE back[j - Len(front)]
  BY <1>1, <1>2, ConcatProperties
<1>5. Len(front \o back) = Len(s) - 1
  BY <1>0, <1>1, <1>2, <1>4
<1>6. ASSUME NEW j \in 1 .. Len(s) - 1
      PROVE  (front \o back)[j] = IF j < i THEN s[j] ELSE s[j + 1]
  <2>1. j \in 1 .. Len(front) + Len(back)
    BY <1>0, <1>4, <1>5
  <2>2. CASE j < i
    BY <1>0, <1>1, <1>4, <2>1, <2>2
  <2>3. CASE ~(j < i)
    <3>1. (front \o back)[j] = back[j - (i - 1)]
      BY <1>0, <1>1, <1>4, <2>1, <2>3
    <3>2. j - (i - 1) \in 1 .. Len(s) - i
      BY <1>0, <2>3
    <3>3. back[j - (i - 1)] = s[i + (j - (i - 1))]
      BY <1>2, <3>2
    <3>4. i + (j - (i - 1)) = j + 1
      BY <1>0
    <3>. QED  BY <2>3, <3>1, <3>3, <3>4
  <2>. QED  BY <2>2, <2>3
<1>. QED
  BY <1>3, <1>4, <1>5, <1>6

LEMMA ToSetRemoveAt ==
    ASSUME NEW S, NEW s \in Seq(S), NEW i \in DOMAIN s
    PROVE  /\ ToSet(RemoveAt(s, i)) \subseteq ToSet(s)
           /\ ToSet(s) \subseteq ToSet(RemoveAt(s, i)) \cup {s[i]}
<1>. DEFINE r == RemoveAt(s, i)
<1>0. Len(s) \in Nat /\ DOMAIN s = 1 .. Len(s) /\ i \in 1 .. Len(s)
  BY LenProperties
<1>1. /\ r \in Seq(S)
      /\ Len(r) = Len(s) - 1
      /\ \A j \in 1 .. Len(s) - 1 : r[j] = IF j < i THEN s[j] ELSE s[j + 1]
  BY RemoveAtProperties
<1>2. DOMAIN r = 1 .. Len(s) - 1
  BY <1>1, LenProperties
<1>. HIDE DEF r
<1>3. ASSUME NEW m \in ToSet(r) PROVE m \in ToSet(s)
  <2>1. PICK j \in 1 .. Len(s) - 1 : m = r[j]
    BY <1>2, <1>3 DEF ToSet
  <2>2. j \in 1 .. Len(s) /\ j + 1 \in 1 .. Len(s)
    BY <1>0
  <2>. QED  BY <1>0, <1>1, <2>1, <2>2 DEF ToSet
<1>4. ASSUME NEW m \in ToSet(s), m # s[i] PROVE m \in ToSet(r)
  <2>1. PICK k \in 1 .. Len(s) : m = s[k]
    BY <1>0, <1>4 DEF ToSet
  <2>2. CASE k < i
    <3>1. k \in 1 .. Len(s) - 1 /\ r[k] = s[k]
      BY <1>0, <1>1, <2>2
    <3>. QED  BY <1>2, <2>1, <3>1 DEF ToSet
  <2>3. CASE k > i
    <3>1. k - 1 \in 1 .. Len(s) - 1 /\ ~(k - 1 < i)
      BY <1>0, <2>3
    <3>2. r[k - 1] = s[k - 1 + 1]
      BY <1>1, <3>1
    <3>3. k - 1 + 1 = k
      OBVIOUS
    <3>. QED  BY <1>2, <2>1, <3>1, <3>2, <3>3 DEF ToSet
  <2>. QED  BY <1>0, <1>4, <2>1, <2>2, <2>3
<1>. QED  BY <1>3, <1>4 DEF r

\* queue_insert keeps every message and adds one.
LEMMA EnqueueProperties ==
    ASSUME NEW S, NEW s \in Seq(S), NEW m \in S
    PROVE  /\ Enqueue(s, m) \in Seq(S)
           /\ Len(Enqueue(s, m)) = Len(s) + 1
           /\ m.step = "CONNECT" =>
                 /\ Enqueue(s, m)[1] = m
                 /\ \A j \in 1 .. Len(s) : Enqueue(s, m)[j + 1] = s[j]
           /\ m.step # "CONNECT" =>
                 /\ \A j \in 1 .. Len(s) : Enqueue(s, m)[j] = s[j]
                 /\ Enqueue(s, m)[Len(s) + 1] = m
<1>0. Len(s) \in Nat
  BY LenProperties
<1>1. CASE m.step = "CONNECT"
  <2>1. /\ <<m>> \in Seq(S)
        /\ Len(<<m>>) = 1
        /\ <<m>>[1] = m
    OBVIOUS
  <2>2. /\ <<m>> \o s \in Seq(S)
        /\ Len(<<m>> \o s) = 1 + Len(s)
        /\ \A k \in 1 .. 1 + Len(s) :
              (<<m>> \o s)[k] = IF k <= 1 THEN <<m>>[k] ELSE s[k - 1]
    BY <2>1, ConcatProperties
  <2>3. (<<m>> \o s)[1] = m
    BY <1>0, <2>1, <2>2
  <2>4. ASSUME NEW j \in 1 .. Len(s) PROVE (<<m>> \o s)[j + 1] = s[j]
    <3>1. j + 1 \in 1 .. 1 + Len(s) /\ ~(j + 1 <= 1) /\ (j + 1) - 1 = j
      BY <1>0
    <3>. QED  BY <2>2, <3>1
  <2>. QED  BY <1>0, <1>1, <2>2, <2>3, <2>4 DEF Enqueue
<1>2. CASE m.step # "CONNECT"
  BY <1>0, <1>2, AppendProperties DEF Enqueue
<1>. QED  BY <1>1, <1>2

LEMMA ToSetEnqueue ==
    ASSUME NEW S, NEW s \in Seq(S), NEW m \in S
    PROVE  ToSet(Enqueue(s, m)) = ToSet(s) \cup {m}
<1>. DEFINE e == Enqueue(s, m)
<1>0. Len(s) \in Nat /\ DOMAIN s = 1 .. Len(s)
  BY LenProperties
<1>1. /\ e \in Seq(S)
      /\ Len(e) = Len(s) + 1
      /\ m.step = "CONNECT" =>
            e[1] = m /\ \A j \in 1 .. Len(s) : e[j + 1] = s[j]
      /\ m.step # "CONNECT" =>
            (\A j \in 1 .. Len(s) : e[j] = s[j]) /\ e[Len(s) + 1] = m
  BY EnqueueProperties
<1>2. DOMAIN e = 1 .. Len(s) + 1
  BY <1>1, LenProperties
<1>. HIDE DEF e
<1>3. ASSUME NEW x \in ToSet(e) PROVE x \in ToSet(s) \cup {m}
  <2>1. PICK k \in 1 .. Len(s) + 1 : x = e[k]
    BY <1>2, <1>3 DEF ToSet
  <2>2. CASE m.step = "CONNECT"
    <3>1. CASE k = 1
      BY <1>1, <2>1, <2>2, <3>1
    <3>2. CASE k # 1
      <4>1. k - 1 \in 1 .. Len(s) /\ (k - 1) + 1 = k
        BY <1>0, <3>2
      <4>2. e[(k - 1) + 1] = s[k - 1]
        BY <1>1, <2>2, <4>1
      <4>. QED  BY <1>0, <2>1, <4>1, <4>2 DEF ToSet
    <3>. QED  BY <3>1, <3>2
  <2>3. CASE m.step # "CONNECT"
    <3>1. k \in 1 .. Len(s) \/ k = Len(s) + 1
      BY <1>0
    <3>. QED  BY <1>0, <1>1, <2>1, <2>3, <3>1 DEF ToSet
  <2>. QED  BY <2>2, <2>3
<1>4. ASSUME NEW x \in ToSet(s) PROVE x \in ToSet(e)
  <2>1. PICK k \in 1 .. Len(s) : x = s[k]
    BY <1>0, <1>4 DEF ToSet
  <2>2. k \in 1 .. Len(s) + 1 /\ k + 1 \in 1 .. Len(s) + 1
    BY <1>0
  <2>. QED  BY <1>1, <1>2, <2>1, <2>2 DEF ToSet
<1>5. m \in ToSet(e)
  <2>1. 1 \in DOMAIN e /\ Len(s) + 1 \in DOMAIN e
    BY <1>0, <1>2
  <2>2. \E k \in DOMAIN e : e[k] = m
    BY <1>1, <2>1
  <2>. QED  BY <2>2 DEF ToSet
<1>. QED  BY <1>3, <1>4, <1>5 DEF e

\* CONNECTs are a prefix of s: the queue discipline of queue_insert.
LEMMA EnqueueConnectsFirst ==
    ASSUME NEW S, NEW s \in Seq(S), NEW m \in S, ConnectsFirst(s)
    PROVE  ConnectsFirst(Enqueue(s, m))
<1>. DEFINE e == Enqueue(s, m)
<1>0. Len(s) \in Nat /\ DOMAIN s = 1 .. Len(s)
  BY LenProperties
<1>1. /\ e \in Seq(S)
      /\ Len(e) = Len(s) + 1
      /\ m.step = "CONNECT" =>
            e[1] = m /\ \A j \in 1 .. Len(s) : e[j + 1] = s[j]
      /\ m.step # "CONNECT" =>
            (\A j \in 1 .. Len(s) : e[j] = s[j]) /\ e[Len(s) + 1] = m
  BY EnqueueProperties
<1>2. DOMAIN e = 1 .. Len(s) + 1
  BY <1>1, LenProperties
<1>. HIDE DEF e
<1>3. ASSUME NEW j \in DOMAIN e, NEW k \in DOMAIN e,
             j < k, e[k].step = "CONNECT"
      PROVE  e[j].step = "CONNECT"
  <2>1. CASE m.step = "CONNECT"
    <3>1. CASE j = 1
      BY <1>1, <2>1, <3>1
    <3>2. CASE j # 1
      <4>1. /\ j - 1 \in 1 .. Len(s) /\ (j - 1) + 1 = j
            /\ k - 1 \in 1 .. Len(s) /\ (k - 1) + 1 = k
            /\ j - 1 < k - 1
        BY <1>0, <1>2, <1>3, <3>2
      <4>2. e[(j - 1) + 1] = s[j - 1] /\ e[(k - 1) + 1] = s[k - 1]
        BY <1>1, <2>1, <4>1
      <4>3. s[k - 1].step = "CONNECT" => s[j - 1].step = "CONNECT"
        BY <1>0, <4>1 DEF ConnectsFirst
      <4>. QED  BY <1>3, <4>1, <4>2, <4>3
    <3>. QED  BY <3>1, <3>2
  <2>2. CASE m.step # "CONNECT"
    <3>1. k # Len(s) + 1
      BY <1>1, <1>3, <2>2
    <3>2. j \in 1 .. Len(s) /\ k \in 1 .. Len(s)
      BY <1>0, <1>2, <1>3, <3>1
    <3>3. e[j] = s[j] /\ e[k] = s[k]
      BY <1>1, <2>2, <3>2
    <3>. QED  BY <1>0, <1>3, <3>2, <3>3 DEF ConnectsFirst
  <2>. QED  BY <2>1, <2>2
<1>. QED  BY <1>3 DEF ConnectsFirst, e

LEMMA RemoveAtConnectsFirst ==
    ASSUME NEW S, NEW s \in Seq(S), NEW i \in DOMAIN s, ConnectsFirst(s)
    PROVE  ConnectsFirst(RemoveAt(s, i))
<1>. DEFINE r == RemoveAt(s, i)
<1>0. Len(s) \in Nat /\ DOMAIN s = 1 .. Len(s) /\ i \in 1 .. Len(s)
  BY LenProperties
<1>1. /\ r \in Seq(S)
      /\ Len(r) = Len(s) - 1
      /\ \A j \in 1 .. Len(s) - 1 : r[j] = IF j < i THEN s[j] ELSE s[j + 1]
  BY RemoveAtProperties
<1>2. DOMAIN r = 1 .. Len(s) - 1
  BY <1>1, LenProperties
<1>. HIDE DEF r
<1>3. ASSUME NEW j \in DOMAIN r, NEW k \in DOMAIN r,
             j < k, r[k].step = "CONNECT"
      PROVE  r[j].step = "CONNECT"
  <2>. DEFINE old(n) == IF n < i THEN n ELSE n + 1
  <2>1. /\ old(j) \in DOMAIN s /\ old(k) \in DOMAIN s
        /\ old(j) < old(k)
    BY <1>0, <1>2, <1>3
  <2>2. r[j] = s[old(j)] /\ r[k] = s[old(k)]
    BY <1>1, <1>2
  <2>. HIDE DEF old
  <2>. QED  BY <1>3, <2>1, <2>2 DEF ConnectsFirst
<1>. QED  BY <1>3 DEF ConnectsFirst, r

\* A queue whose head is no CONNECT holds none.
LEMMA NoConnectBehind ==
    ASSUME NEW S, NEW s \in Seq(S), s # <<>>, ConnectsFirst(s),
           Head(s).step # "CONNECT"
    PROVE  \A m \in ToSet(s) : m.step # "CONNECT"
<1>1. Len(s) \in Nat \ {0} /\ DOMAIN s = 1 .. Len(s) /\ Head(s) = s[1]
  BY LenProperties, EmptySeq
<1>2. ASSUME NEW k \in 1 .. Len(s) PROVE s[k].step # "CONNECT"
  <2>1. CASE k = 1
    BY <1>1, <2>1
  <2>2. CASE k # 1
    <3>1. 1 \in DOMAIN s /\ k \in DOMAIN s /\ 1 < k
      BY <1>1, <2>2
    <3>. QED  BY <1>1, <3>1 DEF ConnectsFirst
  <2>. QED  BY <2>1, <2>2
<1>. QED  BY <1>1, <1>2 DEF ToSet

-----------------------------------------------------------------------------
(* All queues together. *)

LEMMA QueueInsertProperties ==
    ASSUME NEW q \in [Thread -> Seq(Message)], NEW t \in Thread,
           NEW m \in Message
    PROVE  /\ QueueInsert(q, t, m) \in [Thread -> Seq(Message)]
           /\ QueueInsert(q, t, m)[t] = Enqueue(q[t], m)
           /\ \A u \in Thread \ {t} : QueueInsert(q, t, m)[u] = q[u]
<1>1. Enqueue(q[t], m) \in Seq(Message)
  BY EnqueueProperties
<1>. QED  BY <1>1 DEF QueueInsert

LEMMA QueueDeleteProperties ==
    ASSUME NEW q \in [Thread -> Seq(Message)], NEW t \in Thread,
           NEW i \in DOMAIN q[t]
    PROVE  /\ QueueDelete(q, t, i) \in [Thread -> Seq(Message)]
           /\ QueueDelete(q, t, i)[t] = RemoveAt(q[t], i)
           /\ \A u \in Thread \ {t} : QueueDelete(q, t, i)[u] = q[u]
<1>1. RemoveAt(q[t], i) \in Seq(Message)
  BY RemoveAtProperties
<1>. QED  BY <1>1 DEF QueueDelete

LEMMA AmountClosed ==
    ASSUME NEW a \in Int, NEW b \in Int
    PROVE  Add(a, b) \in Amount /\ Sub(a, b) \in Amount
<1>1. Word \in Nat \ {0}
  BY LayerAssumption
<1>2. \A x \in Int : x % Word \in 0 .. Word - 1
  BY <1>1
<1>. QED  BY <1>2 DEF Add, Sub, Amount

-----------------------------------------------------------------------------
(* How many messages of a kind all queues hold. *)

LEMMA EnqueueMessage ==
    \A s \in Seq(Message), m \in Message :
       /\ Enqueue(s, m) \in Seq(Message)
       /\ Len(Enqueue(s, m)) = Len(s) + 1
       /\ m.step = "CONNECT" =>
             /\ Enqueue(s, m)[1] = m
             /\ \A j \in 1 .. Len(s) : Enqueue(s, m)[j + 1] = s[j]
       /\ m.step # "CONNECT" =>
             /\ \A j \in 1 .. Len(s) : Enqueue(s, m)[j] = s[j]
             /\ Enqueue(s, m)[Len(s) + 1] = m
BY EnqueueProperties

\* Where the queues q hold a message of K.
Spots(q, K) ==
    {p \in UNION {{t} \X DOMAIN q[t] : t \in Thread} : q[p[1]][p[2]] \in K}

LEMMA SpotsMember ==
    ASSUME NEW q, NEW K, NEW p
    PROVE  p \in Spots(q, K) <=>
              \E t \in Thread : \E i \in DOMAIN q[t] :
                  p = <<t, i>> /\ q[t][i] \in K
BY DEF Spots

LEMMA ThreadFinite == IsFiniteSet(Thread)
<1>1. IsFiniteSet(Device)
  BY LayerAssumption, FS_Interval DEF Device
<1>. QED  BY <1>1, FS_AddElement DEF Thread

LEMMA SpotsFinite ==
    ASSUME NEW q \in [Thread -> Seq(Message)], NEW K
    PROVE  IsFiniteSet(Spots(q, K)) /\ Cardinality(Spots(q, K)) \in Nat
<1>. DEFINE rows == [t \in Thread |-> {t} \X DOMAIN q[t]]
            R == {rows[t] : t \in Thread}
<1>1. \A t \in Thread : IsFiniteSet(rows[t])
  <2>. SUFFICES ASSUME NEW t \in Thread PROVE IsFiniteSet({t} \X DOMAIN q[t])
    OBVIOUS
  <2>1. Len(q[t]) \in Nat /\ DOMAIN q[t] = 1 .. Len(q[t])
    BY LenProperties
  <2>2. IsFiniteSet(DOMAIN q[t])
    BY <2>1, FS_Interval
  <2>. QED  BY <2>2, FS_Singleton, FS_Product
<1>2. IsFiniteSet(R)
  <2>1. rows \in [Thread -> R]
    OBVIOUS
  <2>2. rows \in Surjection(Thread, R)
    BY <2>1, Fun_IsSurj
  <2>. QED  BY <2>2, ThreadFinite, FS_Surjection
<1>3. IsFiniteSet(UNION R)
  BY <1>1, <1>2, FS_UNION
<1>4. Spots(q, K) \subseteq UNION R
  BY DEF Spots
<1>. QED  BY <1>3, <1>4, FS_Subset, FS_CardinalityType

\* r[t] arises from q[t] by moving its messages sh[t] places, and holds
\* no other message of K.
LEMMA ShiftedCount ==
    ASSUME NEW q \in [Thread -> Seq(Message)], NEW r \in [Thread -> Seq(Message)],
           NEW K, NEW sh \in [Thread -> Nat],
           \A t \in Thread :
              /\ \A i \in DOMAIN q[t] : /\ i + sh[t] \in DOMAIN r[t]
                                        /\ r[t][i + sh[t]] = q[t][i]
              /\ \A j \in DOMAIN r[t] :
                    r[t][j] \in K => \E i \in DOMAIN q[t] : j = i + sh[t]
    PROVE  Cardinality(Spots(r, K)) = Cardinality(Spots(q, K))
<1>. DEFINE S == Spots(q, K)
            T == Spots(r, K)
            f == [p \in S |-> <<p[1], p[2] + sh[p[1]]>>]
<1>0. \A t \in Thread : DOMAIN q[t] \subseteq Int /\ DOMAIN r[t] \subseteq Int
  BY LenProperties
<1>1. ASSUME NEW p \in S
      PROVE  \E t \in Thread : \E i \in DOMAIN q[t] :
                p = <<t, i>> /\ f[p] = <<t, i + sh[t]>> /\ f[p] \in T
  <2>1a. PICK t \in Thread : \E i \in DOMAIN q[t] : p = <<t, i>> /\ q[t][i] \in K
    BY SpotsMember
  <2>1. PICK i \in DOMAIN q[t] : p = <<t, i>> /\ q[t][i] \in K
    BY <2>1a
  <2>2. f[p] = <<t, i + sh[t]>>
    BY <2>1
  <2>3. i + sh[t] \in DOMAIN r[t] /\ r[t][i + sh[t]] \in K
    BY <2>1
  <2>. HIDE DEF f
  <2>4. f[p] \in T
    BY <2>2, <2>3, SpotsMember
  <2>. QED  BY <2>1, <2>2, <2>4
<1>2. f \in [S -> T]
  BY <1>1
<1>3. ASSUME NEW a \in S, NEW b \in S, f[a] = f[b] PROVE a = b
  <2>1a. PICK t \in Thread : \E i \in DOMAIN q[t] : a = <<t, i>> /\ f[a] = <<t, i + sh[t]>>
    BY <1>1
  <2>1. PICK i \in DOMAIN q[t] : a = <<t, i>> /\ f[a] = <<t, i + sh[t]>>
    BY <2>1a
  <2>2a. PICK u \in Thread : \E j \in DOMAIN q[u] : b = <<u, j>> /\ f[b] = <<u, j + sh[u]>>
    BY <1>1
  <2>2. PICK j \in DOMAIN q[u] : b = <<u, j>> /\ f[b] = <<u, j + sh[u]>>
    BY <2>2a
  <2>. HIDE DEF f
  <2>3a. <<t, i + sh[t]>> = <<u, j + sh[u]>>
    BY <1>3, <2>1, <2>2
  <2>3. t = u /\ i + sh[t] = j + sh[u]
    BY <2>3a, Zenon
  <2>. QED  BY <1>0, <2>1, <2>2, <2>3
<1>4. ASSUME NEW z \in T PROVE \E p \in S : f[p] = z
  <2>1a. PICK t \in Thread : \E j \in DOMAIN r[t] : z = <<t, j>> /\ r[t][j] \in K
    BY SpotsMember
  <2>1. PICK j \in DOMAIN r[t] : z = <<t, j>> /\ r[t][j] \in K
    BY <2>1a
  <2>2. PICK i \in DOMAIN q[t] : j = i + sh[t]
    BY <2>1
  <2>3. <<t, i>> \in S
    BY <2>1, <2>2, SpotsMember
  <2>. QED  BY <2>1, <2>2, <2>3
<1>5. f \in Bijection(S, T)
  BY <1>2, <1>3, <1>4, Fun_IsBij
<1>. HIDE DEF f
<1>. QED  BY <1>5, SpotsFinite, FS_Bijection, Fun_ExistsBij

\* Messages that are not of K do not count.
LEMMA CountOther ==
    ASSUME NEW q \in [Thread -> Seq(Message)], NEW r \in [Thread -> Seq(Message)],
           NEW K,
           \A t \in Thread : \/ r[t] = q[t]
                             \/ \E m \in Message \ K : r[t] = Enqueue(q[t], m)
    PROVE  Cardinality(Spots(r, K)) = Cardinality(Spots(q, K))
<1>. DEFINE Fits(t, n) ==
              /\ \A i \in DOMAIN q[t] : /\ i + n \in DOMAIN r[t]
                                        /\ r[t][i + n] = q[t][i]
              /\ \A j \in DOMAIN r[t] :
                    r[t][j] \in K => \E i \in DOMAIN q[t] : j = i + n
            sh == [t \in Thread |-> CHOOSE n \in Nat : Fits(t, n)]
<1>1. ASSUME NEW t \in Thread PROVE \E n \in Nat : Fits(t, n)
  <2>0. Len(q[t]) \in Nat /\ DOMAIN q[t] = 1 .. Len(q[t])
    BY LenProperties
  <2>1. CASE r[t] = q[t]
    <3>1. Fits(t, 0)
      BY <2>0, <2>1
    <3>. QED  BY <3>1
  <2>2. ASSUME NEW m \in Message, m \notin K, r[t] = Enqueue(q[t], m)
        PROVE  \E n \in Nat : Fits(t, n)
    <3>1. r[t] \in Seq(Message) /\ Len(r[t]) = Len(q[t]) + 1
      BY <2>2, EnqueueMessage
    <3>2. DOMAIN r[t] = 1 .. Len(q[t]) + 1
      BY <3>1, LenProperties
    <3>3. CASE m.step = "CONNECT"
      <4>3. Enqueue(q[t], m)[1] = m
        BY <3>3, EnqueueMessage
      <4>4. \A j \in 1 .. Len(q[t]) : Enqueue(q[t], m)[j + 1] = q[t][j]
        BY <3>3, EnqueueMessage
      <4>1. ASSUME NEW j \in DOMAIN r[t], r[t][j] \in K
            PROVE  \E i \in DOMAIN q[t] : j = i + 1
        <5>1. j # 1
          BY <2>2, <4>1, <4>3
        <5>2. j - 1 \in DOMAIN q[t] /\ j = (j - 1) + 1
          BY <2>0, <3>2, <5>1
        <5>. QED  BY <5>2
      <4>2. Fits(t, 1)
        BY <2>0, <2>2, <3>1, <3>2, <4>1, <4>4
      <4>. QED  BY <4>2
    <3>4. CASE m.step # "CONNECT"
      <4>3. Enqueue(q[t], m)[Len(q[t]) + 1] = m
        BY <3>4, EnqueueMessage
      <4>4. \A j \in 1 .. Len(q[t]) : Enqueue(q[t], m)[j] = q[t][j]
        BY <3>4, EnqueueMessage
      <4>1. ASSUME NEW j \in DOMAIN r[t], r[t][j] \in K
            PROVE  \E i \in DOMAIN q[t] : j = i + 0
        <5>1. j # Len(q[t]) + 1
          BY <2>2, <4>1, <4>3
        <5>2. j \in DOMAIN q[t] /\ j = j + 0
          BY <2>0, <3>2, <5>1
        <5>. QED  BY <5>2
      <4>2. Fits(t, 0)
        BY <2>0, <2>2, <3>1, <3>2, <4>1, <4>4
      <4>. QED  BY <4>2
    <3>. QED  BY <3>3, <3>4
  <2>. QED  BY <2>1, <2>2
<1>2. sh \in [Thread -> Nat] /\ \A t \in Thread : Fits(t, sh[t])
  <2>1. \A t \in Thread : /\ (CHOOSE n \in Nat : Fits(t, n)) \in Nat
                          /\ Fits(t, CHOOSE n \in Nat : Fits(t, n))
    BY <1>1
  <2>. QED  BY <2>1
<1>. HIDE DEF sh
<1>. QED  BY <1>2, ShiftedCount

\* One message is added to K's.
LEMMA CountInsert ==
    ASSUME NEW q \in [Thread -> Seq(Message)], NEW t \in Thread,
           NEW m \in Message, m.step # "CONNECT", NEW K
    PROVE  Cardinality(Spots(QueueInsert(q, t, m), K))
           = Cardinality(Spots(q, K)) + (IF m \in K THEN 1 ELSE 0)
<1>. DEFINE r == QueueInsert(q, t, m)
            new == <<t, Len(q[t]) + 1>>
<1>0. Len(q[t]) \in Nat /\ DOMAIN q[t] = 1 .. Len(q[t])
  BY LenProperties
<1>1. /\ r \in [Thread -> Seq(Message)]
      /\ r[t] = Enqueue(q[t], m)
      /\ \A u \in Thread \ {t} : r[u] = q[u]
  BY QueueInsertProperties
<1>2. /\ Len(r[t]) = Len(q[t]) + 1
      /\ \A j \in 1 .. Len(q[t]) : r[t][j] = q[t][j]
      /\ r[t][Len(q[t]) + 1] = m
  <2>1. Len(Enqueue(q[t], m)) = Len(q[t]) + 1
    BY EnqueueMessage
  <2>2. \A j \in 1 .. Len(q[t]) : Enqueue(q[t], m)[j] = q[t][j]
    BY EnqueueMessage
  <2>3. Enqueue(q[t], m)[Len(q[t]) + 1] = m
    BY EnqueueMessage
  <2>. QED  BY <1>1, <2>1, <2>2, <2>3
<1>3. DOMAIN r[t] = DOMAIN q[t] \cup {Len(q[t]) + 1}
  BY <1>0, <1>1, <1>2, LenProperties
<1>. HIDE DEF r
<1>4. Spots(r, K) = IF m \in K THEN Spots(q, K) \cup {new} ELSE Spots(q, K)
  <2>1. ASSUME NEW p
        PROVE  p \in Spots(r, K) <=> p \in Spots(q, K) \/ (m \in K /\ p = new)
    <3>1. ASSUME NEW u \in Thread, NEW i \in DOMAIN r[u], p = <<u, i>>, r[u][i] \in K
          PROVE  p \in Spots(q, K) \/ (m \in K /\ p = new)
      <4>1. CASE u # t \/ i # Len(q[t]) + 1
        <5>1. i \in DOMAIN q[u] /\ q[u][i] \in K
          BY <1>0, <1>1, <1>2, <1>3, <3>1, <4>1
        <5>. QED  BY <3>1, <5>1, SpotsMember
      <4>2. CASE u = t /\ i = Len(q[t]) + 1
        BY <1>2, <3>1, <4>2
      <4>. QED  BY <4>1, <4>2
    <3>2. ASSUME NEW u \in Thread, NEW i \in DOMAIN q[u], p = <<u, i>>, q[u][i] \in K
          PROVE  p \in Spots(r, K)
      <4>1. i \in DOMAIN r[u] /\ r[u][i] \in K
        BY <1>0, <1>1, <1>2, <1>3, <3>2
      <4>. QED  BY <3>2, <4>1, SpotsMember
    <3>3. m \in K => new \in Spots(r, K)
      <4>1. Len(q[t]) + 1 \in DOMAIN r[t]
        BY <1>3
      <4>. QED  BY <1>2, <4>1, SpotsMember
    <3>. QED  BY <3>1, <3>2, <3>3, SpotsMember
  <2>. QED  BY <2>1
<1>5. new \notin Spots(q, K)
  BY <1>0, SpotsMember
<1>. HIDE DEF new
<1>6. IsFiniteSet(Spots(q, K)) /\ Cardinality(Spots(q, K)) \in Nat
  BY SpotsFinite
<1>7. Cardinality(Spots(q, K) \cup {new}) = Cardinality(Spots(q, K)) + 1
  BY <1>5, <1>6, FS_AddElement
<1>8. Cardinality(Spots(r, K))
      = Cardinality(Spots(q, K)) + (IF m \in K THEN 1 ELSE 0)
  BY <1>4, <1>6, <1>7
<1>. QED  BY <1>8 DEF r

\* The message that is taken no longer counts.
LEMMA CountDelete ==
    ASSUME NEW q \in [Thread -> Seq(Message)], NEW t \in Thread,
           NEW i \in DOMAIN q[t], NEW K
    PROVE  Cardinality(Spots(QueueDelete(q, t, i), K))
           = Cardinality(Spots(q, K)) - (IF q[t][i] \in K THEN 1 ELSE 0)
<1>. DEFINE r == QueueDelete(q, t, i)
            gone == <<t, i>>
            S == Spots(q, K) \ {gone}
            T == Spots(r, K)
            f == [p \in S |-> IF p[1] = t /\ p[2] > i THEN <<t, p[2] - 1>> ELSE p]
<1>0. /\ Len(q[t]) \in Nat /\ DOMAIN q[t] = 1 .. Len(q[t]) /\ i \in 1 .. Len(q[t])
      /\ \A u \in Thread : DOMAIN q[u] \subseteq Int
  BY LenProperties
<1>1. /\ r \in [Thread -> Seq(Message)]
      /\ r[t] = RemoveAt(q[t], i)
      /\ \A u \in Thread \ {t} : r[u] = q[u]
  BY QueueDeleteProperties
<1>2. /\ r[t] \in Seq(Message)
      /\ Len(r[t]) = Len(q[t]) - 1
      /\ \A j \in 1 .. Len(q[t]) - 1 :
            r[t][j] = IF j < i THEN q[t][j] ELSE q[t][j + 1]
  BY <1>1, RemoveAtProperties
<1>3. DOMAIN r[t] = 1 .. Len(q[t]) - 1
  BY <1>2, LenProperties
<1>. HIDE DEF r
<1>4. ASSUME NEW p \in S
      PROVE  \E u \in Thread : \E j \in DOMAIN q[u] :
                /\ p = <<u, j>> /\ <<u, j>> # gone
                /\ f[p] = <<u, IF u = t /\ j > i THEN j - 1 ELSE j>>
                /\ f[p] \in T
  <2>1a. PICK u \in Thread : \E j \in DOMAIN q[u] : p = <<u, j>> /\ q[u][j] \in K
    BY SpotsMember
  <2>1. PICK j \in DOMAIN q[u] : p = <<u, j>> /\ q[u][j] \in K
    BY <2>1a
  <2>. DEFINE k == IF u = t /\ j > i THEN j - 1 ELSE j
  <2>2. f[p] = <<u, k>>
    BY <2>1
  <2>3. k \in DOMAIN r[u] /\ r[u][k] \in K
    <3>1. CASE u # t
      BY <1>1, <2>1, <3>1
    <3>2. CASE u = t /\ j > i
      <4>1. k \in 1 .. Len(q[t]) - 1 /\ ~(k < i) /\ k + 1 = j
        BY <1>0, <3>2
      <4>. HIDE DEF k
      <4>. QED  BY <1>2, <1>3, <2>1, <3>2, <4>1
    <3>3. CASE u = t /\ ~(j > i)
      <4>1. j # i
        BY <2>1, <3>3
      <4>2. k = j /\ j \in 1 .. Len(q[t]) - 1 /\ j < i
        BY <1>0, <3>3, <4>1
      <4>. HIDE DEF k
      <4>. QED  BY <1>2, <1>3, <2>1, <3>3, <4>2
    <3>. QED  BY <3>1, <3>2, <3>3
  <2>. HIDE DEF f
  <2>4. f[p] \in T
    <3>. HIDE DEF k
    <3>. QED  BY <2>2, <2>3, SpotsMember
  <2>. QED  BY <2>1, <2>2, <2>4
<1>5. f \in [S -> T]
  BY <1>4
<1>6. ASSUME NEW a \in S, NEW b \in S, f[a] = f[b] PROVE a = b
  <2>1a. PICK u \in Thread : \E j \in DOMAIN q[u] :
                /\ a = <<u, j>> /\ <<u, j>> # gone
                /\ f[a] = <<u, IF u = t /\ j > i THEN j - 1 ELSE j>>
    BY <1>4
  <2>1. PICK j \in DOMAIN q[u] :
                /\ a = <<u, j>> /\ <<u, j>> # gone
                /\ f[a] = <<u, IF u = t /\ j > i THEN j - 1 ELSE j>>
    BY <2>1a
  <2>2a. PICK v \in Thread : \E k \in DOMAIN q[v] :
                /\ b = <<v, k>> /\ <<v, k>> # gone
                /\ f[b] = <<v, IF v = t /\ k > i THEN k - 1 ELSE k>>
    BY <1>4
  <2>2. PICK k \in DOMAIN q[v] :
                /\ b = <<v, k>> /\ <<v, k>> # gone
                /\ f[b] = <<v, IF v = t /\ k > i THEN k - 1 ELSE k>>
    BY <2>2a
  <2>. HIDE DEF f
  <2>. DEFINE j1 == IF u = t /\ j > i THEN j - 1 ELSE j
              k1 == IF v = t /\ k > i THEN k - 1 ELSE k
  <2>3. <<u, j1>> = <<v, k1>>
    BY <1>6, <2>1, <2>2
  <2>4. u = v /\ j1 = k1
    <3>. HIDE DEF j1, k1
    <3>. QED  BY <2>3, Zenon
  <2>5. j \in Int /\ k \in Int /\ i \in Int
    BY <1>0
  <2>6. u = t => j # i
    BY <2>1
  <2>7. v = t => k # i
    BY <2>2
  <2>8. j = k
    BY <2>4, <2>5, <2>6, <2>7
  <2>. QED  BY <2>1, <2>2, <2>4, <2>8
<1>7. ASSUME NEW z \in T PROVE \E p \in S : f[p] = z
  <2>1a. PICK u \in Thread : \E j \in DOMAIN r[u] : z = <<u, j>> /\ r[u][j] \in K
    BY SpotsMember
  <2>1. PICK j \in DOMAIN r[u] : z = <<u, j>> /\ r[u][j] \in K
    BY <2>1a
  <2>2. CASE u # t
    <3>1. z \in S /\ f[z] = z
      <4>1. z \in Spots(q, K)
        BY <1>1, <2>1, <2>2, SpotsMember
      <4>2. z # gone /\ z[1] # t
        BY <2>1, <2>2
      <4>. QED  BY <4>1, <4>2
    <3>. QED  BY <3>1
  <2>3. CASE u = t /\ j < i
    <3>0. j \in 1 .. Len(q[t]) - 1
      BY <1>3, <2>1, <2>3
    <3>1a. r[t][j] = q[t][j] /\ r[t][j] \in K
      BY <1>2, <2>1, <2>3, <3>0
    <3>1b. j \in DOMAIN q[t]
      BY <1>0, <3>0
    <3>1. j \in DOMAIN q[t] /\ q[t][j] \in K
      BY <3>1a, <3>1b
    <3>2. z \in S
      BY <1>0, <2>1, <2>3, <3>1, SpotsMember
    <3>3. f[z] = z
      BY <1>0, <2>1, <2>3, <3>1, <3>2
    <3>. QED  BY <3>2, <3>3
  <2>4. CASE u = t /\ ~(j < i)
    <3>0. j \in 1 .. Len(q[t]) - 1
      BY <1>3, <2>1, <2>4
    <3>1a. r[t][j] = q[t][j + 1] /\ r[t][j] \in K
      BY <1>2, <2>1, <2>4, <3>0
    <3>1b. j + 1 \in DOMAIN q[t] /\ j + 1 > i /\ j \in Int
      BY <1>0, <2>4, <3>0
    <3>1. j + 1 \in DOMAIN q[t] /\ q[t][j + 1] \in K /\ j + 1 > i /\ j \in Int
      BY <3>1a, <3>1b
    <3>2. <<t, j + 1>> \in Spots(q, K)
      BY <3>1, SpotsMember
    <3>3. <<t, j + 1>> # gone
      BY <1>0, <3>1
    <3>4. f[<<t, j + 1>>] = <<t, (j + 1) - 1>>
      BY <3>1, <3>2, <3>3
    <3>5. f[<<t, j + 1>>] = z
      <4>1. (j + 1) - 1 = j
        BY <3>1
      <4>2. z = <<t, j>>
        BY <2>1, <2>4
      <4>. HIDE DEF f
      <4>. QED  BY <3>4, <4>1, <4>2
    <3>. QED  BY <3>2, <3>3, <3>5
  <2>5. j \in Int /\ i \in Int
    BY <1>0, <1>1, <1>3, <2>1
  <2>. QED  BY <2>2, <2>3, <2>4, <2>5
<1>8. f \in Bijection(S, T)
  BY <1>5, <1>6, <1>7, Fun_IsBij
<1>. HIDE DEF f
<1>9. IsFiniteSet(Spots(q, K)) /\ Cardinality(Spots(q, K)) \in Nat
  BY SpotsFinite
<1>10. /\ IsFiniteSet(S)
       /\ Cardinality(S) = IF gone \in Spots(q, K) THEN Cardinality(Spots(q, K)) - 1
                           ELSE Cardinality(Spots(q, K))
  BY <1>9, FS_RemoveElement
<1>11. gone \in Spots(q, K) <=> q[t][i] \in K
  BY SpotsMember
<1>12. Cardinality(T) = Cardinality(S)
  BY <1>8, <1>10, FS_Bijection, Fun_ExistsBij
<1>. HIDE DEF S, gone
<1>13. Cardinality(T) = Cardinality(Spots(q, K)) - (IF q[t][i] \in K THEN 1 ELSE 0)
  BY <1>9, <1>10, <1>11, <1>12
<1>. QED  BY <1>13 DEF r

\* Nothing is added to the queues.
LEMMA CountFewer ==
    ASSUME NEW q \in [Thread -> Seq(Message)], NEW r \in [Thread -> Seq(Message)],
           NEW K, \A t \in Thread : r[t] = q[t] \/ r[t] = <<>>
    PROVE  Cardinality(Spots(r, K)) <= Cardinality(Spots(q, K))
<1>1. ASSUME NEW p \in Spots(r, K) PROVE p \in Spots(q, K)
  <2>1a. PICK t \in Thread : \E i \in DOMAIN r[t] : p = <<t, i>> /\ r[t][i] \in K
    BY SpotsMember
  <2>1. PICK i \in DOMAIN r[t] : p = <<t, i>> /\ r[t][i] \in K
    BY <2>1a
  <2>2. r[t] # <<>>
    BY <2>1
  <2>. QED  BY <2>1, <2>2, SpotsMember
<1>. QED  BY <1>1, SpotsFinite, FS_Subset

LEMMA CountNone ==
    ASSUME NEW q \in [Thread -> Seq(Message)], NEW K
    PROVE  /\ Cardinality(Spots(q, K)) = 0 <=> Spots(q, K) = {}
           /\ Cardinality(Spots(q, K)) = 0 <=>
                 \A t \in Thread : \A i \in DOMAIN q[t] : q[t][i] \notin K
<1>1. Cardinality(Spots(q, K)) = 0 <=> Spots(q, K) = {}
  BY SpotsFinite, FS_EmptySet
<1>2. Spots(q, K) = {} <=> \A t \in Thread : \A i \in DOMAIN q[t] : q[t][i] \notin K
  BY SpotsMember
<1>. QED  BY <1>1, <1>2

\* The places of more kinds of messages are more places.
LEMMA CountLess ==
    ASSUME NEW q \in [Thread -> Seq(Message)], NEW K, NEW L, K \subseteq L
    PROVE  Cardinality(Spots(q, K)) <= Cardinality(Spots(q, L))
<1>1. Spots(q, K) \subseteq Spots(q, L)
  BY DEF Spots
<1>. QED  BY <1>1, SpotsFinite, FS_Subset
=============================================================================
