------------------------------ MODULE BleProofs ------------------------------
(***************************************************************************)
(* A node of Ble that keeps its role knows its links, and g_central is     *)
(* never overrun, for any number of slaves, links and faults.              *)
(***************************************************************************)
EXTENDS Ble, FiniteSetTheorems, SequenceTheorems, TLAPS

Entry == [handle : Handle, addr : Slave \cup {Master},
          status : Live \cup {"idle"}]

\* What the proofs need of the types.
Shape ==
    /\ debug \in Debug
    /\ g_central \in Seq(Entry)
    /\ Len(g_central) <= NUM_CENTRAL
    /\ \A i \in DOMAIN g_central : g_central[i].status \in Live
    /\ link \in [Handle -> Slave \cup {Master, NoOne}]
    /\ connecting \in Slave \cup {NoOne}
    /\ g_scanlist \in Seq(Slave)

\* Until the first initial event of a build that keeps its role.
Turnover ==
    g_turnover =>
        /\ debug \in {"C", "P"}
        /\ \/ events = {"switch"} /\ g_adv = (debug = "C")
           \/ events = {"initial"} /\ g_adv = (debug = "P")
        /\ profile = "none"
        /\ g_central = <<>>
        /\ ~g_peripheral /\ ~starting /\ ~discovering
        /\ connecting = NoOne
        /\ link = [h \in Handle |-> NoOne]

\* And from then on.
Settled ==
    ~g_turnover /\ debug \in {"C", "P"} =>
        /\ g_adv = (debug = "P")
        /\ profile = IF debug = "P" THEN "peripheral" ELSE "central"

\* A central lists every open link, once.
CentralLinks ==
    debug = "C" =>
        /\ \A i \in DOMAIN g_central :
              /\ g_central[i].addr # NoOne
              /\ link[g_central[i].handle] = g_central[i].addr
        /\ \A i, j \in DOMAIN g_central :
              g_central[i].handle = g_central[j].handle => i = j
        /\ \A h \in Open : \E i \in DOMAIN g_central : g_central[i].handle = h

\* A peripheral has at most one link.
PeripheralLinks ==
    debug = "P" =>
        /\ connecting = NoOne
        /\ \A h \in Open : link[h] = Master
        /\ \A g, h \in Open : g = h
        /\ g_peripheral <=> Open # {}
        /\ starting => Open = {}

BleInv ==
    /\ Shape
    /\ ~null => Turnover /\ Settled /\ CentralLinks /\ PeripheralLinks

-----------------------------------------------------------------------------
(* The array of links *)

\* RemoveAt closes the gap.
LEMMA RemoveAtFacts ==
    ASSUME NEW S, NEW s \in Seq(S), NEW i \in DOMAIN s
    PROVE  /\ RemoveAt(s, i) \in Seq(S)
           /\ Len(RemoveAt(s, i)) = Len(s) - 1
           /\ \A k \in 1 .. Len(s) - 1 :
                 RemoveAt(s, i)[k] = IF k < i THEN s[k] ELSE s[k + 1]
<1> DEFINE p == SubSeq(s, 1, i - 1)
           q == SubSeq(s, i + 1, Len(s))
<1>1. i \in 1 .. Len(s) /\ Len(s) \in Nat
  OBVIOUS
<1>2. /\ p \in Seq(S)
      /\ Len(p) = i - 1
      /\ \A k \in 1 .. i - 1 : p[k] = s[k]
  BY <1>1, SubSeqProperties
<1>3. /\ q \in Seq(S)
      /\ Len(q) = Len(s) - i
      /\ \A k \in 1 .. Len(s) - i : q[k] = s[i + k]
  BY <1>1, SubSeqProperties
<1> HIDE DEF p, q
<1>4. /\ p \o q \in Seq(S)
      /\ Len(p \o q) = Len(s) - 1
      /\ \A k \in 1 .. Len(s) - 1 :
            (p \o q)[k] = IF k <= i - 1 THEN p[k] ELSE q[k - (i - 1)]
  <2>1. /\ p \o q \in Seq(S)
        /\ Len(p \o q) = Len(p) + Len(q)
        /\ \A k \in 1 .. Len(p) + Len(q) :
              (p \o q)[k] = IF k <= Len(p) THEN p[k] ELSE q[k - Len(p)]
    BY <1>2, <1>3, ConcatProperties
  <2>2. Len(p) + Len(q) = Len(s) - 1
    BY <1>1, <1>2, <1>3
  <2> QED
    BY <1>2, <2>1, <2>2
<1>5. ASSUME NEW k \in 1 .. Len(s) - 1
      PROVE  (p \o q)[k] = IF k < i THEN s[k] ELSE s[k + 1]
  <2> DEFINE pq == p \o q
  <2>0. pq[k] = IF k <= i - 1 THEN p[k] ELSE q[k - (i - 1)]
    BY <1>4
  <2> HIDE DEF pq
  <2>1. CASE k < i
    BY <1>1, <1>2, <2>0, <2>1
  <2>2. CASE ~(k < i)
    <3>1. k - (i - 1) \in 1 .. Len(s) - i /\ i + (k - (i - 1)) = k + 1
      BY <1>1, <2>2
    <3>2. pq[k] = q[k - (i - 1)]
      BY <1>1, <2>0, <2>2
    <3>3. q[k - (i - 1)] = s[i + (k - (i - 1))]
      BY <1>3, <3>1
    <3> QED
      BY <2>2, <3>1, <3>2, <3>3 DEF pq
  <2> QED
    BY <2>1, <2>2 DEF pq
<1> QED
  BY <1>4, <1>5 DEF RemoveAt, p, q

\* multi_del keeps an array without a dead entry, and removes the only one.
LEMMA MultiDelFacts ==
    ASSUME NEW c \in Seq(Entry)
    PROVE  /\ (\A i \in DOMAIN c : c[i].status \in Live) => multi_del(c) = c
           /\ \A i \in DOMAIN c :
                 (\A j \in DOMAIN c : c[j].status \in Live <=> j # i)
                    => multi_del(c) = RemoveAt(c, i)
<1>1. ASSUME \A i \in DOMAIN c : c[i].status \in Live
      PROVE  multi_del(c) = c
  BY <1>1 DEF multi_del
<1>2. ASSUME NEW i \in DOMAIN c,
             \A j \in DOMAIN c : c[j].status \in Live <=> j # i
      PROVE  multi_del(c) = RemoveAt(c, i)
  <2>1. {j \in DOMAIN c : c[j].status \notin Live} = {i}
    BY <1>2
  <2>2. (CHOOSE k \in {i} : \A j \in {i} : k <= j) = i
    OBVIOUS
  <2> QED
    BY <2>1, <2>2 DEF multi_del
<1> QED
  BY <1>1, <1>2

\* The end of the link of entry i of an array of live entries.
LEMMA CloseFacts ==
    ASSUME NEW c \in Seq(Entry), NEW i \in DOMAIN c,
           \A j \in DOMAIN c : c[j].status \in Live
    PROVE  multi_del([c EXCEPT ![i].status = "idle"]) \in Seq(Entry)
           /\ Len(multi_del([c EXCEPT ![i].status = "idle"])) = Len(c) - 1
           /\ \A k \in 1 .. Len(c) - 1 :
                 multi_del([c EXCEPT ![i].status = "idle"])[k] =
                    IF k < i THEN c[k] ELSE c[k + 1]
<1> DEFINE e == [c[i] EXCEPT !.status = "idle"]
           d == [c EXCEPT ![i] = e]
<1>1. e \in Entry /\ e.status = "idle"
  <2>1. c[i] \in Entry
    OBVIOUS
  <2> QED
    BY <2>1 DEF Entry
<1>2. /\ d \in Seq(Entry)
      /\ Len(d) = Len(c)
      /\ \A j \in 1 .. Len(c) : d[j] = IF j = i THEN e ELSE c[j]
  BY <1>1, ExceptSeq
<1>3. d = [c EXCEPT ![i].status = "idle"]
  OBVIOUS
<1> HIDE DEF d, e
<1>4. \A j \in DOMAIN d : d[j].status \in Live <=> j # i
  BY <1>1, <1>2 DEF Live
<1>5. multi_del(d) = RemoveAt(d, i)
  BY <1>2, <1>4, MultiDelFacts
<1>6. /\ RemoveAt(d, i) \in Seq(Entry)
      /\ Len(RemoveAt(d, i)) = Len(d) - 1
      /\ \A k \in 1 .. Len(d) - 1 :
            RemoveAt(d, i)[k] = IF k < i THEN d[k] ELSE d[k + 1]
  BY <1>2, RemoveAtFacts
<1>7. \A k \in 1 .. Len(c) - 1 :
         (IF k < i THEN d[k] ELSE d[k + 1]) = (IF k < i THEN c[k] ELSE c[k + 1])
  BY <1>2
<1> QED
  BY <1>2, <1>3, <1>5, <1>6, <1>7

\* A change of status, of any entry or of none.
Become(c, i, status) == [c EXCEPT ![i].status = status]

LEMMA BecomeFacts ==
    ASSUME NEW c \in Seq(Entry), NEW i, NEW status \in Live,
           \A j \in DOMAIN c : c[j].status \in Live
    PROVE  /\ Become(c, i, status) \in Seq(Entry)
           /\ Len(Become(c, i, status)) = Len(c)
           /\ \A j \in DOMAIN c :
                 /\ Become(c, i, status)[j].status \in Live
                 /\ Become(c, i, status)[j].handle = c[j].handle
                 /\ Become(c, i, status)[j].addr = c[j].addr
<1> USE DEF Become
<1>1. CASE i \in DOMAIN c
  <2> DEFINE e == [c[i] EXCEPT !.status = status]
  <2>1. /\ e \in Entry
        /\ e.status = status
        /\ e.handle = c[i].handle
        /\ e.addr = c[i].addr
    <3>1. c[i] \in Entry
      BY <1>1
    <3> QED
      BY <3>1 DEF Entry
  <2>2. /\ [c EXCEPT ![i] = e] \in Seq(Entry)
        /\ Len([c EXCEPT ![i] = e]) = Len(c)
        /\ \A j \in 1 .. Len(c) : [c EXCEPT ![i] = e][j] = IF j = i THEN e ELSE c[j]
    BY <1>1, <2>1, ExceptSeq
  <2> QED
    BY <1>1, <2>1, <2>2
<1>2. CASE i \notin DOMAIN c
  <2>1. [c EXCEPT ![i].status = status] = c
    BY <1>2
  <2> QED
    BY <2>1
<1> QED
  BY <1>1, <1>2

\* Arithmetic that the provers need apart from sequences and sets.
LEMMA Between ==
    ASSUME NEW x \in Nat, NEW y \in Nat, NEW z \in Nat, x < y, y <= z
    PROVE  x # z
  OBVIOUS

LEMMA Below ==
    ASSUME NEW x \in Nat, NEW z \in Nat, x <= z, x # z
    PROVE  x + 1 <= z
  OBVIOUS

\* As many numbers as their last.
LEMMA IntervalCardinality == ASSUME NEW n \in Nat PROVE Cardinality(1 .. n) = n
  BY FS_Interval

\* A central that lists its links has room for another one.
LEMMA HasRoom ==
    ASSUME Shape, CentralLinks, debug = "C", NEW h \in Handle, link[h] = NoOne
    PROVE  ~Full
<1> DEFINE f == [i \in 1 .. Len(g_central) |-> g_central[i].handle]
<1>1. Len(g_central) \in Nat /\ DOMAIN g_central = 1 .. Len(g_central)
  BY DEF Shape
<1>2. \A i \in 1 .. Len(g_central) : g_central[i] \in Entry
  BY <1>1 DEF Shape
<1>3. \A i \in 1 .. Len(g_central) : f[i] \in Handle \ {h}
  BY <1>1, <1>2 DEF CentralLinks, Entry
<1>4. f \in Injection(1 .. Len(g_central), Handle \ {h})
  BY <1>1, <1>3 DEF CentralLinks, Injection, IsInjective
<1>5. /\ IsFiniteSet(Handle \ {h})
      /\ Cardinality(Handle \ {h}) = Cardinality(Handle) - 1
  BY RoomAssumption, FS_RemoveElement
<1>6. Cardinality(1 .. Len(g_central)) <= Cardinality(Handle \ {h})
  BY <1>4, <1>5, FS_Injection
<1>7. Cardinality(1 .. Len(g_central)) = Len(g_central)
  BY <1>1, IntervalCardinality
<1>8. Cardinality(Handle) \in Nat
  BY RoomAssumption, FS_CardinalityType
<1> QED
  <2>1. Len(g_central) < Cardinality(Handle)
    BY <1>1, <1>5, <1>6, <1>7, <1>8
  <2>2. Cardinality(Handle) <= NUM_CENTRAL /\ NUM_CENTRAL \in Nat
    BY RoomAssumption, BleAssumption
  <2>3. Len(g_central) # NUM_CENTRAL
    BY <1>1, <1>8, <2>1, <2>2, Between
  <2> QED
    BY <2>3 DEF Full

-----------------------------------------------------------------------------
(* Each action keeps BleInv.                                               *)

USE DEF roleVars, stackVars, Open

\* The role has started.
LEMMA InitDoneKeeps ==
    ASSUME BleInv, ~null, InitDone
    PROVE  BleInv'
<1> USE BleAssumption DEF BleInv, InitDone
<1>1. Shape'
  BY DEF Shape
<1>2. Turnover'
  BY DEF Turnover, Shape
<1>3. Settled'
  BY DEF Settled, Turnover
<1>4. CentralLinks'
  BY DEF CentralLinks, Turnover, Shape
<1>5. PeripheralLinks'
  BY DEF PeripheralLinks, Settled, Turnover, Shape
<1> QED
  BY <1>1, <1>2, <1>3, <1>4, <1>5

\* A slave is found.
LEMMA DeviceInfoKeeps ==
    ASSUME BleInv, ~null, NEW a \in Slave, DeviceInfo(a)
    PROVE  BleInv'
<1> USE BleAssumption DEF BleInv, DeviceInfo
<1>1. Shape'
  BY DEF Shape
<1>2. Turnover'
  BY DEF Turnover, Shape
<1>3. Settled'
  BY DEF Settled, Turnover
<1>4. CentralLinks'
  BY DEF CentralLinks, Turnover, Shape
<1>5. PeripheralLinks'
  BY DEF PeripheralLinks, Settled, Turnover, Shape
<1> QED
  BY <1>1, <1>2, <1>3, <1>4, <1>5

\* The discovery ends.
LEMMA DiscoveredKeeps ==
    ASSUME BleInv, ~null, Discovered
    PROVE  BleInv'
<1> USE BleAssumption DEF BleInv, Discovered
<1>1. Shape'
  BY DEF Shape
<1>2. Turnover'
  BY DEF Turnover, Shape
<1>3. Settled'
  BY DEF Settled, Turnover
<1>4. CentralLinks'
  BY DEF CentralLinks, Turnover, Shape
<1>5. PeripheralLinks'
  BY DEF PeripheralLinks, Settled, Turnover, Shape
<1> QED
  BY <1>1, <1>2, <1>3, <1>4, <1>5

\* No link is established.
LEMMA RefusedKeeps ==
    ASSUME BleInv, ~null, Refused
    PROVE  BleInv'
<1> USE BleAssumption DEF BleInv, Refused, appVars, Fault
<1>1. Shape'
  BY DEF Shape
<1>2. Turnover'
  BY DEF Turnover, Shape
<1>3. Settled'
  BY DEF Settled, Turnover
<1>4. CentralLinks'
  BY DEF CentralLinks, Turnover, Shape
<1>5. PeripheralLinks'
  BY DEF PeripheralLinks, Settled, Turnover, Shape
<1> QED
  BY <1>1, <1>2, <1>3, <1>4, <1>5

\* The parameters of a link change.
LEMMA UpdatedKeeps ==
    ASSUME BleInv, ~null, NEW h \in Handle, Updated(h)
    PROVE  BleInv'
<1> USE BleAssumption DEF BleInv, Updated, Fault, NullPointer
<1>1. Shape'
  BY DEF Shape
<1>2. Turnover'
  BY DEF Turnover, Shape
<1>3. Settled'
  BY DEF Settled, Turnover
<1>4. CentralLinks'
  BY DEF CentralLinks, Turnover, Shape
<1>5. PeripheralLinks'
  BY DEF PeripheralLinks, Settled, Turnover, Shape
<1> QED
  BY <1>1, <1>2, <1>3, <1>4, <1>5

\* A peer answers.
LEMMA AnswerKeeps ==
    ASSUME BleInv, ~null, NEW h \in Handle, Answer(h)
    PROVE  BleInv'
<1> USE BleAssumption DEF BleInv, Answer, Posted
<1>1. Shape'
  BY DEF Shape
<1>2. Turnover'
  BY DEF Turnover, Shape
<1>3. Settled'
  BY DEF Settled, Turnover
<1>4. CentralLinks'
  BY DEF CentralLinks, Turnover, Shape
<1>5. PeripheralLinks'
  BY DEF PeripheralLinks, Settled, Turnover, Shape
<1> QED
  BY <1>1, <1>2, <1>3, <1>4, <1>5

\* A peer reports an error.
LEMMA AnswerErrorKeeps ==
    ASSUME BleInv, ~null, NEW h \in Handle, AnswerError(h)
    PROVE  BleInv'
<1> USE BleAssumption DEF BleInv, AnswerError, Posted, Fault
<1>1. Shape'
  BY DEF Shape
<1>2. Turnover'
  BY DEF Turnover, Shape
<1>3. Settled'
  BY DEF Settled, Turnover
<1>4. CentralLinks'
  BY DEF CentralLinks, Turnover, Shape
<1>5. PeripheralLinks'
  BY DEF PeripheralLinks, Settled, Turnover, Shape
<1> QED
  BY <1>1, <1>2, <1>3, <1>4, <1>5

\* The timer expires.
LEMMA TimerKeeps ==
    ASSUME BleInv, ~null, Timer
    PROVE  BleInv'
<1> USE BleAssumption DEF BleInv, Timer
<1>1. Shape'
  BY DEF Shape
<1>2. Turnover'
  BY DEF Turnover, Shape
<1>3. Settled'
  BY DEF Settled, Turnover
<1>4. CentralLinks'
  BY DEF CentralLinks, Turnover, Shape
<1>5. PeripheralLinks'
  BY DEF PeripheralLinks, Settled, Turnover, Shape
<1> QED
  BY <1>1, <1>2, <1>3, <1>4, <1>5

\* A link is asked for.
LEMMA ConnectKeeps ==
    ASSUME BleInv, ~null, Connect
    PROVE  BleInv'
<1> USE BleAssumption DEF BleInv, Connect, Handles
<1>1. Shape'
  <2>1. g_scanlist \in Seq(Slave)
    BY DEF Shape
  <2>2. \A i \in DOMAIN g_scanlist : g_scanlist[i] \in Slave
    BY <2>1
  <2>3. connecting' \in Slave \cup {NoOne}
    BY <2>2 DEF Shape
  <2> QED
    BY <2>3 DEF Shape
<1>2. Turnover'
  BY DEF Turnover, Shape
<1>3. Settled'
  BY DEF Settled, Turnover
<1>4. CentralLinks'
  BY DEF CentralLinks, Turnover, Shape
<1>5. PeripheralLinks'
  BY DEF PeripheralLinks, Settled, Turnover, Shape
<1> QED
  BY <1>1, <1>2, <1>3, <1>4, <1>5

\* The switch event: builds that keep their role toggle once.
LEMMA SwitchKeeps ==
    ASSUME BleInv, ~null, Switch
    PROVE  BleInv'
<1> USE BleAssumption DEF BleInv, Switch, Handles
<1>1. Shape'
  BY DEF Shape
<1>2. Turnover'
  <2>1. ASSUME g_turnover
        PROVE  ~Exceeded
    <3>1. g_central = <<>> /\ ~g_peripheral
      BY <2>1 DEF Turnover
    <3>2. {i \in DOMAIN g_central : g_central[i].status \in Live} = {}
      BY <3>1
    <3> QED
      BY <3>1, <3>2, FS_EmptySet DEF Exceeded, multi_num
  <2> QED
    BY <2>1 DEF Turnover, Shape
<1>3. Settled'
  BY DEF Settled, Turnover
<1>4. CentralLinks'
  BY DEF CentralLinks, Turnover, Shape
<1>5. PeripheralLinks'
  BY DEF PeripheralLinks, Settled, Turnover, Shape
<1> QED
  BY <1>1, <1>2, <1>3, <1>4, <1>5

\* The role starts.
LEMMA InitialKeeps ==
    ASSUME BleInv, ~null, Initial
    PROVE  BleInv'
<1> USE BleAssumption DEF BleInv, Initial, Handles
<1>1. Shape'
  BY DEF Shape
<1>2. Turnover'
  BY DEF Turnover, Shape
<1>3. Settled'
  BY DEF Settled, Turnover
<1>4. CentralLinks'
  BY DEF CentralLinks, Turnover, Shape
<1>5. PeripheralLinks'
  BY DEF PeripheralLinks, Settled, Turnover, Shape
<1> QED
  BY <1>1, <1>2, <1>3, <1>4, <1>5

\* No entry is dead, so multi_del removes none.
LEMMA ScanKeeps ==
    ASSUME BleInv, ~null, Scan
    PROVE  BleInv'
<1> USE BleAssumption DEF BleInv, Scan, Handles
<1>0. g_central' = g_central
  BY MultiDelFacts DEF Shape
<1>1. Shape'
  BY <1>0, EmptySeq DEF Shape
<1>2. Turnover'
  BY DEF Turnover, Shape
<1>3. Settled'
  BY DEF Settled, Turnover
<1>4. CentralLinks'
  BY <1>0 DEF CentralLinks, Turnover, Shape
<1>5. PeripheralLinks'
  BY DEF PeripheralLinks, Settled, Turnover, Shape
<1> QED
  BY <1>1, <1>2, <1>3, <1>4, <1>5

\* A GATT message changes a status at most.
LEMMA GattKeeps ==
    ASSUME BleInv, ~null, Gatt
    PROVE  BleInv'
<1> USE BleAssumption DEF BleInv, Gatt
<1> DEFINE Same(d) ==
             /\ d \in Seq(Entry)
             /\ Len(d) = Len(g_central)
             /\ \A j \in DOMAIN g_central :
                   /\ d[j].status \in Live
                   /\ d[j].handle = g_central[j].handle
                   /\ d[j].addr = g_central[j].addr
<1>0. Same(g_central')
  <2>1. \/ g_central' = g_central
        \/ \E i : g_central' = Become(g_central, i, "services")
        \/ \E i : g_central' = Become(g_central, i, "characteristic")
    BY DEF Progress, NullPointer, Become
  <2>2. /\ "services" \in Live
        /\ "characteristic" \in Live
        /\ g_central \in Seq(Entry)
        /\ \A j \in DOMAIN g_central : g_central[j].status \in Live
    BY DEF Live, Shape
  <2>3. CASE g_central' = g_central
    BY <2>2, <2>3
  <2>4. ASSUME NEW i, g_central' = Become(g_central, i, "services")
        PROVE  Same(g_central')
    BY <2>2, <2>4, BecomeFacts
  <2>5. ASSUME NEW i, g_central' = Become(g_central, i, "characteristic")
        PROVE  Same(g_central')
    BY <2>2, <2>5, BecomeFacts
  <2> QED
    BY <2>1, <2>3, <2>4, <2>5
<1>a. DOMAIN g_central' = DOMAIN g_central
  BY <1>0 DEF Shape
<1>1. Shape'
  BY <1>0, <1>a DEF Shape
<1>2. ~null' => Turnover'
  BY DEF Turnover, Progress, NullPointer, Listed
<1>3. Settled'
  BY DEF Settled, Turnover
<1>4. CentralLinks'
  BY <1>0, <1>a DEF CentralLinks
<1>5. PeripheralLinks'
  BY DEF PeripheralLinks, Settled, Turnover, Shape
<1> QED
  BY <1>1, <1>2, <1>3, <1>4, <1>5

\* The entry of a link that ends is the one that is removed.
LEMMA ClosedKeeps ==
    ASSUME BleInv, ~null, NEW h \in Handle, Closed(h)
    PROVE  BleInv'
<1> USE BleAssumption DEF BleInv, Closed, NullPointer
<1>0. /\ g_central \in Seq(Entry)
      /\ Len(g_central) \in Nat
      /\ DOMAIN g_central = 1 .. Len(g_central)
      /\ \A j \in DOMAIN g_central : g_central[j].status \in Live
  BY DEF Shape
<1> DEFINE i == multi_point(h)
           rest == multi_del([g_central EXCEPT ![i].status = "idle"])
<1>a. i \in DOMAIN g_central =>
        /\ rest \in Seq(Entry)
        /\ Len(rest) = Len(g_central) - 1
        /\ \A k \in 1 .. Len(g_central) - 1 :
              rest[k] = IF k < i THEN g_central[k] ELSE g_central[k + 1]
  BY <1>0, CloseFacts
<1>b. i \notin DOMAIN g_central => rest = g_central
  <2> SUFFICES ASSUME i \notin DOMAIN g_central PROVE rest = g_central
    OBVIOUS
  <2>1. [g_central EXCEPT ![i].status = "idle"] = g_central
    BY <1>0
  <2> QED
    BY <1>0, <2>1, MultiDelFacts
<1>c. g_central' \in {g_central, rest}
  BY DEF Shape
<1> HIDE DEF i, rest
<1>d. i \in DOMAIN g_central =>
        /\ DOMAIN rest = 1 .. Len(g_central) - 1
        /\ \A k \in DOMAIN rest :
              \E j \in DOMAIN g_central :
                 /\ j # i
                 /\ rest[k] = g_central[j]
                 /\ j = IF k < i THEN k ELSE k + 1
  <2> SUFFICES ASSUME i \in DOMAIN g_central
               PROVE  /\ DOMAIN rest = 1 .. Len(g_central) - 1
                      /\ \A k \in 1 .. Len(g_central) - 1 :
                            \E j \in DOMAIN g_central :
                               /\ j # i
                               /\ rest[k] = g_central[j]
                               /\ j = IF k < i THEN k ELSE k + 1
    OBVIOUS
  <2>1. DOMAIN rest = 1 .. Len(g_central) - 1
    BY <1>0, <1>a
  <2>2. ASSUME NEW k \in 1 .. Len(g_central) - 1
        PROVE  LET j == IF k < i THEN k ELSE k + 1
               IN j \in 1 .. Len(g_central) /\ j # i /\ rest[k] = g_central[j]
    BY <1>0, <1>a
  <2> QED
    BY <1>0, <2>1, <2>2
<1>1. Shape'
  <2>1. CASE g_central' = g_central
    BY <2>1 DEF Shape
  <2>2. CASE g_central' = rest /\ i \in DOMAIN g_central
    <3>1. \A k \in DOMAIN rest : rest[k].status \in Live
      BY <1>0, <1>d, <2>2
    <3> QED
      BY <1>0, <1>a, <2>2, <3>1 DEF Shape
  <2> QED
    BY <1>b, <1>c, <2>1, <2>2
<1>2. Turnover'
  BY DEF Turnover, Shape
<1>3. Settled'
  BY DEF Settled, Turnover
<1>4. ~null' => CentralLinks'
  <2> SUFFICES ASSUME debug = "C", ~null' PROVE CentralLinks'
    BY DEF CentralLinks
  <2>1. profile = "central" /\ ~g_adv
    BY DEF Turnover, Settled
  <2>2. Listed(h) # {} /\ g_central' = rest
    BY <2>1 DEF i, rest
  <2>3. PICK p \in DOMAIN g_central : g_central[p].handle = h
    BY <2>2 DEF Listed
  <2>4. Listed(h) = {p}
    BY <2>3 DEF Listed, CentralLinks
  <2>5. i = p
    BY <1>0, <2>3, <2>4 DEF i, multi_point
  <2>6. \A k \in DOMAIN rest :
           \E j \in DOMAIN g_central :
              /\ j # p
              /\ rest[k] = g_central[j]
              /\ j = IF k < p THEN k ELSE k + 1
    BY <1>d, <2>3, <2>5
  <2>7. \A j \in DOMAIN g_central :
           j # p => \E k \in DOMAIN rest : rest[k] = g_central[j]
    <3> SUFFICES ASSUME NEW j \in DOMAIN g_central, j # p
                 PROVE  \E k \in DOMAIN rest : rest[k] = g_central[j]
      OBVIOUS
    <3> DEFINE k == IF j < p THEN j ELSE j - 1
    <3>1. k \in 1 .. Len(g_central) - 1 /\ DOMAIN rest = 1 .. Len(g_central) - 1
      BY <1>0, <1>a, <2>3, <2>5
    <3>2. rest[k] = g_central[j]
      BY <1>0, <1>a, <2>3, <2>5, <3>1
    <3> QED
      BY <3>1, <3>2
  <2>8. \A k \in DOMAIN rest :
           /\ rest[k].addr # NoOne
           /\ rest[k].handle # h
           /\ link[rest[k].handle] = rest[k].addr
    BY <2>3, <2>6 DEF CentralLinks
  <2>9. \A k \in DOMAIN rest : rest[k].handle \in Handle
    <3>1. \A k \in DOMAIN rest : rest[k] \in Entry
      BY <1>a, <2>3, <2>5
    <3> QED
      BY <3>1 DEF Entry
  <2>10. \A k \in DOMAIN rest : link'[rest[k].handle] = rest[k].addr
    BY <2>8, <2>9 DEF Shape
  <2>11. \A k, l \in DOMAIN rest : rest[k].handle = rest[l].handle => k = l
    BY <1>0, <1>a, <2>3, <2>5, <2>6 DEF CentralLinks
  <2>12. \A g \in Open' : \E k \in DOMAIN rest : rest[k].handle = g
    <3> SUFFICES ASSUME NEW g \in Open'
                 PROVE  \E k \in DOMAIN rest : rest[k].handle = g
      OBVIOUS
    <3>1. g \in Open /\ g # h
      BY DEF Shape
    <3>2. PICK j \in DOMAIN g_central : g_central[j].handle = g
      BY <3>1 DEF CentralLinks
    <3> QED
      BY <2>3, <2>7, <3>1, <3>2
  <2> QED
    BY <2>2, <2>8, <2>10, <2>11, <2>12 DEF CentralLinks
<1>5. PeripheralLinks'
  BY DEF PeripheralLinks, Settled, Turnover, Shape
<1> QED
  BY <1>1, <1>2, <1>3, <1>4, <1>5

\* A new link is listed.
LEMMA EstablishedKeeps ==
    ASSUME BleInv, ~null, NEW h \in Handle, Established(h)
    PROVE  BleInv'
<1> USE BleAssumption DEF BleInv, Established, Opened
<1>0. /\ g_central \in Seq(Entry)
      /\ Len(g_central) \in Nat
      /\ DOMAIN g_central = 1 .. Len(g_central)
  BY DEF Shape
<1> DEFINE e == [handle |-> h, addr |-> connecting, status |-> "connected"]
           more == Append(g_central, e)
<1>a. e \in Entry /\ e.status \in Live
  BY DEF Shape, Entry, Live
<1>b. /\ more \in Seq(Entry)
      /\ Len(more) = Len(g_central) + 1
      /\ \A i \in 1 .. Len(g_central) : more[i] = g_central[i]
      /\ more[Len(g_central) + 1] = e
  BY <1>0, <1>a, AppendProperties
<1>c. \/ g_central' = g_central
      \/ g_central' = more /\ ~Full
  OBVIOUS
<1>d. e.handle = h /\ e.addr = connecting
  OBVIOUS
<1> HIDE DEF e, more
<1>1. Shape'
  <2>1. CASE g_central' = g_central
    BY <2>1 DEF Shape
  <2>2. CASE g_central' = more /\ ~Full
    <3>1. Len(g_central) # NUM_CENTRAL /\ NUM_CENTRAL \in Nat
      BY <2>2 DEF Full
    <3>3. Len(more) <= NUM_CENTRAL
      BY <1>0, <1>b, <3>1, Below DEF Shape
    <3>2. \A i \in DOMAIN more : more[i].status \in Live
      BY <1>0, <1>a, <1>b DEF Shape
    <3> QED
      BY <1>b, <2>2, <3>2, <3>3 DEF Shape
  <2> QED
    BY <1>c, <2>1, <2>2
<1>2. Turnover'
  BY DEF Turnover, Shape
<1>3. Settled'
  BY DEF Settled, Turnover
<1>4. CentralLinks'
  <2> SUFFICES ASSUME debug = "C" PROVE CentralLinks'
    BY DEF CentralLinks
  <2>1. profile = "central" /\ ~g_adv
    BY DEF Turnover, Settled
  <2>2. ~Full
    BY HasRoom
  <2>3. g_central' = more
    BY <2>1, <2>2 DEF e, more
  <2>4. DOMAIN more = 1 .. Len(g_central) + 1
    BY <1>0, <1>b
  <2>5. \A i \in DOMAIN g_central :
           g_central[i].handle \in Handle /\ g_central[i].handle # h
    <3>1. \A i \in DOMAIN g_central : g_central[i] \in Entry
      BY <1>0
    <3> QED
      BY <3>1 DEF CentralLinks, Entry
  <2>6. link' = [link EXCEPT ![h] = connecting] /\ connecting # NoOne
    OBVIOUS
  <2>7. \A i \in DOMAIN more :
           /\ more[i].addr # NoOne
           /\ link'[more[i].handle] = more[i].addr
    BY <1>0, <1>b, <1>d, <2>4, <2>5, <2>6 DEF CentralLinks, Shape
  <2>8. \A i, j \in DOMAIN more : more[i].handle = more[j].handle => i = j
    BY <1>0, <1>b, <1>d, <2>4, <2>5 DEF CentralLinks
  <2>9. \A g \in Open' : \E i \in DOMAIN more : more[i].handle = g
    <3> SUFFICES ASSUME NEW g \in Open'
                 PROVE  \E i \in DOMAIN more : more[i].handle = g
      OBVIOUS
    <3>1. CASE g = h
      BY <1>0, <1>b, <1>d, <2>4, <3>1
    <3>2. CASE g # h
      BY <1>0, <1>b, <2>4, <2>6, <3>2 DEF CentralLinks, Shape
    <3> QED
      BY <3>1, <3>2
  <2> QED
    BY <2>3, <2>7, <2>8, <2>9 DEF CentralLinks
<1>5. PeripheralLinks'
  BY DEF PeripheralLinks, Settled, Turnover, Shape
<1> QED
  BY <1>1, <1>2, <1>3, <1>4, <1>5

\* A peripheral gets its one link.
LEMMA MasterConnectsKeeps ==
    ASSUME BleInv, ~null, NEW h \in Handle, MasterConnects(h)
    PROVE  BleInv'
<1> USE BleAssumption DEF BleInv, MasterConnects, Opened
<1>1. Shape'
  BY DEF Shape
<1>2. Turnover'
  BY DEF Turnover, Shape
<1>3. Settled'
  BY DEF Settled, Turnover
<1>4. CentralLinks'
  BY DEF CentralLinks, Turnover, Settled
<1>5. PeripheralLinks'
  BY DEF PeripheralLinks, Settled, Turnover, Shape
<1> QED
  BY <1>1, <1>2, <1>3, <1>4, <1>5

-----------------------------------------------------------------------------
(* The specification *)

\* A node that starts has no links.
LEMMA InitInv == Init => BleInv
<1> SUFFICES ASSUME Init PROVE BleInv
  OBVIOUS
<1> USE BleAssumption DEF Init
<1>1. Shape
  BY EmptySeq DEF Shape
<1>2. Turnover /\ Settled
  BY DEF Turnover, Settled
<1>3. Open = {}
  OBVIOUS
<1>4. CentralLinks /\ PeripheralLinks
  BY <1>3 DEF CentralLinks, PeripheralLinks
<1> QED
  BY <1>1, <1>2, <1>4 DEF BleInv

LEMMA NextKeeps == BleInv /\ [Next]_vars => BleInv'
<1> SUFFICES ASSUME BleInv, [Next]_vars PROVE BleInv'
  OBVIOUS
<1>1. CASE UNCHANGED vars
  BY <1>1 DEF vars, appVars, BleInv, Shape, Turnover, Settled, CentralLinks,
     PeripheralLinks
<1>2. CASE Application
  BY <1>2, GattKeeps, SwitchKeeps, InitialKeeps, ScanKeeps, ConnectKeeps
     DEF Application
<1>3. CASE Reports \/ Found \/ Expires
  BY <1>3, InitDoneKeeps, DiscoveredKeeps, DeviceInfoKeeps, TimerKeeps
     DEF Reports, Found, Expires
<1>4. CASE Links \/ Answers
  BY <1>4, EstablishedKeeps, ClosedKeeps, AnswerKeeps
     DEF Links, Answers, Terminated
<1>5. CASE Others
  BY <1>5, RefusedKeeps, MasterConnectsKeeps, ClosedKeeps, UpdatedKeeps,
     AnswerErrorKeeps DEF Others, Lost
<1> QED
  BY <1>1, <1>2, <1>3, <1>4, <1>5 DEF Next

\* The strengthening of the invariant below holds in every state.
THEOREM BleInvariant == Spec => []BleInv
  BY InitInv, NextKeeps, PTL DEF Spec

\* The list of a central is as long as it has links.
LEMMA ListLength ==
    ASSUME Shape, CentralLinks, debug = "C"
    PROVE  /\ Open = {g_central[i].handle : i \in DOMAIN g_central}
           /\ Len(g_central) = Cardinality(Open)
<1> DEFINE n == Len(g_central)
           f == [i \in 1 .. n |-> g_central[i].handle]
<1>1. n \in Nat /\ DOMAIN g_central = 1 .. n
  BY DEF Shape
<1>2. \A i \in 1 .. n : g_central[i] \in Entry
  BY <1>1 DEF Shape
<1>3. \A i \in 1 .. n : g_central[i].handle \in Open
  BY <1>1, <1>2 DEF CentralLinks, Entry
<1>4. Open = {g_central[i].handle : i \in DOMAIN g_central}
  BY <1>1, <1>3 DEF CentralLinks
<1>5. f \in Injection(1 .. n, Open)
  BY <1>1, <1>3 DEF CentralLinks, Injection, IsInjective
<1>6. f \in Surjection(1 .. n, Open)
  BY <1>1, <1>3, <1>4 DEF Surjection
<1>7. IsFiniteSet(1 .. n) /\ Cardinality(1 .. n) = n
  BY <1>1, FS_Interval, IntervalCardinality
<1>8. Cardinality(Open) = Cardinality(1 .. n)
  BY <1>5, <1>6, <1>7, FS_Surjection
<1> QED
  BY <1>4, <1>7, <1>8

\* A node that keeps its role knows its links (callback.c:200-268).
THEOREM KnowsLinksHolds == Spec => []KnowsLinks
<1>1. ASSUME BleInv
      PROVE  KnowsLinks
  <2>1. ~null /\ debug = "C" =>
           /\ Open = {g_central[i].handle : i \in DOMAIN g_central}
           /\ Len(g_central) = Cardinality(Open)
           /\ \A i \in DOMAIN g_central :
                 link[g_central[i].handle] = g_central[i].addr
    BY <1>1, ListLength DEF BleInv, CentralLinks
  <2>2. ~null /\ debug = "P" => (g_peripheral <=> Open # {})
    BY <1>1 DEF BleInv, PeripheralLinks
  <2> QED
    BY <2>1, <2>2 DEF KnowsLinks
<1> QED
  BY <1>1, BleInvariant, PTL
=============================================================================
