--------------------------- MODULE GossipProofs ---------------------------
(***************************************************************************)
(* The proof that route_node never dereferences NULL: GossipInv is an      *)
(* inductive invariant of Blockchain, whatever the devices, the deals and  *)
(* the topologies, if no device's uninitialised dag_index reads 1.  And    *)
(* the proof that a device with a route never falls asleep.                *)
(***************************************************************************)
EXTENDS BlockchainProofs

-----------------------------------------------------------------------------
(* Queues as sets: r arises from q by taking the messages of lost, a set   *)
(* of pairs of a thread and a message, and by inserting those of new.      *)
Delivers(q, r, lost, new) ==
    \A t \in Thread :
        /\ \A m \in ToSet(r[t]) : m \in ToSet(q[t]) \/ <<t, m>> \in new
        /\ \A m \in ToSet(q[t]) : m \in ToSet(r[t]) \/ <<t, m>> \in lost
        /\ ConnectsFirst(q[t]) => ConnectsFirst(r[t])

LEMMA InsertDelivers ==
    ASSUME NEW q \in [Thread -> Seq(Message)], NEW t \in Thread,
           NEW m \in Message
    PROVE  Delivers(q, QueueInsert(q, t, m), {}, {<<t, m>>})
<1>. DEFINE r == QueueInsert(q, t, m)
<1>1. r[t] = Enqueue(q[t], m) /\ \A u \in Thread \ {t} : r[u] = q[u]
  BY QueueInsertProperties
<1>2. /\ ToSet(Enqueue(q[t], m)) = ToSet(q[t]) \cup {m}
      /\ ConnectsFirst(q[t]) => ConnectsFirst(Enqueue(q[t], m))
  BY ToSetEnqueue, EnqueueConnectsFirst
<1>. HIDE DEF r
<1>3. ASSUME NEW u \in Thread
      PROVE  /\ \A x \in ToSet(r[u]) : x \in ToSet(q[u]) \/ <<u, x>> \in {<<t, m>>}
             /\ \A x \in ToSet(q[u]) : x \in ToSet(r[u])
             /\ ConnectsFirst(q[u]) => ConnectsFirst(r[u])
  <2>1. CASE u = t
    BY <1>1, <1>2, <2>1
  <2>2. CASE u # t
    BY <1>1, <2>2
  <2>. QED  BY <2>1, <2>2
<1>. QED  BY <1>3 DEF Delivers, r

LEMMA DeleteDelivers ==
    ASSUME NEW q \in [Thread -> Seq(Message)], NEW t \in Thread,
           NEW i \in DOMAIN q[t]
    PROVE  Delivers(q, QueueDelete(q, t, i), {<<t, q[t][i]>>}, {})
<1>. DEFINE r == QueueDelete(q, t, i)
<1>1. r[t] = RemoveAt(q[t], i) /\ \A u \in Thread \ {t} : r[u] = q[u]
  BY QueueDeleteProperties
<1>2. /\ ToSet(RemoveAt(q[t], i)) \subseteq ToSet(q[t])
      /\ ToSet(q[t]) \subseteq ToSet(RemoveAt(q[t], i)) \cup {q[t][i]}
      /\ ConnectsFirst(q[t]) => ConnectsFirst(RemoveAt(q[t], i))
  BY ToSetRemoveAt, RemoveAtConnectsFirst
<1>. HIDE DEF r
<1>3. ASSUME NEW u \in Thread
      PROVE  /\ \A x \in ToSet(r[u]) : x \in ToSet(q[u])
             /\ \A x \in ToSet(q[u]) :
                   x \in ToSet(r[u]) \/ <<u, x>> \in {<<t, q[t][i]>>}
             /\ ConnectsFirst(q[u]) => ConnectsFirst(r[u])
  <2>1. CASE u = t
    BY <1>1, <1>2, <2>1
  <2>2. CASE u # t
    BY <1>1, <2>2
  <2>. QED  BY <2>1, <2>2
<1>. QED  BY <1>3 DEF Delivers, r

LEMMA DeliversTwice ==
    ASSUME NEW q, NEW r, NEW s, NEW l1, NEW n1, NEW l2, NEW n2,
           Delivers(q, r, l1, n1), Delivers(r, s, l2, n2)
    PROVE  Delivers(q, s, l1 \cup l2, n1 \cup n2)
BY DEF Delivers

\* One message of t's own queue is taken, one is sent.
LEMMA ForwardDelivers ==
    ASSUME TypeOK, NEW t \in Thread, NEW i \in DOMAIN queue[t],
           NEW u \in Thread, NEW m \in Message
    PROVE  Delivers(queue, QueueInsert(QueueDelete(queue, t, i), u, m),
                    {<<t, queue[t][i]>>}, {<<u, m>>})
<1>. DEFINE r == QueueDelete(queue, t, i)
<1>1. r \in [Thread -> Seq(Message)]
  BY QueueTypes
<1>2. Delivers(queue, r, {<<t, queue[t][i]>>}, {})
  BY DeleteDelivers DEF TypeOK
<1>. HIDE DEF r
<1>3. Delivers(r, QueueInsert(r, u, m), {}, {<<u, m>>})
  BY <1>1, InsertDelivers
<1>4. Delivers(queue, QueueInsert(r, u, m),
               {<<t, queue[t][i]>>} \cup {}, {} \cup {<<u, m>>})
  BY <1>2, <1>3, DeliversTwice
<1>. QED  BY <1>4 DEF r

-----------------------------------------------------------------------------
(* Steps outside the CONNECT handler of a device *)

\* Nobody and Main are no devices.
LEMMA NoDevice == Nobody \notin Device /\ Main \notin Device /\ Heavy \subseteq Device
BY LayerAssumption DEF Nobody, Main, Device, Heavy

\* A message a heavy device h may receive.
Understood(h, m) ==
    /\ m.step = "TRANSACTION" /\ m.tx # 0 => Hears(h, Src(m.tx))
    /\ m.step = "LEDGER" => Hears(h, m.device)

\* An index the mainchain may receive.
Told(m) ==
    m.step = "CONNECT" =>
        \A h \in Heavy \cap m.index, x \in m.index : Hears(h, x)

LEMMA CalmStep ==
    ASSUME TypeOK, GossipInv, UNCHANGED <<route, fresh, gate>>,
           NEW lost, NEW new, Delivers(queue, queue', lost, new),
           NoNullRoute',
           \A d \in Device : fresh[d] # {} => g_cs' = d /\ at' = "CONNECT",
           \A d \in Device : g_cs' = d /\ at' # "CONNECT" =>
                \A m \in ToSet(queue'[d]) : m.step # "CONNECT",
           \A d \in Device : \A m : <<d, m>> \in lost => m.step # "CONNECT",
           \A h \in Heavy : \A m : <<h, m>> \in new => Understood(h, m),
           \A m : <<Main, m>> \in new => Told(m),
           \A h \in Heavy, x \in Device : h \in group'[x] => Hears(h, x)
    PROVE  GossipInv'
<1>1. /\ queue \in [Thread -> Seq(Message)]
      /\ Device \subseteq Thread /\ Main \in Thread /\ Heavy \subseteq Device
  BY NoDevice DEF TypeOK, Thread
<1>2. \A t \in Thread : \A m \in ToSet(queue[t]) : m \in Message
  BY <1>1, ToSetMember
<1>3. ASSUME NEW h \in Device, NEW x, Hears(h, x)
      PROVE  Hears(h, x)'
  <2>1. CASE x \in Known(h)
    BY <2>1 DEF Hears, Known
  <2>2. ASSUME NEW m \in ToSet(queue[h]), m.step = "CONNECT", x \in m.index
        PROVE  Hears(h, x)'
    <3>1. m \in ToSet(queue'[h])
      BY <1>1, <1>2, <2>2 DEF Delivers
    <3>. QED  BY <2>2, <3>1 DEF Hears
  <2>. QED  BY <1>3, <2>1, <2>2 DEF Hears
<1>4. FreshOnlyInCall'
  BY DEF FreshOnlyInCall, GossipInv
<1>5. RouteShared'
  <2>1. ASSUME NEW d \in Device, NEW r \in route'[d] \ fresh'[d],
               NEW x \in Known(d)' \ fresh'[d]
        PROVE  Hears(r, x)'
    <3>1. r \in route[d] \ fresh[d] /\ x \in Known(d) \ fresh[d]
      BY DEF Known
    <3>2. r \in Device
      BY <3>1 DEF TypeOK
    <3>. QED  BY <1>3, <3>1, <3>2 DEF GossipInv, RouteShared
  <2>. QED  BY <2>1 DEF RouteShared
<1>6. ConnectsOvertake'
  <2>1. \A d \in Device : ConnectsFirst(queue'[d])
    BY <1>1 DEF Delivers, GossipInv, ConnectsOvertake
  <2>. QED  BY <2>1 DEF ConnectsOvertake
<1>7. GateInRoute'
  BY DEF GossipInv, GateInRoute
<1>8. AddresseeHears'
  <2>1. ASSUME NEW h \in Heavy, NEW m \in ToSet(queue'[h])
        PROVE  /\ m.step = "TRANSACTION" /\ m.tx # 0 => Hears(h, Src(m.tx))
               /\ m.step = "LEDGER" => Hears(h, m.device)
    <3>1. CASE m \in ToSet(queue[h])
      BY <3>1 DEF GossipInv, AddresseeHears
    <3>2. CASE m \notin ToSet(queue[h])
      <4>1. <<h, m>> \in new
        BY <1>1, <3>2 DEF Delivers
      <4>. QED  BY <4>1 DEF Understood
    <3>. QED  BY <3>1, <3>2
  <2>. QED  BY <1>1, <1>3, <2>1 DEF AddresseeHears
<1>9. DagHears'
  <2>1. \A h \in Heavy, x \in Device : h \in group'[x] => Hears(h, x)'
    BY <1>1, <1>3
  <2>2. ASSUME NEW m \in ToSet(queue'[Main]), m.step = "CONNECT",
               NEW h \in Heavy \cap m.index, NEW x \in m.index
        PROVE  Hears(h, x)'
    <3>1. Hears(h, x)
      <4>1. CASE m \in ToSet(queue[Main])
        BY <2>2, <4>1 DEF GossipInv, DagHears
      <4>2. CASE m \notin ToSet(queue[Main])
        <5>1. <<Main, m>> \in new
          BY <1>1, <4>2 DEF Delivers
        <5>. QED  BY <2>2, <5>1 DEF Told
      <4>. QED  BY <4>1, <4>2
    <3>. QED  BY <1>1, <1>3, <3>1
  <2>. QED  BY <2>1, <2>2 DEF DagHears
<1>. QED
  BY <1>4, <1>5, <1>6, <1>7, <1>8, <1>9 DEF GossipInv

LEMMA NothingDelivers ==
    ASSUME NEW q
    PROVE  Delivers(q, q, {}, {})
BY DEF Delivers

LEMMA NoFresh ==
    ASSUME GossipInv, ~(g_cs \in Device /\ at = "CONNECT")
    PROVE  \A d \in Device : fresh[d] = {}
BY DEF GossipInv, FreshOnlyInCall

\* Outside its CONNECT handler a device knows whatever it hears of.
LEMMA KnowsWhatItHears ==
    ASSUME GossipInv, NEW d \in Device, g_cs = d, at # "CONNECT",
           NEW x, Hears(d, x)
    PROVE  x \in Known(d)
BY DEF GossipInv, ConnectsOvertake, Hears

\* A device tells the devices of its route about all of them.
LEMMA RouteHears ==
    ASSUME GossipInv, ~(g_cs \in Device /\ at = "CONNECT"),
           NEW d \in Device, NEW r \in route[d], NEW x \in Known(d)
    PROVE  Hears(r, x)
BY NoFresh DEF GossipInv, RouteShared

\* A step of a device's handler of deals or notices.
LEMMA CalmCall ==
    ASSUME TypeOK, GossipInv, NEW d \in Device, g_cs = d, at # "CONNECT",
           UNCHANGED <<route, fresh, gate, group>>, NoNullRoute',
           NEW lost, NEW new, Delivers(queue, queue', lost, new),
           UNCHANGED <<g_cs, at>> \/ Leave,
           \A m : <<d, m>> \in new /\ UNCHANGED g_cs => m.step # "CONNECT",
           \A t, m : <<t, m>> \in lost => m.step # "CONNECT",
           \A h \in Heavy : \A m : <<h, m>> \in new => Understood(h, m),
           \A m : <<Main, m>> \in new => Told(m)
    PROVE  GossipInv'
<1>1. \A e \in Device : fresh[e] = {}
  BY NoFresh
<1>2. \A e \in Device : g_cs' = e => e = d /\ UNCHANGED g_cs
  BY NoDevice DEF Leave
<1>3. \A m \in ToSet(queue[d]) : m.step # "CONNECT"
  BY DEF GossipInv, ConnectsOvertake
<1>4. d \in Thread
  BY DEF Thread
<1>5. \A e \in Device : g_cs' = e /\ at' # "CONNECT" =>
          \A m \in ToSet(queue'[e]) : m.step # "CONNECT"
  BY <1>2, <1>3, <1>4 DEF Delivers
<1>6. \A h \in Heavy, x \in Device : h \in group'[x] => Hears(h, x)
  BY DEF GossipInv, DagHears
<1>. QED  BY <1>1, <1>5, <1>6, CalmStep

\* A step of the mainchain, or of no thread inside the critical section.
LEMMA CalmMain ==
    ASSUME TypeOK, GossipInv, g_cs \notin Device, g_cs' \notin Device,
           UNCHANGED <<route, fresh, gate>>, NoNullRoute',
           NEW lost, NEW new, Delivers(queue, queue', lost, new),
           \A t, m : <<t, m>> \in lost => t = Main \/ m.step # "CONNECT",
           \A h \in Heavy : \A m : <<h, m>> \in new => Understood(h, m),
           \A m : <<Main, m>> \in new => Told(m),
           \A h \in Heavy, x \in Device : h \in group'[x] => Hears(h, x)
    PROVE  GossipInv'
<1>1. \A e \in Device : fresh[e] = {}
  BY NoFresh
<1>2. \A e \in Device : e # Main
  BY NoDevice
<1>. QED  BY <1>1, <1>2, CalmStep

-----------------------------------------------------------------------------
(* The device's steps *)

LEMMA ProcessDeviceGossip ==
    ASSUME TypeOK, GossipInv, NEW d \in Device, ProcessDevice(d)
    PROVE  GossipInv'
<1>0. d \in Thread /\ Main \in Thread /\ d # Main
  BY NoDevice DEF Thread
<1>. DEFINE index == Index(d, route[d], copy[d])
            q == QueueInsert(queue, Main, index)
            new == IF Resends(d)
                   THEN {<<Main, index>>, <<d, NullTransaction>>} ELSE {}
<1>1. g_cs = Nobody /\ \A e \in Device : fresh[e] = {}
  BY NoDevice, NoFresh DEF ProcessDevice, Enters
<1>2. Delivers(queue, queue', {}, new)
  <2>1. CASE Resends(d)
    <3>1. index \in Message
      BY NewIndex DEF TypeOK, Message
    <3>. HIDE DEF index
    <3>2. Delivers(queue, q, {}, {<<Main, index>>})
      BY <1>0, <3>1, InsertDelivers DEF TypeOK
    <3>3. q \in [Thread -> Seq(Message)]
      BY <1>0, <3>1, QueueInsertProperties DEF TypeOK
    <3>. HIDE DEF q
    <3>4. Delivers(q, QueueInsert(q, d, NullTransaction), {},
                   {<<d, NullTransaction>>})
      BY <1>0, <3>3, NewMessages, InsertDelivers
    <3>5. Delivers(queue, QueueInsert(q, d, NullTransaction), {} \cup {},
                   {<<Main, index>>} \cup {<<d, NullTransaction>>})
      BY <3>2, <3>4, DeliversTwice
    <3>6. queue' = QueueInsert(q, d, NullTransaction)
      BY <2>1 DEF ProcessDevice, q, index
    <3>7. {<<Main, index>>} \cup {<<d, NullTransaction>>} = new /\ {} \cup {} = {}
      BY <2>1
    <3>. QED  BY <3>5, <3>6, <3>7
  <2>2. CASE ~Resends(d)
    <3>1. queue' = queue /\ new = {}
      BY <2>2 DEF ProcessDevice
    <3>. QED  BY <3>1, NothingDelivers
  <2>. QED  BY <2>1, <2>2
<1>3. \A e \in Device : g_cs' = e /\ at' # "CONNECT" =>
          \A m \in ToSet(queue'[e]) : m.step # "CONNECT"
  <2>. SUFFICES ASSUME at' # "CONNECT", NEW m \in ToSet(queue'[d])
                PROVE  m.step # "CONNECT"
    BY DEF ProcessDevice
  <2>1. CASE m \in ToSet(queue[d])
    <3>1. queue[d] \in Seq(Message) /\ queue[d] # <<>> /\ Head(queue[d]).step # "CONNECT"
      BY <1>0 DEF TypeOK, ProcessDevice, Enters
    <3>2. ConnectsFirst(queue[d])
      BY DEF GossipInv, ConnectsOvertake
    <3>. QED  BY <2>1, <3>1, <3>2, NoConnectBehind
  <2>2. CASE m \notin ToSet(queue[d])
    <3>1. <<d, m>> \in new
      BY <1>0, <1>2, <2>2 DEF Delivers
    <3>2. m = NullTransaction
      BY <1>0, <3>1
    <3>. QED  BY <3>2 DEF NullTransaction, Transaction
  <2>. QED  BY <2>1, <2>2
<1>4. \A h \in Heavy : \A m : <<h, m>> \in new => Understood(h, m)
  <2>1. \A h : Understood(h, NullTransaction)
    BY DEF Understood, NullTransaction, Transaction
  <2>2. \A h \in Heavy : h # Main
    BY NoDevice
  <2>. QED  BY <2>1, <2>2
<1>5. \A m : <<Main, m>> \in new => Told(m)
  <2>1. ASSUME NEW h \in Heavy \cap index.index, NEW x \in index.index
        PROVE  Hears(h, x)
    <3>1. x \in Known(d) /\ h \in Known(d)
      BY DEF Index, Known
    <3>2. CASE h = d
      BY <3>1, <3>2 DEF Hears
    <3>3. CASE h # d
      <4>1. h \in route[d]
        BY <3>1, <3>3 DEF Known
      <4>. QED  BY <1>1, <3>1, <4>1, NoDevice, RouteHears
    <3>. QED  BY <3>2, <3>3
  <2>2. Told(index)
    BY <2>1 DEF Told
  <2>. HIDE DEF index
  <2>. QED  BY <1>0, <2>2
<1>6. UNCHANGED <<route, fresh, gate, group, fault>>
  BY DEF ProcessDevice, routeVars, chainVars
<1>7. NoNullRoute'
  BY <1>6 DEF GossipInv, NoNullRoute
<1>8. \A h \in Heavy, x \in Device : h \in group'[x] => Hears(h, x)
  BY <1>6 DEF GossipInv, DagHears
<1>. HIDE DEF new
<1>. QED
  BY <1>1, <1>2, <1>3, <1>4, <1>5, <1>6, <1>7, <1>8, CalmStep

LEMMA TransactionDropGossip ==
    ASSUME TypeOK, GossipInv, NEW d \in Device, TransactionDrop(d)
    PROVE  GossipInv'
<1>0. d \in Thread
  BY DEF Thread
<1>1. PICK i \in DOMAIN queue[d] : TransactionDrop(d)!1!(i)
  BY DEF TransactionDrop
<1>2. Delivers(queue, queue', {<<d, queue[d][i]>>}, {})
  BY <1>0, <1>1, DeleteDelivers DEF TypeOK
<1>3. queue[d][i].step = "TRANSACTION" /\ g_cs = d /\ at # "CONNECT"
  BY <1>1 DEF DeviceTakes, IsNext, Runs
<1>4. UNCHANGED <<route, fresh, gate, group, fault, g_cs, at>>
  BY DEF TransactionDrop, callVars, routeVars, chainVars
<1>5. NoNullRoute'
  BY <1>4 DEF GossipInv, NoNullRoute
<1>. QED  BY <1>2, <1>3, <1>4, <1>5, CalmCall

LEMMA TransactionRecvGossip ==
    ASSUME TypeOK, GossipInv, NEW d \in Device, TransactionRecv(d)
    PROVE  GossipInv'
<1>0. d \in Thread /\ Main \in Thread /\ Device \subseteq Thread
  BY DEF Thread
<1>1. PICK i \in DOMAIN queue[d] : TransactionRecv(d)!1!(i)
  BY DEF TransactionRecv
<1>. DEFINE n == queue[d][i].tx
            s == Src(n)
            u == IF s \in Light /\ Price(n) > copy[d][s] THEN s ELSE Main
            m == IF s \in Light /\ Price(n) > copy[d][s]
                 THEN Ledger("LEDGER", n, s) ELSE Transaction(n)
<1>2. queue[d][i].step = "TRANSACTION" /\ g_cs = d /\ at # "CONNECT" /\ d \in Heavy
  BY <1>1 DEF DeviceTakes, IsNext, Runs
<1>3. n \in TxIndex
  BY <1>0, <1>1, <1>2, QueueTypes, MessageTypes
<1>4. s \in Device
  BY <1>3, DealTypes
<1>5. u \in Thread /\ m \in Message
  BY <1>0, <1>3, <1>4, NewMessages DEF Status
<1>6. Delivers(queue, queue', {<<d, queue[d][i]>>}, {<<u, m>>})
  <2>1. queue' = QueueInsert(QueueDelete(queue, d, i), u, m)
    BY <1>1
  <2>. HIDE DEF u, m
  <2>. QED  BY <1>0, <1>5, <2>1, ForwardDelivers
<1>7. s \in Known(d)
  <2>1. queue[d][i] \in ToSet(queue[d])
    BY <1>0, ToSetMember DEF TypeOK
  <2>2. Hears(d, s)
    BY <1>1, <1>2, <2>1 DEF GossipInv, AddresseeHears
  <2>. QED  BY <1>2, <2>2, KnowsWhatItHears
<1>8. UNCHANGED <<route, fresh, gate, group, g_cs, at>>
  BY DEF TransactionRecv, callVars, chainVars
<1>9. NoNullRoute'
  BY <1>1, <1>7 DEF NoNullRoute
<1>10. u \notin Heavy /\ m.step # "CONNECT" /\ Told(m)
  BY NoDevice DEF Light, Ledger, Transaction, Told
<1>. HIDE DEF u, m
<1>. QED  BY <1>2, <1>6, <1>8, <1>9, <1>10, CalmCall

LEMMA TransactionNoneGossip ==
    ASSUME TypeOK, GossipInv, NEW d \in Device, TransactionNone(d)
    PROVE  GossipInv'
<1>1. Delivers(queue, queue', {}, {<<d, NullTransaction>>})
  BY NewMessages, InsertDelivers DEF TransactionNone, StayAwake, TypeOK, Thread
<1>2. /\ g_cs = d /\ at # "CONNECT" /\ Leave
      /\ UNCHANGED <<route, fresh, gate, group, fault>>
  BY DEF TransactionNone, Runs, routeVars, chainVars
<1>3. NoNullRoute'
  BY <1>2 DEF GossipInv, NoNullRoute
<1>4. /\ NullTransaction.step # "CONNECT" /\ Told(NullTransaction)
      /\ \A h \in Heavy : Understood(h, NullTransaction)
  BY DEF NullTransaction, Transaction, Told, Understood
<1>. QED  BY <1>1, <1>2, <1>3, <1>4, CalmCall

LEMMA TransactionIssueGossip ==
    ASSUME TypeOK, GossipInv, NEW d \in Device, TransactionIssue(d)
    PROVE  GossipInv'
<1>. DEFINE n == g_index + 1
<1>1. n \in TxIndex /\ Src(n) = d
  <2>1. Len(Deals) \in Nat
    BY LayerAssumption, LenProperties
  <2>. QED  BY <2>1 DEF TransactionIssue, MyDeal, TypeOK, TxIndex
<1>2. d \in Thread /\ Heavy \subseteq Thread
  BY LayerAssumption DEF Thread, Device, Heavy
<1>3. Transaction(n) \in Message /\ NullTransaction \in Message
  BY <1>1, NewMessages
<1>4. /\ g_cs = d /\ at # "CONNECT" /\ Leave
      /\ UNCHANGED <<route, fresh, gate, group, fault>>
  BY DEF TransactionIssue, Runs, routeVars, chainVars
<1>5. NoNullRoute'
  BY <1>4 DEF GossipInv, NoNullRoute
<1>6. /\ NullTransaction.step # "CONNECT" /\ Told(NullTransaction)
      /\ \A h \in Heavy : Understood(h, NullTransaction)
  BY DEF NullTransaction, Transaction, Told, Understood
<1>7. Transaction(n).step # "CONNECT" /\ Told(Transaction(n))
  BY DEF Transaction, Told
<1>8. \A h \in Heavy : Hears(h, d) => Understood(h, Transaction(n))
  BY <1>1 DEF Transaction, Understood
<1>9. CASE d \in Heavy /\ queue' = QueueInsert(queue, d, Transaction(n))
  <2>1. Delivers(queue, queue', {}, {<<d, Transaction(n)>>})
    BY <1>2, <1>3, <1>9, InsertDelivers DEF TypeOK
  <2>2. Hears(d, d)
    BY DEF Hears, Known
  <2>. QED  BY <1>4, <1>5, <1>7, <1>8, <2>1, <2>2, CalmCall
<1>10. CASE /\ gate[d] # Nobody /\ d \in Light
            /\ queue' = QueueInsert(QueueInsert(queue, d, NullTransaction),
                                    gate[d], Transaction(n))
  <2>. DEFINE q == QueueInsert(queue, d, NullTransaction)
              g == gate[d]
  <2>1. g \in Heavy /\ g \in route[d]
    BY <1>10 DEF TypeOK, GossipInv, GateInRoute
  <2>2. Delivers(queue, q, {}, {<<d, NullTransaction>>}) /\ q \in [Thread -> Seq(Message)]
    BY <1>2, <1>3, InsertDelivers, QueueInsertProperties DEF TypeOK
  <2>3. queue' = QueueInsert(q, g, Transaction(n))
    BY <1>10
  <2>. HIDE DEF q, g
  <2>4. Delivers(q, queue', {}, {<<g, Transaction(n)>>})
    BY <1>2, <1>3, <2>1, <2>2, <2>3, InsertDelivers
  <2>5. Delivers(queue, queue', {} \cup {},
                 {<<d, NullTransaction>>} \cup {<<g, Transaction(n)>>})
    BY <2>2, <2>4, DeliversTwice
  <2>6. Hears(g, d)
    BY <1>4, <2>1, RouteHears DEF Known
  <2>. QED  BY <1>4, <1>5, <1>6, <1>7, <1>8, <2>1, <2>5, <2>6, CalmCall
<1>11. CASE StayAwake(d)
  <2>1. Delivers(queue, queue', {}, {<<d, NullTransaction>>})
    BY <1>2, <1>3, <1>11, InsertDelivers DEF TypeOK, StayAwake
  <2>. QED  BY <1>4, <1>5, <1>6, <2>1, CalmCall
<1>. QED  BY <1>9, <1>10, <1>11 DEF TransactionIssue

LEMMA LedgerRecvGossip ==
    ASSUME TypeOK, GossipInv, NEW d \in Device, LedgerRecv(d)
    PROVE  GossipInv'
<1>0. d \in Thread /\ Device \subseteq Thread
  BY DEF Thread
<1>1. PICK i \in DOMAIN queue[d] : LedgerRecv(d)!1!(i)
  BY DEF LedgerRecv
<1>. DEFINE m == queue[d][i]
<1>2. m.step = "LEDGER" /\ g_cs = d /\ at # "CONNECT"
  BY <1>1 DEF DeviceTakes, IsNext, Runs
<1>3. m \in Message /\ m.device \in Device
  BY <1>0, <1>2, QueueTypes, MessageTypes
<1>4. UNCHANGED <<route, fresh, gate, group, fault, g_cs, at>>
  BY DEF LedgerRecv, callVars, routeVars, chainVars
<1>5. NoNullRoute'
  BY <1>4 DEF GossipInv, NoNullRoute
<1>6. CASE queue' = QueueDelete(queue, d, i)
  <2>1. Delivers(queue, queue', {<<d, m>>}, {})
    BY <1>0, <1>6, DeleteDelivers DEF TypeOK
  <2>. QED  BY <1>2, <1>4, <1>5, <2>1, CalmCall
<1>7. CASE /\ m.device \in Light
           /\ queue' = QueueInsert(QueueDelete(queue, d, i), m.device, m)
  <2>1. Delivers(queue, queue', {<<d, m>>}, {<<m.device, m>>})
    BY <1>0, <1>3, <1>7, ForwardDelivers
  <2>2. m.device \notin Heavy /\ m.device # Main
    BY <1>3, <1>7, NoDevice DEF Light
  <2>. QED  BY <1>2, <1>4, <1>5, <2>1, <2>2, CalmCall
<1>. QED  BY <1>1, <1>6, <1>7

LEMMA LedgerUnknownGossip ==
    ASSUME TypeOK, GossipInv, NEW d \in Device, LedgerUnknown(d)
    PROVE  FALSE
<1>0. d \in Thread
  BY DEF Thread
<1>1. PICK i \in DOMAIN queue[d] : LedgerUnknown(d)!1!(i)
  BY DEF LedgerUnknown
<1>2. queue[d][i].step = "LEDGER" /\ g_cs = d /\ at # "CONNECT" /\ d \in Heavy
  BY <1>1 DEF DeviceTakes, IsNext, Runs
<1>3. queue[d][i] \in ToSet(queue[d])
  BY <1>0, ToSetMember DEF TypeOK
<1>4. Hears(d, queue[d][i].device)
  BY <1>2, <1>3 DEF GossipInv, AddresseeHears
<1>. QED  BY <1>1, <1>2, <1>4, KnowsWhatItHears

LEMMA LedgerSendGossip ==
    ASSUME TypeOK, GossipInv, NEW d \in Device, LedgerSend(d)
    PROVE  GossipInv'
<1>1. Delivers(queue, queue', {}, {<<d, EmptyIndex(d)>>})
  BY NewEmptyIndex, InsertDelivers DEF LedgerSend, TypeOK, Thread, Message
<1>2. /\ g_cs = d /\ at # "CONNECT" /\ Leave
      /\ UNCHANGED <<route, fresh, gate, group, fault>>
  BY DEF LedgerSend, Runs, routeVars, chainVars
<1>3. NoNullRoute'
  BY <1>2 DEF GossipInv, NoNullRoute
<1>4. ~UNCHANGED g_cs /\ d # Main
  BY <1>2, NoDevice DEF Leave
<1>5. \A h \in Heavy : Understood(h, EmptyIndex(d))
  BY DEF EmptyIndex, Understood
<1>. QED  BY <1>1, <1>2, <1>3, <1>4, <1>5, CalmCall

\* connect_recv: what the device heard of, it knows now.
LEMMA ConnectRecvGossip ==
    ASSUME TypeOK, GossipInv, NEW d \in Device, ConnectRecv(d)
    PROVE  GossipInv'
<1>0. d \in Thread /\ Main \in Thread /\ d # Main /\ Device \subseteq Thread
  BY NoDevice DEF Thread
<1>1. PICK i \in DOMAIN queue[d] : ConnectRecv(d)!2!(i)
  BY DEF ConnectRecv
<1>. DEFINE m == queue[d][i]
            new == m.index \ Known(d)
<1>2. /\ m.step = "CONNECT" /\ g_cs = d /\ at = "CONNECT"
      /\ UNCHANGED <<g_cs, at, group, fault>>
      /\ route' = [route EXCEPT ![d] = route[d] \cup new]
      /\ fresh' = [fresh EXCEPT ![d] = fresh[d] \cup new]
  BY <1>1 DEF ConnectRecv, IsNext, Runs, callVars, chainVars
<1>3. Delivers(queue, queue', {<<d, m>>}, {})
  BY <1>0, <1>1, DeleteDelivers DEF TypeOK
<1>4. \A e \in Device : Known(e) \subseteq Known(e)'
  BY <1>2 DEF Known, TypeOK
<1>5. m.index \subseteq Known(d)'
  BY <1>2 DEF Known, TypeOK
<1>6. ASSUME NEW h \in Device, NEW x, Hears(h, x) PROVE Hears(h, x)'
  <2>1. CASE x \in Known(h)
    BY <1>4, <2>1 DEF Hears
  <2>2. ASSUME NEW c \in ToSet(queue[h]), c.step = "CONNECT", x \in c.index
        PROVE  Hears(h, x)'
    <3>1. CASE c \in ToSet(queue'[h])
      BY <2>2, <3>1 DEF Hears
    <3>2. CASE c \notin ToSet(queue'[h])
      <4>1. h = d /\ c = m
        BY <1>0, <1>3, <2>2, <3>2 DEF Delivers
      <4>. QED  BY <1>5, <2>2, <4>1 DEF Hears
    <3>. QED  BY <3>1, <3>2
  <2>. QED  BY <1>6, <2>1, <2>2 DEF Hears
<1>7. \A t \in Thread : ToSet(queue'[t]) \subseteq ToSet(queue[t])
  BY <1>3 DEF Delivers
<1>8. NoNullRoute'
  BY <1>2 DEF GossipInv, NoNullRoute
<1>9. FreshOnlyInCall'
  BY <1>2 DEF GossipInv, FreshOnlyInCall, TypeOK, Known
<1>10. RouteShared'
  <2>1. ASSUME NEW e \in Device, NEW r \in route'[e] \ fresh'[e],
               NEW x \in Known(e)' \ fresh'[e]
        PROVE  Hears(r, x)'
    <3>1. r \in route[e] \ fresh[e] /\ x \in Known(e) \ fresh[e]
      BY <1>2 DEF Known, TypeOK
    <3>2. r \in Device
      BY <3>1 DEF TypeOK
    <3>. QED  BY <1>6, <3>1, <3>2 DEF GossipInv, RouteShared
  <2>. QED  BY <2>1 DEF RouteShared
<1>11. ConnectsOvertake'
  <2>1. \A e \in Device : ConnectsFirst(queue'[e])
    BY <1>0, <1>3 DEF Delivers, GossipInv, ConnectsOvertake
  <2>. QED  BY <1>2, <2>1 DEF ConnectsOvertake
<1>12. GateInRoute'
  <2>1. \/ gate' = gate
        \/ \E h \in new : gate' = [gate EXCEPT ![d] = h]
    BY <1>1
  <2>. QED  BY <1>2, <2>1 DEF GossipInv, GateInRoute, TypeOK, Light
<1>13. AddresseeHears'
  BY <1>0, <1>6, <1>7, NoDevice DEF GossipInv, AddresseeHears
<1>14. DagHears'
  BY <1>0, <1>2, <1>6, <1>7, NoDevice DEF GossipInv, DagHears
<1>. QED
  BY <1>8, <1>9, <1>10, <1>11, <1>12, <1>13, <1>14 DEF GossipInv

\* connect_send: the whole route is told about the whole route.
LEMMA ConnectSendGossip ==
    ASSUME TypeOK, GossipInv, NEW d \in Device, ConnectSend(d)
    PROVE  GossipInv'
<1>. DEFINE seen == near[d] \ Known(d)
            known == route[d] \cup seen
            quoted == [l \in Light |-> IF l \in seen THEN token[l]
                                       ELSE copy[d][l]]
            to == known \cup (IF d \in Heavy THEN {Main} ELSE {})
            index == Index(d, known, quoted)
            silent == fresh[d] \cup seen = {}
<1>0. d \in Thread /\ Main \in Thread /\ d # Main /\ Device \subseteq Thread
  BY NoDevice DEF Thread
<1>1. /\ g_cs = d /\ at = "CONNECT" /\ Leave
      /\ NoneLeft(queue[d], 1, "CONNECT")
      /\ route' = [route EXCEPT ![d] = known]
      /\ fresh' = [fresh EXCEPT ![d] = {}]
      /\ UNCHANGED <<group, fault>>
      /\ gate' = gate \/ \E h \in seen : gate' = [gate EXCEPT ![d] = h]
      /\ silent => queue' = queue
      /\ ~silent => queue' = [t \in Thread |->
                 CASE t = d -> Enqueue(queue[d], NullTransaction)
                   [] t # d /\ t \in to -> Enqueue(queue[t], index)
                   [] OTHER -> queue[t]]
  BY DEF ConnectSend, Runs, chainVars
<1>2. known \in SUBSET Device /\ quoted \in [Light -> Amount] /\ d \notin known
  BY DEF TypeOK, Light, GossipInv, FreshOnlyInCall, Known
<1>3. index \in Message /\ index.step = "CONNECT" /\ index.index = {d} \cup known
  <2>1. index \in ConnectMsg
    BY <1>2, NewIndex
  <2>. QED  BY <2>1 DEF Index, Message
<1>4. route[d] \subseteq known
  OBVIOUS
<1>5. \A x \in {d} \cup known : x \in Known(d)'
  BY <1>1 DEF Known, TypeOK
<1>7. silent => known = route[d] /\ fresh[d] = {}
  OBVIOUS
<1>8. to \subseteq Thread /\ known \subseteq to /\ (Main \in to <=> d \in Heavy)
  BY <1>0, <1>2, NoDevice
<1>. HIDE DEF known, quoted, to, index, silent
<1>9. ASSUME NEW t \in Thread
      PROVE  /\ \A c \in ToSet(queue'[t]) :
                   \/ c \in ToSet(queue[t])
                   \/ c = NullTransaction
                   \/ c = index /\ ~silent /\ t \in to /\ t # d
             /\ ToSet(queue[t]) \subseteq ToSet(queue'[t])
             /\ ~silent /\ t \in to /\ t # d => index \in ToSet(queue'[t])
             /\ ConnectsFirst(queue[t]) => ConnectsFirst(queue'[t])
  <2>0. queue[t] \in Seq(Message)
    BY DEF TypeOK
  <2>1. CASE silent
    BY <1>1, <2>1
  <2>2. CASE ~silent /\ t = d
    <3>1. queue'[t] = Enqueue(queue[t], NullTransaction)
      BY <1>1, <2>2
    <3>2. /\ ToSet(queue'[t]) = ToSet(queue[t]) \cup {NullTransaction}
          /\ ConnectsFirst(queue[t]) => ConnectsFirst(queue'[t])
      BY <2>0, <3>1, NewMessages, ToSetEnqueue, EnqueueConnectsFirst
    <3>. QED  BY <2>2, <3>2
  <2>3. CASE ~silent /\ t # d /\ t \in to
    <3>1. queue'[t] = Enqueue(queue[t], index)
      BY <1>1, <2>3
    <3>2. /\ ToSet(queue'[t]) = ToSet(queue[t]) \cup {index}
          /\ ConnectsFirst(queue[t]) => ConnectsFirst(queue'[t])
      BY <1>3, <2>0, <3>1, ToSetEnqueue, EnqueueConnectsFirst
    <3>. QED  BY <2>3, <3>2
  <2>4. CASE ~silent /\ t # d /\ t \notin to
    <3>1. queue'[t] = queue[t]
      BY <1>1, <2>4
    <3>. QED  BY <2>4, <3>1
  <2>. QED  BY <2>1, <2>2, <2>3, <2>4
<1>10. ASSUME NEW h \in Device, NEW x, Hears(h, x) PROVE Hears(h, x)'
  <2>1. CASE x \in Known(h)
    BY <1>1, <1>4, <2>1 DEF Hears, Known, TypeOK
  <2>2. ASSUME NEW c \in ToSet(queue[h]), c.step = "CONNECT", x \in c.index
        PROVE  Hears(h, x)'
    BY <1>0, <1>9, <2>2 DEF Hears
  <2>. QED  BY <1>10, <2>1, <2>2 DEF Hears
\* Whoever is told, and d itself, hears of the whole index.
<1>11. ASSUME ~silent \/ (fresh[d] = {} /\ known = route[d]),
              NEW h \in {d} \cup known, NEW x \in {d} \cup known
       PROVE  Hears(h, x)'
  <2>1. CASE h = d
    BY <1>5, <2>1 DEF Hears
  <2>2. CASE h # d /\ ~silent
    <3>1. h \in to /\ h \in Thread
      BY <1>8, <2>2
    <3>2. index \in ToSet(queue'[h])
      BY <1>9, <2>2, <3>1
    <3>. QED  BY <1>3, <3>2 DEF Hears
  <2>3. CASE h # d /\ fresh[d] = {} /\ known = route[d]
    <3>1. h \in route[d] \ fresh[d] /\ x \in Known(d) \ fresh[d] /\ h \in Device
      BY <1>2, <2>3 DEF Known
    <3>. QED  BY <1>10, <3>1 DEF GossipInv, RouteShared
  <2>. QED  BY <1>11, <2>1, <2>2, <2>3
<1>12. NoNullRoute'
  BY <1>1 DEF GossipInv, NoNullRoute
<1>13. FreshOnlyInCall'
  BY <1>1, <1>2 DEF GossipInv, FreshOnlyInCall, TypeOK
<1>14. RouteShared'
  <2>1. ASSUME NEW e \in Device, NEW r \in route'[e] \ fresh'[e],
               NEW x \in Known(e)' \ fresh'[e]
        PROVE  Hears(r, x)'
    <3>1. CASE e = d
      <4>1. r \in known /\ x \in {d} \cup known
        BY <1>1, <3>1 DEF Known, TypeOK
      <4>2. r \in {d} \cup known /\ (~silent \/ (fresh[d] = {} /\ known = route[d]))
        BY <1>7, <4>1
      <4>. QED  BY <1>11, <4>1, <4>2, Zenon
    <3>2. CASE e # d
      <4>1. r \in route[e] \ fresh[e] /\ x \in Known(e) \ fresh[e] /\ r \in Device
        BY <1>1, <3>2 DEF Known, TypeOK
      <4>. QED  BY <1>10, <4>1 DEF GossipInv, RouteShared
    <3>. QED  BY <3>1, <3>2
  <2>. QED  BY <2>1 DEF RouteShared
<1>15. ConnectsOvertake'
  BY <1>0, <1>1, <1>9, NoDevice DEF GossipInv, ConnectsOvertake, Leave
<1>16. GateInRoute'
  <2>1. seen \subseteq known
    BY DEF known
  <2>. HIDE DEF seen
  <2>. QED  BY <1>1, <1>4, <2>1 DEF GossipInv, GateInRoute, TypeOK, Light
<1>17. AddresseeHears'
  <2>1. ASSUME NEW h \in Heavy, NEW m \in ToSet(queue'[h])
        PROVE  Understood(h, m)'
    <3>1. h \in Device
      BY NoDevice
    <3>2. CASE m \in ToSet(queue[h])
      BY <1>10, <3>1, <3>2 DEF GossipInv, AddresseeHears, Understood
    <3>3. CASE m = NullTransaction \/ m = index
      BY <1>3, <3>3 DEF NullTransaction, Transaction, Understood
    <3>. QED  BY <1>0, <1>9, <3>1, <3>2, <3>3
  <2>. QED  BY <2>1 DEF AddresseeHears, Understood
<1>18. DagHears'
  <2>1. \A h \in Heavy, x \in Device : h \in group'[x] => Hears(h, x)'
    BY <1>1, <1>10, NoDevice DEF GossipInv, DagHears
  <2>2. ASSUME NEW m \in ToSet(queue'[Main]), m.step = "CONNECT",
               NEW h \in Heavy \cap m.index, NEW x \in m.index
        PROVE  Hears(h, x)'
    <3>1. CASE m \in ToSet(queue[Main])
      BY <1>10, <2>2, <3>1, NoDevice DEF GossipInv, DagHears
    <3>2. CASE m = NullTransaction
      BY <2>2, <3>2 DEF NullTransaction, Transaction
    <3>3. CASE m = index /\ ~silent
      <4>1. h \in {d} \cup known /\ x \in {d} \cup known
        BY <1>3, <2>2, <3>3
      <4>. QED  BY <1>11, <3>3, <4>1, Zenon
    <3>. QED  BY <1>0, <1>9, <3>1, <3>2, <3>3
  <2>. QED  BY <2>1, <2>2 DEF DagHears
<1>. QED
  BY <1>12, <1>13, <1>14, <1>15, <1>16, <1>17, <1>18 DEF GossipInv

LEMMA DeviceCallGossip ==
    ASSUME TypeOK, GossipInv, NEW d \in Device, DeviceCall(d)
    PROVE  GossipInv'
BY ConnectRecvGossip, ConnectSendGossip, TransactionDropGossip,
   TransactionRecvGossip, TransactionNoneGossip, TransactionIssueGossip,
   LedgerRecvGossip, LedgerUnknownGossip, LedgerSendGossip
DEF DeviceCall

-----------------------------------------------------------------------------
(* The mainchain's steps *)

LEMMA DagsStay ==
    ASSUME GossipInv, group' = group
    PROVE  \A h \in Heavy, x \in Device : h \in group'[x] => Hears(h, x)
BY DEF GossipInv, DagHears

LEMMA NoFault ==
    ASSUME GossipInv, fault' = fault \/ fault' \in {"list", "dangling"}
    PROVE  NoNullRoute'
BY DEF GossipInv, NoNullRoute

\* A step of the mainchain that sends nothing.
LEMMA MainSilent ==
    ASSUME TypeOK, GossipInv, g_cs \notin Device, g_cs' \notin Device,
           UNCHANGED <<route, fresh, gate, group>>,
           fault' = fault \/ fault' \in {"list", "dangling"},
           \/ UNCHANGED queue
           \/ \E i \in DOMAIN queue[Main] : queue' = QueueDelete(queue, Main, i)
    PROVE  GossipInv'
<1>1. CASE UNCHANGED queue
  <2>1. Delivers(queue, queue', {}, {})
    BY <1>1, NothingDelivers
  <2>. QED  BY <2>1, DagsStay, NoFault, CalmMain
<1>2. ASSUME NEW i \in DOMAIN queue[Main], queue' = QueueDelete(queue, Main, i)
      PROVE  GossipInv'
  <2>1. Delivers(queue, queue', {<<Main, queue[Main][i]>>}, {})
    BY <1>2, DeleteDelivers DEF TypeOK, Thread
  <2>. QED  BY <2>1, DagsStay, NoFault, CalmMain
<1>. QED  BY <1>1, <1>2

\* A call of the mainchain that ends with an empty TRANSACTION to itself.
LEMMA MainAwake ==
    ASSUME TypeOK, GossipInv, g_cs \notin Device, g_cs' \notin Device,
           UNCHANGED <<route, fresh, gate, group, fault>>,
           queue' = QueueInsert(queue, Main, NullTransaction)
    PROVE  GossipInv'
<1>1. Delivers(queue, queue', {}, {<<Main, NullTransaction>>})
  BY NewMessages, InsertDelivers DEF TypeOK, Thread
<1>2. Told(NullTransaction) /\ Main \notin Heavy
  BY NoDevice DEF Told, NullTransaction, Transaction
<1>. QED  BY <1>1, <1>2, DagsStay, NoFault, CalmMain

LEMMA MainConnectRecvGossip ==
    ASSUME Stray = {}, TypeOK, GossipInv, MainConnectRecv
    PROVE  GossipInv'
<1>0. Main \in Thread /\ Main \notin Device
  BY NoDevice DEF Thread
<1>1. PICK i \in DOMAIN queue[Main] : MainConnectRecv!2!(i)
  BY DEF MainConnectRecv
<1>. DEFINE m == queue[Main][i]
<1>2. m.step = "CONNECT" /\ m \in ToSet(queue[Main])
  BY <1>0, <1>1, ToSetMember DEF IsNext, TypeOK
<1>3. Delivers(queue, queue', {<<Main, m>>}, {})
  BY <1>0, <1>1, DeleteDelivers DEF TypeOK
<1>4. UNCHANGED <<route, fresh, gate, fault, g_cs>> /\ g_cs = Main
  BY DEF MainConnectRecv, MainRuns, routeVars
<1>5. \A h \in Heavy, x \in Device : h \in group'[x] => Hears(h, x)
  <2>1. CASE group' = group
    BY <2>1, DagsStay
  <2>2. CASE group' # group
    <3>1. FirstStray = {}
      BY DEF FirstStray
    <3>2. group' = [x \in Device |-> IF x \in m.index THEN m.index
                                     ELSE group[x] \ m.index]
      BY <1>1, <2>2, <3>1
    <3>. QED  BY <1>2, <3>2 DEF GossipInv, DagHears
  <2>. QED  BY <2>1, <2>2
<1>. QED  BY <1>0, <1>3, <1>4, <1>5, NoFault, CalmMain

\* A notice about device x that goes to a heavy device is understood there.
LEMMA NoticeUnderstood ==
    ASSUME TypeOK, GossipInv, NEW x \in Device, NEW n \in TxIndex, NEW s
    PROVE  /\ HeavyOf(x) \in Heavy => Understood(HeavyOf(x), Ledger(s, n, x))
           /\ Told(Ledger(s, n, x))
<1>1. HeavyOf(x) \in Heavy => Hears(HeavyOf(x), x)
  <2>1. HeavyOf(x) # Main => HeavyOf(x) = x \/ HeavyOf(x) \in group[x]
    BY HeavyOfProperties
  <2>2. Main \notin Heavy /\ Hears(x, x)
    BY NoDevice DEF Hears, Known
  <2>. QED  BY <2>1, <2>2 DEF GossipInv, DagHears
<1>. QED  BY <1>1 DEF Understood, Told, Ledger

LEMMA MainTransactionFailGossip ==
    ASSUME TypeOK, GossipInv, MainTransactionFail
    PROVE  GossipInv'
<1>1. PICK i \in DOMAIN queue[Main], trunk \in dag, branch \in dag :
           MainTransactionFail!1!(i, trunk, branch)
  BY DEF MainTransactionFail
<1>2. PICK bad \in {trunk, branch} :
        /\ Verify(bad.tx) # "DONE"
        /\ queue' = QueueInsert(QueueDelete(queue, Main, i),
                        HeavyOf(Src(bad.tx)),
                        Ledger(Verify(bad.tx), bad.tx, Src(bad.tx)))
  BY <1>1
<1>. DEFINE x == Src(bad.tx)
            m == Ledger(Verify(bad.tx), bad.tx, x)
<1>3. bad.tx \in TxIndex
  BY DEF TypeOK, Node
<1>4. x \in Device /\ Verify(bad.tx) \in Status
  BY <1>2, <1>3, DealTypes DEF Verify, Status
<1>5. Delivers(queue, queue', {<<Main, queue[Main][i]>>}, {<<HeavyOf(x), m>>})
  <2>1. m \in Message /\ HeavyOf(x) \in Thread /\ Main \in Thread
    BY <1>3, <1>4, NewMessages, HeavyOfThread DEF Thread
  <2>. QED  BY <1>2, <2>1, ForwardDelivers
<1>6. (HeavyOf(x) \in Heavy => Understood(HeavyOf(x), m)) /\ Told(m)
  BY <1>3, <1>4, NoticeUnderstood
<1>7. /\ UNCHANGED <<route, fresh, gate, group, fault, g_cs>> /\ g_cs = Main
      /\ Main \notin Device
  BY NoDevice DEF MainTransactionFail, MainApproves, MainTakes, MainRuns, routeVars
<1>. HIDE DEF m
<1>. QED  BY <1>5, <1>6, <1>7, DagsStay, NoFault, CalmMain

\* The two notices of a confirmed deal, and where they go.
Notified(n) == {<<HeavyOf(Src(n)), Ledger("SRC", n, Src(n))>>,
                <<HeavyOf(Dst(n)), Ledger("DST", n, Dst(n))>>}

LEMMA NotifyDelivers ==
    ASSUME TypeOK, NEW q \in [Thread -> Seq(Message)], NEW n \in TxIndex
    PROVE  Delivers(q, Notify(q, n), {}, Notified(n))
<1>. DEFINE s == HeavyOf(Src(n))
            d == HeavyOf(Dst(n))
            ms == Ledger("SRC", n, Src(n))
            md == Ledger("DST", n, Dst(n))
            r == QueueInsert(q, s, ms)
<1>1. Src(n) \in Device /\ Dst(n) \in Device
  BY DealTypes
<1>2. s \in Thread /\ d \in Thread /\ ms \in Message /\ md \in Message
  BY <1>1, HeavyOfThread, NewMessages DEF Status
<1>3. Notify(q, n) = QueueInsert(r, d, md) /\ Notified(n) = {<<s, ms>>, <<d, md>>}
  BY DEF Notify, Notified
<1>. HIDE DEF s, d, ms, md
<1>4. Delivers(q, r, {}, {<<s, ms>>}) /\ r \in [Thread -> Seq(Message)]
  BY <1>2, InsertDelivers, QueueInsertProperties
<1>. HIDE DEF r
<1>5. Delivers(r, QueueInsert(r, d, md), {}, {<<d, md>>})
  BY <1>2, <1>4, InsertDelivers
<1>6. Delivers(q, QueueInsert(r, d, md), {} \cup {}, {<<s, ms>>} \cup {<<d, md>>})
  BY <1>4, <1>5, DeliversTwice
<1>7. {} \cup {} = {} /\ {<<s, ms>>} \cup {<<d, md>>} = {<<s, ms>>, <<d, md>>}
  OBVIOUS
<1>. QED  BY <1>3, <1>6, <1>7

LEMMA NotifiedUnderstood ==
    ASSUME TypeOK, GossipInv, NEW n \in TxIndex
    PROVE  /\ \A h \in Heavy : \A m : <<h, m>> \in Notified(n) => Understood(h, m)
           /\ \A m : <<Main, m>> \in Notified(n) => Told(m)
<1>1. Src(n) \in Device /\ Dst(n) \in Device
  BY DealTypes
<1>. QED  BY <1>1, NoticeUnderstood DEF Notified

LEMMA MainTransactionAttachGossip ==
    ASSUME TypeOK, GossipInv, MainTransactionAttach
    PROVE  GossipInv'
<1>1. PICK i \in DOMAIN queue[Main], trunk \in dag, branch \in dag :
           MainTransactionAttach!1!(i, trunk, branch)
  BY DEF MainTransactionAttach
<1>. DEFINE rest == QueueDelete(queue, Main, i)
            q1 == IF Unconfirmed(trunk) THEN Notify(rest, trunk.tx) ELSE rest
            new == Notified(trunk.tx) \cup Notified(branch.tx)
<1>2. trunk.tx \in TxIndex /\ branch.tx \in TxIndex
  BY DEF TypeOK, Node
<1>3. queue' = q1 \/ queue' = Notify(q1, branch.tx)
  BY <1>1
<1>4. /\ rest \in [Thread -> Seq(Message)]
      /\ Delivers(queue, rest, {<<Main, queue[Main][i]>>}, {})
  BY QueueTypes, DeleteDelivers DEF TypeOK, Thread
<1>. HIDE DEF rest
<1>5. /\ q1 \in [Thread -> Seq(Message)]
      /\ Delivers(rest, q1, {}, Notified(trunk.tx))
  <2>1. CASE Unconfirmed(trunk)
    BY <1>2, <1>4, <2>1, NotifyType, NotifyDelivers
  <2>2. CASE ~Unconfirmed(trunk)
    BY <1>4, <2>2 DEF Delivers
  <2>. QED  BY <2>1, <2>2
<1>. HIDE DEF q1
<1>6. Delivers(q1, queue', {}, Notified(branch.tx))
  <2>1. CASE queue' = q1
    BY <2>1 DEF Delivers
  <2>2. CASE queue' = Notify(q1, branch.tx)
    BY <1>2, <1>5, <2>2, NotifyDelivers
  <2>. QED  BY <1>3, <2>1, <2>2
<1>7. Delivers(queue, queue', {<<Main, queue[Main][i]>>}, new)
  <2>1. Delivers(rest, queue', {} \cup {}, new)
    BY <1>5, <1>6, DeliversTwice
  <2>2. Delivers(queue, queue', {<<Main, queue[Main][i]>>} \cup ({} \cup {}), {} \cup new)
    BY <1>4, <2>1, DeliversTwice
  <2>. HIDE DEF new
  <2>3. {<<Main, queue[Main][i]>>} \cup ({} \cup {}) = {<<Main, queue[Main][i]>>}
        /\ {} \cup new = new
    OBVIOUS
  <2>. QED  BY <2>2, <2>3
<1>8. /\ \A h \in Heavy : \A m : <<h, m>> \in new => Understood(h, m)
      /\ \A m : <<Main, m>> \in new => Told(m)
  BY <1>2, NotifiedUnderstood
<1>9. /\ UNCHANGED <<route, fresh, gate, group, fault, g_cs>> /\ g_cs = Main
      /\ Main \notin Device
  BY NoDevice
  DEF MainTransactionAttach, MainApproves, MainTakes, MainRuns, routeVars
<1>. HIDE DEF new
<1>. QED  BY <1>7, <1>8, <1>9, DagsStay, NoFault, CalmMain

LEMMA MainCallGossip ==
    ASSUME Stray = {}, TypeOK, GossipInv, MainCall
    PROVE  GossipInv'
<1>0. Main \notin Device /\ Nobody \notin Device
  BY NoDevice
<1>1. CASE MainConnectRecv
  BY <1>1, MainConnectRecvGossip
<1>2. CASE MainConnectSend
  BY <1>0, <1>2, MainAwake DEF MainConnectSend, MainRuns, MainLeaves, routeVars, chainVars
<1>3. CASE MainTransactionDrop
  BY <1>0, <1>3, MainSilent
  DEF MainTransactionDrop, MainTakes, MainRuns, Taken, routeVars, chainVars
<1>4. CASE MainTransactionReuse
  BY <1>0, <1>4, MainSilent
  DEF MainTransactionReuse, MainTakes, MainRuns, Taken, routeVars
<1>5. CASE MainTransactionGenesis
  BY <1>0, <1>5, MainSilent
  DEF MainTransactionGenesis, MainTakes, MainRuns, Taken, routeVars
<1>6. CASE MainTransactionDefer
  BY <1>0, <1>6, MainSilent
  DEF MainTransactionDefer, MainApproves, MainTakes, MainRuns, routeVars, chainVars
<1>7. CASE MainTransactionFail
  BY <1>7, MainTransactionFailGossip
<1>8. CASE MainTransactionAttach
  BY <1>8, MainTransactionAttachGossip
<1>9. CASE MainTransactionSend
  BY <1>0, <1>9, MainAwake
  DEF MainTransactionSend, MainRuns, MainLeaves, routeVars, chainVars
<1>10. CASE MainLedgerSkip
  BY <1>0, <1>10, MainSilent
  DEF MainLedgerSkip, MainTakes, MainRuns, routeVars, chainVars
<1>11. CASE MainLedgerFault
  BY <1>0, <1>11, MainSilent
  DEF MainLedgerFault, MainTakes, MainRuns, callVars, routeVars, chainVars
<1>12. CASE MainLedgerEnd
  BY <1>0, <1>12, MainSilent
  DEF MainLedgerEnd, MainRuns, MainLeaves, routeVars, chainVars
<1>. QED
  BY <1>1, <1>2, <1>3, <1>4, <1>5, <1>6, <1>7, <1>8, <1>9, <1>10, <1>11, <1>12
  DEF MainCall

LEMMA ProcessMainchainGossip ==
    ASSUME TypeOK, GossipInv, ProcessMainchain
    PROVE  GossipInv'
BY NoDevice, MainSilent DEF ProcessMainchain, routeVars, chainVars

-----------------------------------------------------------------------------
(* main() *)

\* The lost messages were the mainchain's: no device misses a CONNECT.
LEMMA StartMainchainGossip ==
    ASSUME TypeOK, GossipInv, StartMainchain
    PROVE  GossipInv'
<1>0. Main \notin Device /\ Device \subseteq Thread
  BY NoDevice DEF Thread
<1>. DEFINE lost == {<<Main, m>> : m \in ToSet(queue[Main])}
<1>1. Delivers(queue, queue', lost, {})
  <2>1. ASSUME NEW t \in Thread
        PROVE  /\ \A m \in ToSet(queue'[t]) : m \in ToSet(queue[t])
               /\ \A m \in ToSet(queue[t]) :
                     m \in ToSet(queue'[t]) \/ <<t, m>> \in lost
               /\ ConnectsFirst(queue[t]) => ConnectsFirst(queue'[t])
    <3>1. CASE t = Main
      <4>1. queue'[t] = <<>>
        BY <3>1 DEF StartMainchain, TypeOK
      <4>2. ToSet(<<>>) = {} /\ ConnectsFirst(<<>>)
        BY DEF ToSet, ConnectsFirst
      <4>. QED  BY <3>1, <4>1, <4>2
    <3>2. CASE t # Main
      BY <3>2 DEF StartMainchain, TypeOK
    <3>. QED  BY <3>1, <3>2
  <2>. QED  BY <2>1 DEF Delivers
<1>2. /\ UNCHANGED <<route, fresh, gate, group, fault, g_cs, at>>
      /\ \A d \in Device : queue'[d] = queue[d]
  BY <1>0 DEF StartMainchain, callVars, routeVars, chainVars, TypeOK
<1>3. \A d \in Device : \A m : <<d, m>> \in lost => m.step # "CONNECT"
  BY <1>0
<1>4. \A d \in Device : g_cs' = d /\ at' # "CONNECT" =>
          \A m \in ToSet(queue'[d]) : m.step # "CONNECT"
  BY <1>2 DEF GossipInv, ConnectsOvertake
<1>5. \A d \in Device : fresh[d] # {} => g_cs' = d /\ at' = "CONNECT"
  BY <1>2 DEF GossipInv, FreshOnlyInCall
<1>. HIDE DEF lost
<1>. QED  BY <1>1, <1>2, <1>3, <1>4, <1>5, DagsStay, NoFault, CalmStep

LEMMA TimerGossip ==
    ASSUME TypeOK, GossipInv, Timer
    PROVE  GossipInv'
BY NoDevice, MainSilent DEF Timer, callVars, routeVars, chainVars

LEMMA InitGossip == Init => GossipInv
<1>. SUFFICES ASSUME Init PROVE GossipInv
  OBVIOUS
<1>1. NoNullRoute /\ FreshOnlyInCall /\ RouteShared /\ GateInRoute
  BY DEF Init, NoNullRoute, FreshOnlyInCall, RouteShared, GateInRoute
<1>2. \A d \in Device : queue[d] = <<EmptyIndex(d)>>
  BY NoDevice DEF Init, Thread
<1>3. queue[Main] = <<>>
  BY DEF Init, Thread
<1>4. \A d \in Device : ToSet(queue[d]) = {EmptyIndex(d)}
  BY <1>2 DEF ToSet
<1>5. ConnectsOvertake
  BY <1>2, NoDevice DEF Init, ConnectsOvertake, ConnectsFirst
<1>6. AddresseeHears
  BY <1>4, NoDevice DEF AddresseeHears, EmptyIndex
<1>7. DagHears
  BY <1>3 DEF DagHears, Init, ToSet
<1>. QED  BY <1>1, <1>5, <1>6, <1>7 DEF GossipInv

\* However deals, notices and gossip interleave, route_node is never asked for
\* a device it does not find (layer.cpp:32-39), if no uninitialised dag_index
\* happens to read 1 (blockchain.cpp:175-191).
THEOREM GossipCorrect == Stray = {} => (Spec => []GossipInv)
<1>. SUFFICES ASSUME Stray = {} PROVE Spec => []GossipInv
  OBVIOUS
<1>1. Init => GossipInv
  BY InitGossip
<1>2. TypeOK /\ GossipInv /\ [Next]_vars => GossipInv'
  <2>. SUFFICES ASSUME TypeOK, GossipInv, [Next]_vars PROVE GossipInv'
    OBVIOUS
  <2>1. CASE StartMainchain
    BY <2>1, StartMainchainGossip
  <2>2. CASE Timer
    BY <2>2, TimerGossip
  <2>3. CASE ProcessMainchain
    BY <2>3, ProcessMainchainGossip
  <2>4. ASSUME NEW d \in Device, ProcessDevice(d) PROVE GossipInv'
    BY <2>4, ProcessDeviceGossip
  <2>5. CASE MainCall
    BY <2>5, MainCallGossip
  <2>6. ASSUME NEW d \in Device, DeviceCall(d) PROVE GossipInv'
    BY <2>6, DeviceCallGossip
  <2>7. CASE UNCHANGED vars
    BY <2>7
    DEF GossipInv, NoNullRoute, FreshOnlyInCall, RouteShared, ConnectsOvertake,
        GateInRoute, AddresseeHears, DagHears, Hears, Known,
        vars, callVars, routeVars, chainVars
  <2>. QED  BY <2>1, <2>2, <2>3, <2>4, <2>5, <2>6, <2>7 DEF Next, Call
<1>. QED  BY <1>1, <1>2, TypeCorrect, PTL DEF Spec

-----------------------------------------------------------------------------
(* A device with a route never falls asleep, whatever the devices, the     *)
(* deals, the topologies and the stray dag indexes.                        *)

Wakes(d) == \E m \in ToSet(queue[d]) : m.step = "TRANSACTION"

\* The inductive invariant.  Awake itself says nothing about a device inside
\* its own call; but a CONNECT or LEDGER call takes no TRANSACTION, and a
\* TRANSACTION call takes all of them and leaves a new one.
AwakeInv ==
    \A d \in Device :
        /\ fresh[d] # {} => g_cs = d /\ at = "CONNECT"
        /\ route[d] \ fresh[d] # {} /\ ~(g_cs = d /\ at = "TRANSACTION") =>
              Wakes(d)

\* What a device is to do stays in its queue.
Grows(q, r) == \A d \in Device : \A m \in ToSet(q[d]) : m \in ToSet(r[d])

LEMMA GrowsTwice ==
    ASSUME NEW q, NEW r, NEW s, Grows(q, r), Grows(r, s)
    PROVE  Grows(q, s)
BY DEF Grows

\* A step loses only messages that are no device's.
LEMMA DeliversGrows ==
    ASSUME NEW q, NEW r, NEW lost, NEW new, Delivers(q, r, lost, new),
           \A t, m : <<t, m>> \in lost => t \notin Device
    PROVE  Grows(q, r)
BY DEF Delivers, Grows, Thread

LEMMA InsertGrows ==
    ASSUME NEW q \in [Thread -> Seq(Message)], NEW t \in Thread,
           NEW m \in Message
    PROVE  Grows(q, QueueInsert(q, t, m))
BY InsertDelivers, DeliversGrows

LEMMA InsertWakes ==
    ASSUME NEW q \in [Thread -> Seq(Message)], NEW t \in Thread,
           NEW m \in Message
    PROVE  m \in ToSet(QueueInsert(q, t, m)[t])
<1>1. QueueInsert(q, t, m)[t] = Enqueue(q[t], m)
  BY QueueInsertProperties
<1>2. ToSet(Enqueue(q[t], m)) = ToSet(q[t]) \cup {m}
  BY ToSetEnqueue
<1>. QED  BY <1>1, <1>2

LEMMA DeleteMainGrows ==
    ASSUME TypeOK, NEW i \in DOMAIN queue[Main]
    PROVE  Grows(queue, QueueDelete(queue, Main, i))
<1>1. Delivers(queue, QueueDelete(queue, Main, i), {<<Main, queue[Main][i]>>}, {})
  BY DeleteDelivers DEF TypeOK, Thread
<1>. QED  BY <1>1, DeliversGrows, NoDevice

-----------------------------------------------------------------------------
\* A step that takes no device's message and ends no device's call.
LEMMA AwakeKept ==
    ASSUME AwakeInv, UNCHANGED <<route, fresh>>, Grows(queue, queue'),
           \A d \in Device : g_cs = d => UNCHANGED <<g_cs, at>>
    PROVE  AwakeInv'
<1>. SUFFICES ASSUME NEW d \in Device
              PROVE  /\ fresh'[d] # {} => g_cs' = d /\ at' = "CONNECT"
                     /\ /\ route'[d] \ fresh'[d] # {}
                        /\ ~(g_cs' = d /\ at' = "TRANSACTION")
                        => Wakes(d)'
  BY DEF AwakeInv
<1>1. Wakes(d) => Wakes(d)'
  BY DEF Wakes, Grows
<1>2. fresh[d] # {} => g_cs = d /\ at = "CONNECT"
  BY DEF AwakeInv
<1>3. /\ route[d] \ fresh[d] # {}
      /\ ~(g_cs = d /\ at = "TRANSACTION")
      => Wakes(d)
  BY DEF AwakeInv
<1>. QED  BY <1>1, <1>2, <1>3

\* A step of device d itself.
LEMMA AwakeOwn ==
    ASSUME AwakeInv, NEW d \in Device, g_cs = d, g_cs' = d \/ g_cs' \notin Device,
           \A e \in Device \ {d} : route'[e] = route[e] /\ fresh'[e] = fresh[e],
           NEW lost, NEW new, Delivers(queue, queue', lost, new),
           \A t, m : <<t, m>> \in lost => t = d,
           fresh'[d] # {} => g_cs' = d /\ at' = "CONNECT",
           /\ route'[d] \ fresh'[d] # {}
           /\ ~(g_cs' = d /\ at' = "TRANSACTION")
           => Wakes(d)'
    PROVE  AwakeInv'
<1>. SUFFICES ASSUME NEW e \in Device
              PROVE  /\ fresh'[e] # {} => g_cs' = e /\ at' = "CONNECT"
                     /\ /\ route'[e] \ fresh'[e] # {}
                        /\ ~(g_cs' = e /\ at' = "TRANSACTION")
                        => Wakes(e)'
  BY DEF AwakeInv
<1>1. CASE e = d
  BY <1>1
<1>2. CASE e # d
  <2>1. Wakes(e) => Wakes(e)'
    BY <1>2 DEF Wakes, Delivers, Thread
  <2>2. fresh[e] = {}
    BY <1>2 DEF AwakeInv
  <2>3. route[e] \ fresh[e] # {} => Wakes(e)
    BY <1>2 DEF AwakeInv
  <2>. QED  BY <1>2, <2>1, <2>2, <2>3
<1>. QED  BY <1>1, <1>2

\* What d has to do survives when d takes only a message of another kind.
LEMMA WakesKept ==
    ASSUME NEW d \in Device, NEW lost, NEW new,
           Delivers(queue, queue', lost, new),
           \A t, m : <<t, m>> \in lost => m.step # "TRANSACTION", Wakes(d)
    PROVE  Wakes(d)'
BY DEF Wakes, Delivers, Thread

-----------------------------------------------------------------------------
(* The device's steps *)

LEMMA ProcessDeviceAwake ==
    ASSUME TypeOK, AwakeInv, NEW d \in Device, ProcessDevice(d)
    PROVE  AwakeInv'
<1>0. d \in Thread /\ Main \in Thread
  BY DEF Thread
<1>. DEFINE index == Index(d, route[d], copy[d])
            q == QueueInsert(queue, Main, index)
<1>1. g_cs = Nobody /\ UNCHANGED <<route, fresh>>
  BY DEF ProcessDevice, Enters, routeVars
<1>2. Grows(queue, queue')
  <2>1. CASE Resends(d)
    <3>1. index \in Message
      BY NewIndex DEF TypeOK, Message
    <3>2. queue' = QueueInsert(q, d, NullTransaction)
      BY <2>1 DEF ProcessDevice
    <3>. HIDE DEF index
    <3>3. Grows(queue, q) /\ q \in [Thread -> Seq(Message)]
      BY <1>0, <3>1, InsertGrows, QueueInsertProperties DEF TypeOK
    <3>. HIDE DEF q
    <3>4. Grows(q, queue')
      BY <1>0, <3>2, <3>3, NewMessages, InsertGrows
    <3>. QED  BY <3>3, <3>4, GrowsTwice
  <2>2. CASE ~Resends(d)
    BY <2>2 DEF ProcessDevice, Grows
  <2>. QED  BY <2>1, <2>2
<1>. QED  BY <1>1, <1>2, NoDevice, AwakeKept

LEMMA ConnectRecvAwake ==
    ASSUME TypeOK, AwakeInv, NEW d \in Device, ConnectRecv(d)
    PROVE  AwakeInv'
<1>0. d \in Thread
  BY DEF Thread
<1>1. PICK i \in DOMAIN queue[d] : ConnectRecv(d)!2!(i)
  BY DEF ConnectRecv
<1>. DEFINE m == queue[d][i]
            new == m.index \ Known(d)
<1>2. m.step = "CONNECT" /\ g_cs = d /\ at = "CONNECT" /\ UNCHANGED <<g_cs, at>>
  BY <1>1 DEF ConnectRecv, IsNext, Runs, callVars
<1>3. Delivers(queue, queue', {<<d, m>>}, {})
  BY <1>0, <1>1, DeleteDelivers DEF TypeOK
<1>4. /\ route' = [route EXCEPT ![d] = @ \cup new]
      /\ fresh' = [fresh EXCEPT ![d] = @ \cup new]
  BY <1>1
<1>5. route'[d] \ fresh'[d] \subseteq route[d] \ fresh[d]
  BY <1>4 DEF TypeOK
<1>6. route[d] \ fresh[d] # {} => Wakes(d)
  BY <1>2 DEF AwakeInv
<1>7. \A e \in Device \ {d} : route'[e] = route[e] /\ fresh'[e] = fresh[e]
  BY <1>4 DEF TypeOK
<1>. HIDE DEF m, new
<1>8. Wakes(d) => Wakes(d)'
  BY <1>2, <1>3, WakesKept
<1>. QED  BY <1>2, <1>3, <1>5, <1>6, <1>7, <1>8, AwakeOwn

LEMMA ConnectSendAwake ==
    ASSUME TypeOK, AwakeInv, NEW d \in Device, ConnectSend(d)
    PROVE  AwakeInv'
<1>. DEFINE seen == near[d] \ Known(d)
            known == route[d] \cup seen
            quoted == [l \in Light |-> IF l \in seen THEN token[l]
                                       ELSE copy[d][l]]
            to == known \cup (IF d \in Heavy THEN {Main} ELSE {})
            index == Index(d, known, quoted)
            silent == fresh[d] \cup seen = {}
<1>0. d \in Thread /\ Device \subseteq Thread
  BY DEF Thread
<1>1. /\ g_cs = d /\ at = "CONNECT" /\ Leave
      /\ route' = [route EXCEPT ![d] = known]
      /\ fresh' = [fresh EXCEPT ![d] = {}]
      /\ silent => queue' = queue
      /\ ~silent => queue' = [t \in Thread |->
                 CASE t = d -> Enqueue(queue[d], NullTransaction)
                   [] t # d /\ t \in to -> Enqueue(queue[t], index)
                   [] OTHER -> queue[t]]
  BY DEF ConnectSend, Runs
<1>2. index \in Message
  <2>1. known \in SUBSET Device /\ quoted \in [Light -> Amount]
    BY DEF TypeOK, Light
  <2>. QED  BY <2>1, NewIndex DEF Message
<1>3. silent => known = route[d] /\ fresh[d] = {}
  OBVIOUS
<1>. HIDE DEF known, quoted, to, index, silent
<1>4. /\ fresh'[d] = {}
      /\ route'[d] = known
      /\ \A e \in Device \ {d} : route'[e] = route[e] /\ fresh'[e] = fresh[e]
  BY <1>1 DEF TypeOK
<1>5. ASSUME NEW e \in Device PROVE ToSet(queue[e]) \subseteq ToSet(queue'[e])
  <2>0. queue[e] \in Seq(Message) /\ e \in Thread
    BY <1>0 DEF TypeOK
  <2>1. \/ queue'[e] = queue[e]
        \/ queue'[e] = Enqueue(queue[e], NullTransaction)
        \/ queue'[e] = Enqueue(queue[e], index)
    BY <1>1, <2>0
  <2>2. /\ ToSet(Enqueue(queue[e], NullTransaction)) =
              ToSet(queue[e]) \cup {NullTransaction}
        /\ ToSet(Enqueue(queue[e], index)) = ToSet(queue[e]) \cup {index}
    BY <1>2, <2>0, NewMessages, ToSetEnqueue
  <2>. QED  BY <2>1, <2>2
<1>6. ~silent => Wakes(d)'
  <2>1. ~silent => queue'[d] = Enqueue(queue[d], NullTransaction)
    BY <1>0, <1>1
  <2>2. ToSet(Enqueue(queue[d], NullTransaction)) =
              ToSet(queue[d]) \cup {NullTransaction}
    BY <1>0, NewMessages, ToSetEnqueue DEF TypeOK
  <2>3. NullTransaction.step = "TRANSACTION"
    BY DEF NullTransaction, Transaction
  <2>. QED  BY <2>1, <2>2, <2>3 DEF Wakes
<1>7. silent /\ known # {} => Wakes(d)'
  <2>1. silent /\ known # {} => Wakes(d) /\ queue' = queue
    BY <1>1, <1>3 DEF AwakeInv
  <2>. QED  BY <2>1 DEF Wakes
<1>8. g_cs' \notin Device
  BY <1>1, NoDevice DEF Leave
<1>. SUFFICES ASSUME NEW e \in Device
              PROVE  /\ fresh'[e] = {}
                     /\ route'[e] # {} => Wakes(e)'
  BY DEF AwakeInv
<1>9. CASE e = d
  BY <1>4, <1>6, <1>7, <1>9
<1>10. CASE e # d
  <2>1. fresh[e] = {} /\ (route[e] # {} => Wakes(e))
    BY <1>1, <1>10 DEF AwakeInv
  <2>2. Wakes(e) => Wakes(e)'
    BY <1>5 DEF Wakes
  <2>. QED  BY <1>4, <1>10, <2>1, <2>2
<1>. QED  BY <1>9, <1>10

\* Inside its TRANSACTION call nothing is asked of the device itself.
LEMMA AwakeInTransaction ==
    ASSUME AwakeInv, NEW d \in Device, g_cs = d, at = "TRANSACTION",
           UNCHANGED <<g_cs, at, route, fresh>>,
           NEW lost, NEW new, Delivers(queue, queue', lost, new),
           \A t, m : <<t, m>> \in lost => t = d
    PROVE  AwakeInv'
<1>1. fresh[d] = {}
  BY DEF AwakeInv
<1>. QED  BY <1>1, AwakeOwn

LEMMA TransactionDropAwake ==
    ASSUME TypeOK, AwakeInv, NEW d \in Device, TransactionDrop(d)
    PROVE  AwakeInv'
<1>1. PICK i \in DOMAIN queue[d] : TransactionDrop(d)!1!(i)
  BY DEF TransactionDrop
<1>2. Delivers(queue, queue', {<<d, queue[d][i]>>}, {})
  BY <1>1, DeleteDelivers DEF TypeOK, Thread
<1>3. g_cs = d /\ at = "TRANSACTION" /\ UNCHANGED <<g_cs, at, route, fresh>>
  BY <1>1 DEF TransactionDrop, DeviceTakes, Runs, callVars, routeVars
<1>. QED  BY <1>2, <1>3, AwakeInTransaction

LEMMA TransactionRecvAwake ==
    ASSUME TypeOK, AwakeInv, NEW d \in Device, TransactionRecv(d)
    PROVE  AwakeInv'
<1>0. d \in Thread /\ Main \in Thread /\ Device \subseteq Thread
  BY DEF Thread
<1>1. PICK i \in DOMAIN queue[d] : TransactionRecv(d)!1!(i)
  BY DEF TransactionRecv
<1>. DEFINE n == queue[d][i].tx
            s == Src(n)
            u == IF s \in Light /\ Price(n) > copy[d][s] THEN s ELSE Main
            m == IF s \in Light /\ Price(n) > copy[d][s]
                 THEN Ledger("LEDGER", n, s) ELSE Transaction(n)
<1>2. queue[d][i].step = "TRANSACTION" /\ g_cs = d /\ at = "TRANSACTION"
  BY <1>1 DEF DeviceTakes, IsNext, Runs
<1>3. n \in TxIndex
  BY <1>0, <1>1, <1>2, QueueTypes, MessageTypes
<1>4. u \in Thread /\ m \in Message
  BY <1>0, <1>3, DealTypes, NewMessages DEF Status
<1>5. Delivers(queue, queue', {<<d, queue[d][i]>>}, {<<u, m>>})
  <2>1. queue' = QueueInsert(QueueDelete(queue, d, i), u, m)
    BY <1>1
  <2>. HIDE DEF u, m
  <2>. QED  BY <1>0, <1>4, <2>1, ForwardDelivers
<1>6. UNCHANGED <<g_cs, at, route, fresh>>
  BY DEF TransactionRecv, callVars
<1>. HIDE DEF u, m
<1>. QED  BY <1>2, <1>5, <1>6, AwakeInTransaction

\* A call of d that ends with something to do.
LEMMA AwakeLeft ==
    ASSUME AwakeInv, NEW d \in Device, g_cs = d, Leave, at # "CONNECT",
           UNCHANGED <<route, fresh>>, Grows(queue, queue'), Wakes(d)'
    PROVE  AwakeInv'
<1>1. g_cs' \notin Device
  BY NoDevice DEF Leave
<1>. SUFFICES ASSUME NEW e \in Device
              PROVE  fresh[e] = {} /\ (route[e] # {} => Wakes(e)')
  BY DEF AwakeInv
<1>2. fresh[e] = {}
  BY DEF AwakeInv
<1>3. e # d /\ route[e] # {} => Wakes(e)
  BY <1>2 DEF AwakeInv
<1>4. Wakes(e) => Wakes(e)'
  BY DEF Wakes, Grows
<1>. QED  BY <1>2, <1>3, <1>4

LEMMA StayAwakeWakes ==
    ASSUME TypeOK, NEW d \in Device, StayAwake(d)
    PROVE  Grows(queue, queue') /\ Wakes(d)'
<1>1. d \in Thread /\ NullTransaction \in Message
  BY NewMessages DEF Thread
<1>2. /\ queue' = QueueInsert(queue, d, NullTransaction)
      /\ queue \in [Thread -> Seq(Message)]
  BY DEF StayAwake, TypeOK
<1>3. NullTransaction \in ToSet(queue'[d])
  BY <1>1, <1>2, InsertWakes
<1>. QED
  BY <1>1, <1>2, <1>3, InsertGrows DEF Wakes, NullTransaction, Transaction

LEMMA TransactionNoneAwake ==
    ASSUME TypeOK, AwakeInv, NEW d \in Device, TransactionNone(d)
    PROVE  AwakeInv'
BY StayAwakeWakes, AwakeLeft DEF TransactionNone, Runs, routeVars

LEMMA TransactionIssueAwake ==
    ASSUME TypeOK, AwakeInv, NEW d \in Device, TransactionIssue(d)
    PROVE  AwakeInv'
<1>. DEFINE n == g_index + 1
            q == QueueInsert(queue, d, NullTransaction)
<1>1. Transaction(n) \in Message /\ NullTransaction \in Message
  <2>1. Len(Deals) \in Nat
    BY LayerAssumption, LenProperties
  <2>2. n \in TxIndex
    BY <2>1 DEF TransactionIssue, MyDeal, TypeOK, TxIndex
  <2>. QED  BY <2>2, NewMessages
<1>2. d \in Thread /\ Heavy \subseteq Thread /\ queue \in [Thread -> Seq(Message)]
  BY NoDevice DEF Thread, TypeOK
<1>3. Grows(queue, queue') /\ Wakes(d)'
  <2>1. CASE queue' = QueueInsert(queue, d, Transaction(n))
    <3>1. Transaction(n) \in ToSet(queue'[d])
      BY <1>1, <1>2, <2>1, InsertWakes
    <3>. QED  BY <1>1, <1>2, <2>1, <3>1, InsertGrows DEF Wakes, Transaction
  <2>2. CASE /\ d \in Light /\ gate[d] # Nobody
             /\ queue' = QueueInsert(q, gate[d], Transaction(n))
    <3>1. gate[d] \in Thread
      BY <1>2, <2>2 DEF TypeOK
    <3>2. /\ Grows(queue, q) /\ q \in [Thread -> Seq(Message)]
          /\ NullTransaction \in ToSet(q[d])
      BY <1>1, <1>2, InsertGrows, InsertWakes, QueueInsertProperties
    <3>. HIDE DEF q
    <3>3. Grows(q, queue')
      BY <1>1, <2>2, <3>1, <3>2, InsertGrows
    <3>4. NullTransaction \in ToSet(queue'[d])
      BY <3>2, <3>3 DEF Grows
    <3>. QED
      BY <3>2, <3>3, <3>4, GrowsTwice DEF Wakes, NullTransaction, Transaction
  <2>3. CASE StayAwake(d)
    BY <2>3, StayAwakeWakes
  <2>. QED  BY <2>1, <2>2, <2>3 DEF TransactionIssue
<1>. QED  BY <1>3, AwakeLeft DEF TransactionIssue, Runs, routeVars

LEMMA LedgerRecvAwake ==
    ASSUME TypeOK, AwakeInv, NEW d \in Device, LedgerRecv(d)
    PROVE  AwakeInv'
<1>0. d \in Thread /\ Device \subseteq Thread
  BY DEF Thread
<1>1. PICK i \in DOMAIN queue[d] : LedgerRecv(d)!1!(i)
  BY DEF LedgerRecv
<1>. DEFINE m == queue[d][i]
<1>2. /\ m.step = "LEDGER" /\ g_cs = d /\ at = "LEDGER"
      /\ UNCHANGED <<g_cs, at, route, fresh>>
  BY <1>1 DEF LedgerRecv, DeviceTakes, IsNext, Runs, callVars, routeVars
<1>3. m \in Message /\ m.device \in Device
  BY <1>0, <1>2, QueueTypes, MessageTypes
<1>4. PICK new : Delivers(queue, queue', {<<d, m>>}, new)
  <2>1. CASE queue' = QueueDelete(queue, d, i)
    BY <1>0, <2>1, DeleteDelivers DEF TypeOK
  <2>2. CASE queue' = QueueInsert(QueueDelete(queue, d, i), m.device, m)
    BY <1>0, <1>3, <2>2, ForwardDelivers
  <2>. QED  BY <1>1, <2>1, <2>2
<1>5. fresh[d] = {} /\ (route[d] # {} => Wakes(d))
  BY <1>2 DEF AwakeInv
<1>. HIDE DEF m
<1>6. Wakes(d) => Wakes(d)'
  BY <1>2, <1>4, WakesKept
<1>. QED  BY <1>2, <1>4, <1>5, <1>6, AwakeOwn

LEMMA LedgerUnknownAwake ==
    ASSUME TypeOK, AwakeInv, NEW d \in Device, LedgerUnknown(d)
    PROVE  AwakeInv'
BY AwakeKept DEF LedgerUnknown, callVars, routeVars, Grows

LEMMA LedgerSendAwake ==
    ASSUME TypeOK, AwakeInv, NEW d \in Device, LedgerSend(d)
    PROVE  AwakeInv'
<1>1. Grows(queue, queue')
  BY NewEmptyIndex, InsertGrows DEF LedgerSend, TypeOK, Thread, Message
<1>2. g_cs = d /\ at = "LEDGER" /\ Leave /\ UNCHANGED <<route, fresh>>
  BY DEF LedgerSend, Runs, routeVars
<1>3. g_cs' \notin Device
  BY <1>2, NoDevice DEF Leave
<1>. SUFFICES ASSUME NEW e \in Device
              PROVE  fresh[e] = {} /\ (route[e] # {} => Wakes(e)')
  BY <1>2, <1>3 DEF AwakeInv
<1>4. fresh[e] = {} /\ (route[e] # {} => Wakes(e))
  BY <1>2 DEF AwakeInv
<1>5. Wakes(e) => Wakes(e)'
  BY <1>1 DEF Wakes, Grows
<1>. QED  BY <1>4, <1>5

LEMMA DeviceCallAwake ==
    ASSUME TypeOK, AwakeInv, NEW d \in Device, DeviceCall(d)
    PROVE  AwakeInv'
BY ConnectRecvAwake, ConnectSendAwake, TransactionDropAwake,
   TransactionRecvAwake, TransactionNoneAwake, TransactionIssueAwake,
   LedgerRecvAwake, LedgerUnknownAwake, LedgerSendAwake DEF DeviceCall

-----------------------------------------------------------------------------
(* The mainchain's steps and main() *)

LEMMA MainCallGrows ==
    ASSUME TypeOK, MainCall
    PROVE  Grows(queue, queue')
<1>0. Main \in Thread /\ queue \in [Thread -> Seq(Message)]
  BY DEF Thread, TypeOK
<1>1. CASE UNCHANGED queue
  BY <1>1 DEF Grows
<1>2. CASE \E i \in DOMAIN queue[Main] : queue' = QueueDelete(queue, Main, i)
  BY <1>2, DeleteMainGrows
<1>3. CASE queue' = QueueInsert(queue, Main, NullTransaction)
  BY <1>0, <1>3, NewMessages, InsertGrows
<1>4. CASE MainTransactionFail
  <2>1. PICK i \in DOMAIN queue[Main], trunk \in dag, branch \in dag :
             MainTransactionFail!1!(i, trunk, branch)
    BY <1>4 DEF MainTransactionFail
  <2>2. PICK bad \in {trunk, branch} :
          /\ Verify(bad.tx) # "DONE"
          /\ queue' = QueueInsert(QueueDelete(queue, Main, i),
                          HeavyOf(Src(bad.tx)),
                          Ledger(Verify(bad.tx), bad.tx, Src(bad.tx)))
    BY <2>1
  <2>. DEFINE u == HeavyOf(Src(bad.tx))
              m == Ledger(Verify(bad.tx), bad.tx, Src(bad.tx))
  <2>3. bad.tx \in TxIndex
    BY DEF TypeOK, Node
  <2>4. Src(bad.tx) \in Device /\ Verify(bad.tx) \in Status
    BY <2>2, <2>3, DealTypes DEF Verify, Status
  <2>5. u \in Thread /\ m \in Message
    BY <2>3, <2>4, NewMessages, HeavyOfThread
  <2>. HIDE DEF u, m
  <2>6. Delivers(queue, queue', {<<Main, queue[Main][i]>>}, {<<u, m>>})
    BY <1>0, <2>2, <2>5, ForwardDelivers DEF u, m
  <2>. QED  BY <2>6, NoDevice, DeliversGrows
<1>5. CASE MainTransactionAttach
  <2>1. PICK i \in DOMAIN queue[Main], trunk \in dag, branch \in dag :
             MainTransactionAttach!1!(i, trunk, branch)
    BY <1>5 DEF MainTransactionAttach
  <2>. DEFINE rest == QueueDelete(queue, Main, i)
              q1 == IF Unconfirmed(trunk) THEN Notify(rest, trunk.tx) ELSE rest
  <2>2. trunk.tx \in TxIndex /\ branch.tx \in TxIndex
    BY DEF TypeOK, Node
  <2>3. queue' = q1 \/ queue' = Notify(q1, branch.tx)
    BY <2>1
  <2>4. rest \in [Thread -> Seq(Message)] /\ Grows(queue, rest)
    BY <1>0, QueueTypes, DeleteMainGrows
  <2>. HIDE DEF rest
  <2>5. ASSUME NEW q \in [Thread -> Seq(Message)], NEW n \in TxIndex
        PROVE  Grows(q, Notify(q, n))
    <3>1. Delivers(q, Notify(q, n), {}, Notified(n))
      BY NotifyDelivers
    <3>. QED  BY <3>1, DeliversGrows
  <2>6. q1 \in [Thread -> Seq(Message)] /\ Grows(rest, q1)
    <3>1. CASE Unconfirmed(trunk)
      BY <2>2, <2>4, <2>5, <3>1, NotifyType
    <3>2. CASE ~Unconfirmed(trunk)
      BY <2>4, <3>2 DEF Grows
    <3>. QED  BY <3>1, <3>2
  <2>. HIDE DEF q1
  <2>7. Grows(q1, queue')
    <3>1. CASE queue' = q1
      BY <3>1 DEF Grows
    <3>2. CASE queue' = Notify(q1, branch.tx)
      BY <2>2, <2>5, <2>6, <3>2
    <3>. QED  BY <2>3, <3>1, <3>2
  <2>. QED  BY <2>4, <2>6, <2>7, GrowsTwice
<1>6. CASE MainConnectRecv
  BY <1>2, <1>6 DEF MainConnectRecv
<1>7. CASE MainTransactionDrop \/ MainTransactionReuse \/ MainTransactionGenesis
  BY <1>2, <1>7
  DEF MainTransactionDrop, MainTransactionReuse, MainTransactionGenesis, Taken
<1>8. CASE MainConnectSend \/ MainTransactionSend
  BY <1>3, <1>8 DEF MainConnectSend, MainTransactionSend
<1>9. CASE \/ MainTransactionDefer \/ MainLedgerSkip \/ MainLedgerFault
           \/ MainLedgerEnd
  BY <1>1, <1>9
  DEF MainTransactionDefer, MainLedgerSkip, MainLedgerFault, MainLedgerEnd
<1>. QED  BY <1>4, <1>5, <1>6, <1>7, <1>8, <1>9 DEF MainCall

LEMMA MainCallAwake ==
    ASSUME TypeOK, AwakeInv, MainCall
    PROVE  AwakeInv'
<1>1. g_cs = Main /\ UNCHANGED <<route, fresh>>
  BY DEF MainCall, MainRuns, MainTakes, MainApproves, routeVars,
     MainConnectRecv, MainConnectSend, MainTransactionDrop,
     MainTransactionReuse, MainTransactionGenesis, MainTransactionDefer,
     MainTransactionFail, MainTransactionAttach, MainTransactionSend,
     MainLedgerSkip, MainLedgerFault, MainLedgerEnd
<1>. QED  BY <1>1, MainCallGrows, NoDevice, AwakeKept

LEMMA ProcessMainchainAwake ==
    ASSUME TypeOK, AwakeInv, ProcessMainchain
    PROVE  AwakeInv'
BY NoDevice, AwakeKept DEF ProcessMainchain, routeVars, Grows

LEMMA StartMainchainAwake ==
    ASSUME TypeOK, AwakeInv, StartMainchain
    PROVE  AwakeInv'
<1>1. \A d \in Device : queue'[d] = queue[d]
  BY NoDevice DEF StartMainchain, TypeOK, Thread
<1>. QED  BY <1>1, AwakeKept DEF StartMainchain, callVars, routeVars, Grows

LEMMA TimerAwake ==
    ASSUME TypeOK, AwakeInv, Timer
    PROVE  AwakeInv'
BY AwakeKept DEF Timer, callVars, routeVars, Grows

LEMMA InvAwake ==
    ASSUME TypeOK, AwakeInv
    PROVE  Awake
<1>. SUFFICES ASSUME NEW d \in Device, g_cs # d, route[d] # {}
              PROVE  \E k \in DOMAIN queue[d] : queue[d][k].step = "TRANSACTION"
  BY DEF Awake
<1>1. Wakes(d)
  BY DEF AwakeInv
<1>2. \A m \in ToSet(queue[d]) : \E k \in DOMAIN queue[d] : m = queue[d][k]
  BY ToSetMember DEF TypeOK, Thread
<1>. QED  BY <1>1, <1>2 DEF Wakes

\* A device that has met anyone always has something in its queue that makes
\* process_device call transaction_send again (layer_device.cpp:632-656).
THEOREM StaysAwake == Spec => []Awake
<1>1. Init => AwakeInv
  BY DEF Init, AwakeInv
<1>2. TypeOK /\ AwakeInv /\ [Next]_vars => AwakeInv'
  <2>. SUFFICES ASSUME TypeOK, AwakeInv, [Next]_vars PROVE AwakeInv'
    OBVIOUS
  <2>1. CASE StartMainchain
    BY <2>1, StartMainchainAwake
  <2>2. CASE Timer
    BY <2>2, TimerAwake
  <2>3. CASE ProcessMainchain
    BY <2>3, ProcessMainchainAwake
  <2>4. ASSUME NEW d \in Device, ProcessDevice(d) PROVE AwakeInv'
    BY <2>4, ProcessDeviceAwake
  <2>5. CASE MainCall
    BY <2>5, MainCallAwake
  <2>6. ASSUME NEW d \in Device, DeviceCall(d) PROVE AwakeInv'
    BY <2>6, DeviceCallAwake
  <2>7. CASE UNCHANGED vars
    BY <2>7 DEF AwakeInv, Wakes, vars, callVars, routeVars
  <2>. QED  BY <2>1, <2>2, <2>3, <2>4, <2>5, <2>6, <2>7 DEF Next, Call
<1>. QED  BY <1>1, <1>2, InvAwake, TypeCorrect, PTL DEF Spec
=============================================================================
