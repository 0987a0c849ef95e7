------------------------- MODULE BlockchainProofs -------------------------
(***************************************************************************)
(* Proofs about Blockchain for every number of devices, every list of      *)
(* deals and every sequence of topologies.                                 *)
(***************************************************************************)
EXTENDS Blockchain, LayerLemmas

-----------------------------------------------------------------------------
(* Messages and devices *)

LEMMA DealTypes ==
    ASSUME NEW n \in TxIndex
    PROVE  Src(n) \in Device /\ Dst(n) \in Device /\ Price(n) \in Amount
<1>1. Deals[n] \in [src : Device, dst : Device, token : Amount]
  BY LayerAssumption, ElementOfSeq DEF TxIndex
<1>. QED  BY <1>1 DEF Src, Dst, Price

LEMMA MessageTypes ==
    ASSUME NEW m \in Message
    PROVE  /\ m.step \in Step
           /\ m.step = "CONNECT" => /\ m.from \in Device
                                    /\ m.index \subseteq Device
                                    /\ m.token \in [Light -> Amount]
           /\ m.step = "TRANSACTION" => m.tx \in {0} \cup TxIndex
           /\ m.step = "LEDGER" => /\ m.status \in Status
                                   /\ m.tx \in TxIndex
                                   /\ m.device \in Device
BY DEF Message, ConnectMsg, TransactionMsg, LedgerMsg, Step

LEMMA NewMessages ==
    /\ NullTransaction \in Message
    /\ \A n \in TxIndex : Transaction(n) \in Message
    /\ \A s \in Status, n \in TxIndex, x \in Device : Ledger(s, n, x) \in Message
BY DEF NullTransaction, Transaction, Ledger, Message, TransactionMsg, LedgerMsg

LEMMA NewIndex ==
    ASSUME TypeOK, NEW d \in Device, NEW known \in SUBSET Device,
           NEW quoted \in [Light -> Amount]
    PROVE  Index(d, known, quoted) \in ConnectMsg
<1>1. \A l \in Light : (IF l = d THEN token[d] ELSE quoted[l]) \in Amount
  BY DEF TypeOK
<1>. QED  BY <1>1 DEF Index, ConnectMsg

LEMMA NewEmptyIndex ==
    ASSUME NEW d \in Device
    PROVE  EmptyIndex(d) \in ConnectMsg
<1>1. 0 \in Amount
  BY LayerAssumption DEF Amount
<1>. QED  BY <1>1 DEF EmptyIndex, ConnectMsg

\* transaction_device answers with a heavy device or with nobody, and then
\* only with a device of the dag it was asked about.
LEMMA HeavyOfProperties ==
    ASSUME TypeOK, NEW x \in Device
    PROVE  /\ HeavyOf(x) \in Heavy \cup {Main}
           /\ HeavyOf(x) # Main => /\ HeavyOf(x) \in Heavy
                                   /\ listed[HeavyOf(x)]
                                   /\ HeavyOf(x) = x \/ HeavyOf(x) \in group[x]
<1>. DEFINE heavies == {h \in Heavy : listed[h] /\ h \in group[x]}
<1>1. CASE x \in Heavy /\ listed[x]
  BY <1>1 DEF HeavyOf
<1>2. CASE ~(x \in Heavy /\ listed[x]) /\ heavies = {}
  BY <1>2 DEF HeavyOf
<1>3. CASE ~(x \in Heavy /\ listed[x]) /\ heavies # {}
  <2>1. heavies \subseteq Nat
    BY LayerAssumption DEF Heavy
  <2>2. PICK h \in heavies : \A y \in heavies : ~(<<y, h>> \in OpToRel(<, Nat))
    BY <1>3, <2>1, NatLessThanWellFounded, WFMin
  <2>3. ASSUME NEW y \in heavies PROVE h <= y
    <3>1. y \in Nat /\ h \in Nat
      BY <2>1
    <3>2. y < h => <<y, h>> \in OpToRel(<, Nat)
      BY <3>1 DEF OpToRel
    <3>3. ~(<<y, h>> \in OpToRel(<, Nat))
      BY <2>2
    <3>4. ~(y < h)
      BY <3>2, <3>3, Zenon
    <3>. QED  BY <3>1, <3>4
  <2>4. Min(heavies) \in heavies
    BY <2>3 DEF Min
  <2>5. HeavyOf(x) = Min(heavies)
    BY <1>3 DEF HeavyOf
  <2>. QED  BY <2>4, <2>5
<1>. QED  BY <1>1, <1>2, <1>3

LEMMA HeavyOfThread ==
    ASSUME TypeOK, NEW x \in Device
    PROVE  HeavyOf(x) \in Thread
BY HeavyOfProperties, LayerAssumption DEF Heavy, Device, Thread

-----------------------------------------------------------------------------
(* Type correctness *)

LEMMA InitType == Init => TypeOK
<1>. SUFFICES ASSUME Init PROVE TypeOK
  OBVIOUS
<1>1. /\ Token \in Amount /\ 0 \in Amount /\ MaxTick \in Nat
      /\ Topologies \subseteq [Device -> SUBSET Device]
      /\ Len(Deals) \in Nat
  BY LayerAssumption, LenProperties DEF Amount
<1>2. \A d \in Device : EmptyIndex(d) \in Message
  BY NewEmptyIndex DEF Message
<1>3. queue \in [Thread -> Seq(Message)]
  <2>1. Thread = Device \cup {Main}
    BY DEF Thread
  <2>2. \A d \in Device : <<EmptyIndex(d)>> \in Seq(Message)
    BY <1>2
  <2>. QED  BY <2>1, <2>2 DEF Init
<1>4. near \in [Device -> SUBSET Device] /\ ticks \in 0 .. MaxTick
  BY <1>1 DEF Init
<1>5. route \in [Device -> SUBSET Device] /\ copy \in [Device -> [Light -> Amount]]
  BY <1>1 DEF Init
<1>6. g_index \in 0 .. Len(Deals)
  BY <1>1 DEF Init
<1>7. /\ token \in [Device -> Amount] /\ frozen \in [Device -> Amount]
      /\ balance \in [Device -> Amount]
  BY <1>1 DEF Init
<1>. QED  BY <1>3, <1>4, <1>5, <1>6, <1>7 DEF Init, TypeOK

LEMMA ProcessDeviceType ==
    ASSUME TypeOK, NEW d \in Device, ProcessDevice(d)
    PROVE  TypeOK'
<1>1. d \in Thread /\ Main \in Thread
  BY DEF Thread
<1>2. at' \in Step
  <2>1. Head(queue[d]) \in Message
    BY <1>1, HeadTailProperties DEF TypeOK, ProcessDevice, Enters
  <2>. QED  BY <2>1, MessageTypes DEF ProcessDevice
<1>3. queue' \in [Thread -> Seq(Message)]
  <2>1. Index(d, route[d], copy[d]) \in Message
    BY NewIndex DEF TypeOK, Message
  <2>. DEFINE q == QueueInsert(queue, Main, Index(d, route[d], copy[d]))
  <2>2. q \in [Thread -> Seq(Message)]
    BY <1>1, <2>1, QueueInsertProperties DEF TypeOK
  <2>. HIDE DEF q
  <2>3. QueueInsert(q, d, NullTransaction) \in [Thread -> Seq(Message)]
    BY <1>1, <2>2, NewMessages, QueueInsertProperties
  <2>. QED  BY <2>3 DEF ProcessDevice, TypeOK, q
<1>4. g_cs' \in Thread \cup {Nobody} /\ flag' \in [Device -> {0, 1}]
  BY <1>1 DEF ProcessDevice, TypeOK
<1>. QED
  BY <1>2, <1>3, <1>4
  DEF TypeOK, ProcessDevice, envVars, routeVars, accountVars, chainVars

\* What deleting a message of one's own queue and inserting up to two
\* messages elsewhere leaves.
LEMMA QueueTypes ==
    ASSUME TypeOK, NEW t \in Thread, NEW i \in DOMAIN queue[t]
    PROVE  /\ queue[t][i] \in Message
           /\ QueueDelete(queue, t, i) \in [Thread -> Seq(Message)]
           /\ \A u \in Thread, m \in Message :
                 QueueInsert(QueueDelete(queue, t, i), u, m)
                 \in [Thread -> Seq(Message)]
<1>1. queue \in [Thread -> Seq(Message)]
  BY DEF TypeOK
<1>2. queue[t][i] \in Message
  BY <1>1, ElementOfSeq, LenProperties
<1>3. QueueDelete(queue, t, i) \in [Thread -> Seq(Message)]
  BY <1>1, QueueDeleteProperties
<1>. QED  BY <1>2, <1>3, QueueInsertProperties

LEMMA ConnectRecvType ==
    ASSUME TypeOK, NEW d \in Device, ConnectRecv(d)
    PROVE  TypeOK'
<1>0. d \in Thread
  BY DEF Thread
<1>1. PICK i \in DOMAIN queue[d] : ConnectRecv(d)!2!(i)
  BY DEF ConnectRecv
<1>. DEFINE m == queue[d][i]
            new == m.index \ Known(d)
<1>2. m.step = "CONNECT" /\ m \in Message
  BY <1>0, <1>1, QueueTypes DEF IsNext
<1>3. m.index \subseteq Device /\ m.token \in [Light -> Amount]
  BY <1>2, MessageTypes
<1>4. queue' \in [Thread -> Seq(Message)]
  BY <1>0, <1>1, QueueTypes
<1>5. route' \in [Device -> SUBSET Device] /\ fresh' \in [Device -> SUBSET Device]
  BY <1>1, <1>3 DEF TypeOK
<1>6. copy' \in [Device -> [Light -> Amount]]
  <2>1. [l \in Light |-> IF l \in new THEN m.token[l] ELSE copy[d][l]]
        \in [Light -> Amount]
    BY <1>3 DEF TypeOK
  <2>. QED  BY <1>1, <2>1 DEF TypeOK
<1>7. gate' \in [Light -> Heavy \cup {Nobody}]
  BY <1>1 DEF TypeOK
<1>. QED
  BY <1>4, <1>5, <1>6, <1>7
  DEF TypeOK, ConnectRecv, envVars, callVars, accountVars, chainVars

LEMMA ConnectSendType ==
    ASSUME TypeOK, NEW d \in Device, ConnectSend(d)
    PROVE  TypeOK'
<1>. DEFINE seen == near[d] \ Known(d)
            known == route[d] \cup seen
            quoted == [l \in Light |-> IF l \in seen THEN token[l]
                                       ELSE copy[d][l]]
            to == known \cup (IF d \in Heavy THEN {Main} ELSE {})
<1>1. /\ route' = [route EXCEPT ![d] = known]
      /\ copy' = [copy EXCEPT ![d] = quoted]
      /\ gate' = gate \/ \E h \in Heavy : gate' = [gate EXCEPT ![d] = h]
      /\ \/ queue' = queue
         \/ queue' = [t \in Thread |->
                 CASE t = d -> Enqueue(queue[d], NullTransaction)
                   [] t # d /\ t \in to -> Enqueue(queue[t], Index(d, known, quoted))
                   [] OTHER -> queue[t]]
  BY DEF ConnectSend
<1>2. known \in SUBSET Device /\ quoted \in [Light -> Amount]
  BY DEF TypeOK, Light
<1>. HIDE DEF known, quoted, to
<1>3. Index(d, known, quoted) \in Message
  BY <1>2, NewIndex DEF Message
<1>4. queue' \in [Thread -> Seq(Message)]
  <2>1. d \in Thread
    BY DEF Thread
  <2>2. \A t \in Thread, m \in Message : Enqueue(queue[t], m) \in Seq(Message)
    BY EnqueueProperties DEF TypeOK
  <2>. DEFINE sent(t) ==
                 CASE t = d -> Enqueue(queue[d], NullTransaction)
                   [] t # d /\ t \in to -> Enqueue(queue[t], Index(d, known, quoted))
                   [] OTHER -> queue[t]
  <2>3. ASSUME NEW t \in Thread PROVE sent(t) \in Seq(Message)
    <3>1. /\ Enqueue(queue[d], NullTransaction) \in Seq(Message)
          /\ Enqueue(queue[t], Index(d, known, quoted)) \in Seq(Message)
          /\ queue[t] \in Seq(Message)
      BY <1>3, <2>1, <2>2, NewMessages DEF TypeOK
    <3>. QED  BY <3>1
  <2>4. queue' = queue \/ queue' = [t \in Thread |-> sent(t)]
    BY <1>1
  <2>. HIDE DEF sent
  <2>. QED  BY <2>3, <2>4 DEF TypeOK
<1>5. route' \in [Device -> SUBSET Device] /\ copy' \in [Device -> [Light -> Amount]]
  BY <1>1, <1>2 DEF TypeOK
<1>6. gate' \in [Light -> Heavy \cup {Nobody}]
  BY <1>1 DEF TypeOK
<1>. QED
  BY <1>4, <1>5, <1>6
  DEF TypeOK, ConnectSend, Leave, envVars, accountVars, chainVars

LEMMA TransactionDropType ==
    ASSUME TypeOK, NEW d \in Device, TransactionDrop(d)
    PROVE  TypeOK'
<1>1. queue' \in [Thread -> Seq(Message)]
  BY QueueTypes DEF TransactionDrop, Thread
<1>. QED
  BY <1>1
  DEF TypeOK, TransactionDrop, envVars, callVars, routeVars, accountVars, chainVars

LEMMA TransactionRecvType ==
    ASSUME TypeOK, NEW d \in Device, TransactionRecv(d)
    PROVE  TypeOK'
<1>0. d \in Thread /\ Main \in Thread /\ Device \subseteq Thread
  BY DEF Thread
<1>1. PICK i \in DOMAIN queue[d] : TransactionRecv(d)!1!(i)
  BY DEF TransactionRecv
<1>. DEFINE n == queue[d][i].tx
            s == Src(n)
<1>2. n \in TxIndex
  BY <1>0, <1>1, QueueTypes, MessageTypes DEF DeviceTakes, IsNext
<1>. HIDE DEF n
<1>3. s \in Device /\ Price(n) \in Amount
  BY <1>2, DealTypes
<1>4. Transaction(n) \in Message /\ Ledger("LEDGER", n, s) \in Message
  BY <1>2, <1>3, NewMessages DEF Status
<1>5. queue' \in [Thread -> Seq(Message)]
  <2>1. \/ queue' = QueueInsert(QueueDelete(queue, d, i), s, Ledger("LEDGER", n, s))
        \/ queue' = QueueInsert(QueueDelete(queue, d, i), Main, Transaction(n))
    BY <1>1 DEF n
  <2>. QED  BY <1>0, <1>3, <1>4, <2>1, QueueTypes
<1>6. copy' \in [Device -> [Light -> Amount]]
  <2>1. CASE s \in Light
    <3>1. copy[d] \in [Light -> Amount] /\ copy[d][s] \in Amount
      BY <2>1 DEF TypeOK
    <3>2. Amount \subseteq Int
      BY LayerAssumption DEF Amount
    <3>3. Sub(copy[d][s], Price(n)) \in Amount
      BY <1>3, <3>1, <3>2, AmountClosed
    <3>4. copy' = copy \/ copy' = [copy EXCEPT ![d][s] = Sub(copy[d][s], Price(n))]
      BY <1>1 DEF n
    <3>5. [copy[d] EXCEPT ![s] = Sub(copy[d][s], Price(n))] \in [Light -> Amount]
      BY <3>1, <3>3
    <3>. QED  BY <3>4, <3>5 DEF TypeOK
  <2>2. CASE s \notin Light
    BY <1>1, <2>2 DEF TypeOK, n
  <2>. QED  BY <2>1, <2>2
<1>7. fault' \in {"none", "route_node"}
  BY <1>1
<1>. QED
  BY <1>5, <1>6, <1>7
  DEF TypeOK, TransactionRecv, envVars, callVars, accountVars, chainVars

LEMMA TransactionNoneType ==
    ASSUME TypeOK, NEW d \in Device, TransactionNone(d)
    PROVE  TypeOK'
<1>1. queue' \in [Thread -> Seq(Message)]
  BY NewMessages, QueueInsertProperties DEF TransactionNone, StayAwake, TypeOK, Thread
<1>2. g_index' \in 0 .. Len(Deals)
  <2>1. Len(Deals) \in Nat
    BY LayerAssumption, LenProperties
  <2>. QED  BY <2>1 DEF TransactionNone, MyDeal, TypeOK
<1>. QED
  BY <1>1, <1>2
  DEF TypeOK, TransactionNone, Leave, envVars, routeVars, accountVars, chainVars

LEMMA TransactionIssueType ==
    ASSUME TypeOK, NEW d \in Device, TransactionIssue(d)
    PROVE  TypeOK'
<1>. DEFINE n == g_index + 1
<1>1. n \in TxIndex /\ n \in 0 .. Len(Deals)
  <2>1. Len(Deals) \in Nat
    BY LayerAssumption, LenProperties
  <2>. QED  BY <2>1 DEF TransactionIssue, MyDeal, TypeOK, TxIndex
<1>2. d \in Thread /\ Heavy \subseteq Thread
  BY LayerAssumption DEF Thread, Device, Heavy
<1>3. Transaction(n) \in Message /\ NullTransaction \in Message
  BY <1>1, NewMessages
<1>4. queue' \in [Thread -> Seq(Message)]
  <2>1. CASE d \in Heavy /\ queue' = QueueInsert(queue, d, Transaction(n))
    BY <1>2, <1>3, <2>1, QueueInsertProperties DEF TypeOK
  <2>2. CASE /\ gate[d] # Nobody /\ d \in Light
             /\ queue' = QueueInsert(QueueInsert(queue, d, NullTransaction),
                                     gate[d], Transaction(n))
    <3>1. gate[d] \in Thread
      BY <1>2, <2>2 DEF TypeOK
    <3>2. QueueInsert(queue, d, NullTransaction) \in [Thread -> Seq(Message)]
      BY <1>2, <1>3, QueueInsertProperties DEF TypeOK
    <3>. QED  BY <1>3, <2>2, <3>1, <3>2, QueueInsertProperties
  <2>3. CASE StayAwake(d)
    BY <1>2, <1>3, <2>3, QueueInsertProperties DEF TypeOK, StayAwake
  <2>. QED  BY <2>1, <2>2, <2>3 DEF TransactionIssue
<1>5. token' \in [Device -> Amount] /\ frozen' \in [Device -> Amount]
  <2>1. Amount \subseteq Int
    BY LayerAssumption DEF Amount
  <2>2. Price(n) \in Int /\ token[d] \in Int /\ frozen[d] \in Int
    BY <1>1, <2>1, DealTypes DEF TypeOK
  <2>3. /\ Sub(token[d], Price(n)) \in Amount
        /\ Add(frozen[d], Price(n)) \in Amount
    BY <2>2, AmountClosed
  <2>. QED  BY <2>3 DEF TransactionIssue, TypeOK
<1>6. g_index' \in 0 .. Len(Deals)
  BY <1>1 DEF TransactionIssue
<1>. QED
  BY <1>4, <1>5, <1>6
  DEF TypeOK, TransactionIssue, Leave, envVars, routeVars, chainVars

LEMMA LedgerRecvType ==
    ASSUME TypeOK, NEW d \in Device, LedgerRecv(d)
    PROVE  TypeOK'
<1>0. d \in Thread /\ Device \subseteq Thread
  BY DEF Thread
<1>1. PICK i \in DOMAIN queue[d] : LedgerRecv(d)!1!(i)
  BY DEF LedgerRecv
<1>. DEFINE m == queue[d][i]
<1>2. m \in Message /\ m.device \in Device /\ m.tx \in TxIndex
  BY <1>0, <1>1, QueueTypes, MessageTypes DEF DeviceTakes, IsNext
<1>3. queue' \in [Thread -> Seq(Message)]
  BY <1>0, <1>1, <1>2, QueueTypes
<1>4. token' \in [Device -> Amount] /\ frozen' \in [Device -> Amount]
  <2>1. Amount \subseteq Int
    BY LayerAssumption DEF Amount
  <2>2. Price(m.tx) \in Int /\ token[d] \in Int /\ frozen[d] \in Int
    BY <1>2, <2>1, DealTypes DEF TypeOK
  <2>3. /\ Add(token[d], Price(m.tx)) \in Amount
        /\ Sub(frozen[d], Price(m.tx)) \in Amount
    BY <2>2, AmountClosed
  <2>4. \/ Settle(d, m.status, Price(m.tx))
        \/ UNCHANGED accountVars
    BY <1>1
  <2>. DEFINE t == Price(m.tx)
  <2>5. CASE Settle(d, m.status, t)
    <3>. HIDE DEF t, m
    <3>1. /\ (IF m.status = "SRC" THEN token[d] ELSE Add(token[d], t)) \in Amount
          /\ (IF m.status = "DST" THEN frozen[d] ELSE Sub(frozen[d], t)) \in Amount
      BY <2>3 DEF TypeOK, t
    <3>. QED  BY <2>5, <3>1 DEF Settle, TypeOK
  <2>6. CASE UNCHANGED accountVars
    BY <2>6 DEF TypeOK, accountVars
  <2>. QED  BY <2>4, <2>5, <2>6
<1>. QED
  BY <1>3, <1>4 DEF TypeOK, LedgerRecv, envVars, callVars, routeVars, chainVars

LEMMA LedgerUnknownType ==
    ASSUME TypeOK, NEW d \in Device, LedgerUnknown(d)
    PROVE  TypeOK'
BY DEF TypeOK, LedgerUnknown, envVars, callVars, routeVars, accountVars, chainVars

LEMMA LedgerSendType ==
    ASSUME TypeOK, NEW d \in Device, LedgerSend(d)
    PROVE  TypeOK'
<1>1. EmptyIndex(d) \in Message
  BY NewEmptyIndex DEF Message
<1>2. queue' \in [Thread -> Seq(Message)]
  BY <1>1, QueueInsertProperties DEF LedgerSend, TypeOK, Thread
<1>. QED
  BY <1>2
  DEF TypeOK, LedgerSend, Leave, envVars, routeVars, accountVars, chainVars

LEMMA DeviceCallType ==
    ASSUME TypeOK, NEW d \in Device, DeviceCall(d)
    PROVE  TypeOK'
BY ConnectRecvType, ConnectSendType, TransactionDropType, TransactionRecvType,
   TransactionNoneType, TransactionIssueType, LedgerRecvType,
   LedgerUnknownType, LedgerSendType
DEF DeviceCall

LEMMA ProcessMainchainType ==
    ASSUME TypeOK, ProcessMainchain
    PROVE  TypeOK'
<1>1. at' \in Step
  <2>1. Head(queue[Main]) \in Message
    BY HeadTailProperties DEF TypeOK, ProcessMainchain, Thread
  <2>. QED  BY <2>1, MessageTypes DEF ProcessMainchain
<1>. QED
  BY <1>1
  DEF TypeOK, ProcessMainchain, Thread, envVars, routeVars, accountVars, chainVars

LEMMA MainConnectRecvType ==
    ASSUME TypeOK, MainConnectRecv
    PROVE  TypeOK'
<1>0. Main \in Thread
  BY DEF Thread
<1>1. PICK i \in DOMAIN queue[Main] : MainConnectRecv!2!(i)
  BY DEF MainConnectRecv
<1>. DEFINE m == queue[Main][i]
            new == m.index \cup FirstStray
<1>2. m.from \in Device /\ m.index \subseteq Device
  BY <1>0, <1>1, QueueTypes, MessageTypes DEF IsNext
<1>3. new \subseteq Device
  BY <1>2, LayerAssumption DEF FirstStray
<1>. HIDE DEF new
<1>4. queue' \in [Thread -> Seq(Message)]
  BY <1>0, <1>1, QueueTypes
<1>5. group' \in [Device -> SUBSET Device] /\ listed' \in [Device -> BOOLEAN]
  <2>1. CASE UNCHANGED <<group, listed, done>>
    BY <2>1 DEF TypeOK
  <2>2. CASE ~UNCHANGED <<group, listed, done>>
    <3>1. /\ group' = [x \in Device |-> IF x \in new THEN new ELSE group[x] \ new]
          /\ listed' = [x \in Device |-> listed[x] \/ x \in m.index]
      BY <1>1, <2>2 DEF new
    <3>2. group' \in [Device -> SUBSET Device]
      BY <1>3, <3>1 DEF TypeOK
    <3>3. listed' \in [Device -> BOOLEAN]
      BY <3>1, Zenon
    <3>. QED  BY <3>2, <3>3
  <2>. QED  BY <2>1, <2>2
<1>6. done' \in SUBSET Device
  BY <1>1, <1>2 DEF TypeOK
<1>. QED
  BY <1>4, <1>5, <1>6
  DEF TypeOK, MainConnectRecv, envVars, routeVars, accountVars

LEMMA MainConnectSendType ==
    ASSUME TypeOK, MainConnectSend
    PROVE  TypeOK'
<1>1. queue' \in [Thread -> Seq(Message)]
  BY NewMessages, QueueInsertProperties DEF MainConnectSend, TypeOK, Thread
<1>. QED
  BY <1>1
  DEF TypeOK, MainConnectSend, MainLeaves, envVars, routeVars, accountVars, chainVars

LEMMA TakenTypes ==
    ASSUME TypeOK, NEW i \in DOMAIN queue[Main]
    PROVE  /\ queue[Main][i] \in Message
           /\ i \in Nat
           /\ Taken(i) => queue' \in [Thread -> Seq(Message)] /\ cursor' \in Nat
<1>1. Main \in Thread
  BY DEF Thread
<1>2. i \in Nat
  BY <1>1, LenProperties DEF TypeOK
<1>. QED  BY <1>1, <1>2, QueueTypes DEF Taken

LEMMA PurgeType ==
    ASSUME NEW S \in SUBSET Node
    PROVE  Purge(S) \in SUBSET Node
BY DEF Purge

LEMMA TipType ==
    ASSUME NEW n \in TxIndex
    PROVE  Tip(n) \in Node
BY DEF Tip, Node

LEMMA MainTransactionDropType ==
    ASSUME TypeOK, MainTransactionDrop
    PROVE  TypeOK'
<1>1. queue' \in [Thread -> Seq(Message)] /\ cursor' \in Nat
  BY TakenTypes DEF MainTransactionDrop
<1>. QED
  BY <1>1
  DEF TypeOK, MainTransactionDrop, envVars, routeVars, accountVars, chainVars

LEMMA MainTransactionReuseType ==
    ASSUME TypeOK, MainTransactionReuse
    PROVE  TypeOK'
<1>1. PICK i \in DOMAIN queue[Main], x \in dag : MainTransactionReuse!1!(i, x)
  BY DEF MainTransactionReuse
<1>2. queue' \in [Thread -> Seq(Message)] /\ cursor' \in Nat
  BY <1>1, TakenTypes
<1>3. queue[Main][i].tx \in TxIndex
  BY <1>1, TakenTypes, MessageTypes DEF MainTakes, IsNext
<1>4. dag' \in SUBSET Node
  BY <1>1, <1>3, TipType DEF TypeOK
<1>5. UNCHANGED <<envVars, g_index, fault, g_cs, at, done, routeVars,
                  accountVars, flag, group, listed, balance>>
  BY DEF MainTransactionReuse
<1>. QED
  BY <1>2, <1>4, <1>5 DEF TypeOK, envVars, routeVars, accountVars

LEMMA MainTransactionGenesisType ==
    ASSUME TypeOK, MainTransactionGenesis
    PROVE  TypeOK'
<1>1. PICK i \in DOMAIN queue[Main] : MainTransactionGenesis!1!(i)
  BY DEF MainTransactionGenesis
<1>2. queue' \in [Thread -> Seq(Message)] /\ cursor' \in Nat
  BY <1>1, TakenTypes
<1>3. queue[Main][i].tx \in TxIndex
  BY <1>1, TakenTypes, MessageTypes DEF MainTakes, IsNext
<1>4. dag' \in SUBSET Node
  BY <1>1, <1>3, TipType, PurgeType
<1>5. UNCHANGED <<envVars, g_index, fault, g_cs, at, done, routeVars,
                  accountVars, flag, group, listed, balance>>
  BY DEF MainTransactionGenesis
<1>. QED
  BY <1>2, <1>4, <1>5 DEF TypeOK, envVars, routeVars, accountVars

LEMMA MainTransactionDeferType ==
    ASSUME TypeOK, MainTransactionDefer
    PROVE  TypeOK'
<1>1. cursor' \in Nat
  BY TakenTypes DEF MainTransactionDefer
<1>. QED
  BY <1>1
  DEF TypeOK, MainTransactionDefer, envVars, routeVars, accountVars, chainVars

LEMMA MainTransactionFailType ==
    ASSUME TypeOK, MainTransactionFail
    PROVE  TypeOK'
<1>1. PICK i \in DOMAIN queue[Main], trunk \in dag, branch \in dag :
           MainTransactionFail!1!(i, trunk, branch)
  BY DEF MainTransactionFail
<1>2. PICK bad \in {trunk, branch} :
        /\ Verify(bad.tx) # "DONE"
        /\ dag' = (dag \ {bad}) \cup {[bad EXCEPT !.failed = TRUE]}
        /\ queue' = QueueInsert(QueueDelete(queue, Main, i),
                        HeavyOf(Src(bad.tx)),
                        Ledger(Verify(bad.tx), bad.tx, Src(bad.tx)))
  BY <1>1
<1>3. bad \in Node /\ bad.tx \in TxIndex
  BY DEF TypeOK, Node
<1>4. dag' \in SUBSET Node
  BY <1>2, <1>3 DEF TypeOK, Node
<1>5. queue' \in [Thread -> Seq(Message)]
  <2>1. Src(bad.tx) \in Device
    BY <1>3, DealTypes
  <2>2. Verify(bad.tx) \in Status
    BY <1>2 DEF Verify, Status
  <2>3. Ledger(Verify(bad.tx), bad.tx, Src(bad.tx)) \in Message
    BY <1>3, <2>1, <2>2, NewMessages
  <2>4. HeavyOf(Src(bad.tx)) \in Thread /\ Main \in Thread
    BY <2>1, HeavyOfThread DEF Thread
  <2>. QED  BY <1>2, <2>3, <2>4, QueueTypes
<1>6. cursor' \in Nat
  BY <1>1, TakenTypes
<1>. QED
  BY <1>4, <1>5, <1>6
  DEF TypeOK, MainTransactionFail, envVars, routeVars, accountVars

LEMMA TransferType ==
    ASSUME NEW b \in [Device -> Amount], NEW n \in TxIndex
    PROVE  Transfer(b, n) \in [Device -> Amount]
<1>1. Amount \subseteq Int
  BY LayerAssumption DEF Amount
<1>2. Src(n) \in Device /\ Dst(n) \in Device /\ Price(n) \in Int
  BY <1>1, DealTypes
<1>. DEFINE c == [b EXCEPT ![Src(n)] = Sub(b[Src(n)], Price(n))]
<1>3. c \in [Device -> Amount]
  <2>1. Sub(b[Src(n)], Price(n)) \in Amount
    BY <1>1, <1>2, AmountClosed
  <2>. QED  BY <2>1
<1>4. Transfer(b, n) = [c EXCEPT ![Dst(n)] = Add(c[Dst(n)], Price(n))]
  BY DEF Transfer
<1>. HIDE DEF c
<1>5. Add(c[Dst(n)], Price(n)) \in Amount
  BY <1>1, <1>2, <1>3, AmountClosed
<1>. QED  BY <1>3, <1>4, <1>5

LEMMA NotifyType ==
    ASSUME TypeOK, NEW q \in [Thread -> Seq(Message)], NEW n \in TxIndex
    PROVE  Notify(q, n) \in [Thread -> Seq(Message)]
<1>1. Src(n) \in Device /\ Dst(n) \in Device
  BY DealTypes
<1>2. HeavyOf(Src(n)) \in Thread /\ HeavyOf(Dst(n)) \in Thread
  BY <1>1, HeavyOfThread
<1>3. Ledger("SRC", n, Src(n)) \in Message /\ Ledger("DST", n, Dst(n)) \in Message
  BY <1>1, NewMessages DEF Status
<1>4. QueueInsert(q, HeavyOf(Src(n)), Ledger("SRC", n, Src(n)))
      \in [Thread -> Seq(Message)]
  BY <1>2, <1>3, QueueInsertProperties
<1>. QED  BY <1>2, <1>3, <1>4, QueueInsertProperties DEF Notify

LEMMA MainTransactionAttachType ==
    ASSUME TypeOK, MainTransactionAttach
    PROVE  TypeOK'
<1>1. PICK i \in DOMAIN queue[Main], trunk \in dag, branch \in dag :
           MainTransactionAttach!1!(i, trunk, branch)
  BY DEF MainTransactionAttach
<1>. DEFINE n == queue[Main][i].tx
            rest == QueueDelete(queue, Main, i)
            first == Unconfirmed(trunk)
            b1 == IF first THEN Transfer(balance, trunk.tx) ELSE balance
            q1 == IF first THEN Notify(rest, trunk.tx) ELSE rest
            kept == {[x EXCEPT !.confirmed = TRUE] : x \in {trunk, branch}}
<1>2. /\ trunk \in Node /\ branch \in Node
      /\ trunk.tx \in TxIndex /\ branch.tx \in TxIndex
  BY DEF TypeOK, Node
<1>3. n \in TxIndex
  BY <1>1, TakenTypes, MessageTypes DEF MainApproves, MainTakes, IsNext
<1>4. balance' \in [Device -> Amount]
  <2>1. b1 \in [Device -> Amount]
    BY <1>2, TransferType DEF TypeOK
  <2>2. balance' = b1 \/ balance' = Transfer(b1, branch.tx)
    BY <1>1
  <2>. HIDE DEF b1
  <2>. QED  BY <1>2, <2>1, <2>2, TransferType
<1>5. queue' \in [Thread -> Seq(Message)]
  <2>1. rest \in [Thread -> Seq(Message)]
    BY QueueTypes DEF Thread
  <2>2. q1 \in [Thread -> Seq(Message)]
    BY <1>2, <2>1, NotifyType
  <2>3. queue' = q1 \/ queue' = Notify(q1, branch.tx)
    BY <1>1
  <2>. HIDE DEF q1
  <2>. QED  BY <1>2, <2>2, <2>3, NotifyType
<1>6. dag' \in SUBSET Node
  <2>0. \A x \in Node : [x EXCEPT !.confirmed = TRUE] \in Node
    BY DEF Node
  <2>1. kept \in SUBSET Node
    BY <1>2, <2>0
  <2>2. {Tip(n)} \cup (dag \ {trunk, branch}) \cup kept \in SUBSET Node
    BY <1>3, <2>1, TipType DEF TypeOK
  <2>3. dag' = Purge({Tip(n)} \cup (dag \ {trunk, branch}) \cup kept)
    BY <1>1
  <2>. QED  BY <2>2, <2>3, PurgeType
<1>7. cursor' \in Nat
  BY <1>1, TakenTypes
<1>8. UNCHANGED <<envVars, g_index, fault, g_cs, at, done, routeVars,
                  accountVars, flag, group, listed>>
  BY DEF MainTransactionAttach
<1>. QED
  BY <1>4, <1>5, <1>6, <1>7, <1>8 DEF TypeOK, envVars, routeVars, accountVars

LEMMA MainTransactionSendType ==
    ASSUME TypeOK, MainTransactionSend
    PROVE  TypeOK'
<1>1. queue' \in [Thread -> Seq(Message)]
  BY NewMessages, QueueInsertProperties DEF MainTransactionSend, TypeOK, Thread
<1>. QED
  BY <1>1
  DEF TypeOK, MainTransactionSend, MainLeaves, envVars, routeVars, accountVars,
      chainVars

LEMMA MainLedgerSkipType ==
    ASSUME TypeOK, MainLedgerSkip
    PROVE  TypeOK'
<1>1. cursor' \in Nat
  BY TakenTypes DEF MainLedgerSkip
<1>. QED
  BY <1>1
  DEF TypeOK, MainLedgerSkip, envVars, routeVars, accountVars, chainVars

LEMMA MainLedgerFaultType ==
    ASSUME TypeOK, MainLedgerFault
    PROVE  TypeOK'
<1>1. fault' \in {"dangling", "list"}
  BY DEF MainLedgerFault
<1>. QED
  BY <1>1
  DEF TypeOK, MainLedgerFault, envVars, callVars, routeVars, accountVars, chainVars

LEMMA MainLedgerEndType ==
    ASSUME TypeOK, MainLedgerEnd
    PROVE  TypeOK'
BY DEF TypeOK, MainLedgerEnd, MainLeaves, envVars, routeVars, accountVars, chainVars

LEMMA MainCallType ==
    ASSUME TypeOK, MainCall
    PROVE  TypeOK'
BY MainConnectRecvType, MainConnectSendType, MainTransactionDropType,
   MainTransactionReuseType, MainTransactionGenesisType,
   MainTransactionDeferType, MainTransactionFailType,
   MainTransactionAttachType, MainTransactionSendType, MainLedgerSkipType,
   MainLedgerFaultType, MainLedgerEndType
DEF MainCall

LEMMA StartMainchainType ==
    ASSUME TypeOK, StartMainchain
    PROVE  TypeOK'
<1>1. queue' \in [Thread -> Seq(Message)]
  BY EmptySeq DEF TypeOK, StartMainchain
<1>. QED
  BY <1>1
  DEF TypeOK, StartMainchain, callVars, routeVars, accountVars, chainVars

LEMMA TimerType ==
    ASSUME TypeOK, Timer
    PROVE  TypeOK'
<1>1. ticks' \in 0 .. MaxTick /\ g_flag' \in {0, 1}
  BY LayerAssumption DEF TypeOK, Timer
<1>2. near' \in [Device -> SUBSET Device]
  BY LayerAssumption DEF Timer
<1>. QED
  BY <1>1, <1>2
  DEF TypeOK, Timer, callVars, routeVars, accountVars, chainVars

LEMMA TypeStep == TypeOK /\ [Next]_vars => TypeOK'
<1>. SUFFICES ASSUME TypeOK, [Next]_vars PROVE TypeOK'
  OBVIOUS
<1>1. CASE StartMainchain
  BY <1>1, StartMainchainType
<1>2. CASE Timer
  BY <1>2, TimerType
<1>3. CASE ProcessMainchain
  BY <1>3, ProcessMainchainType
<1>4. ASSUME NEW d \in Device, ProcessDevice(d) PROVE TypeOK'
  BY <1>4, ProcessDeviceType
<1>5. CASE MainCall
  BY <1>5, MainCallType
<1>6. ASSUME NEW d \in Device, DeviceCall(d) PROVE TypeOK'
  BY <1>6, DeviceCallType
<1>7. CASE UNCHANGED vars
  BY <1>7
  DEF TypeOK, vars, envVars, callVars, routeVars, accountVars, chainVars
<1>. QED  BY <1>1, <1>2, <1>3, <1>4, <1>5, <1>6, <1>7 DEF Next, Call

\* Every variable keeps its type: in particular the counters never leave a
\* 32-bit word, a queue only ever holds well-formed messages of queue_t, and
\* the devices named in routes, dags and messages exist (blockchain.cpp:47).
THEOREM TypeCorrect == Spec => []TypeOK
<1>1. Init => TypeOK
  BY InitType
<1>2. TypeOK /\ [Next]_vars => TypeOK'
  BY TypeStep
<1>. QED  BY <1>1, <1>2, PTL DEF Spec
=============================================================================
