---------------------------- MODULE DealProofs ----------------------------
(***************************************************************************)
(* What becomes of a deal: it is in one place at a time, it is decided     *)
(* once, and its tokens arrive once.  The proofs count messages; what each *)
(* action does to the counts is stated first, and only once.               *)
(***************************************************************************)
EXTENDS BlockchainProofs

-----------------------------------------------------------------------------
(* Counting messages *)

Tally(q, K) == Cardinality(Spots(q, K))

\* The messages that carry a deal or a notice.
Payload == {m \in Message : \/ m.step = "LEDGER"
                            \/ m.step = "TRANSACTION" /\ m.tx # 0}
DealOf(n) == {Transaction(n)}
NoticeOf(n, kinds) == {Ledger(s, n, x) : s \in kinds, x \in Device}
Final == {"SRC", "DEVICE", "LEDGER"}    \* what the source hears of a deal
Paying == {"DST", "DEVICE", "LEDGER"}   \* what makes tokens available

Is(m, K) == IF m \in K THEN 1 ELSE 0

\* The queues lose message out and get message in; a NullTransaction for
\* either is no payload and stands for nothing.
Moved(out, in) ==
    \A K \in SUBSET Payload :
        Tally(queue', K) = Tally(queue, K) - Is(out, K) + Is(in, K)

Waits(m) == \A K : m \in K => Tally(queue, K) > 0

LEMMA TallyType ==
    ASSUME NEW q \in [Thread -> Seq(Message)]
    PROVE  \A K : Tally(q, K) \in Nat
BY SpotsFinite DEF Tally

LEMMA PayloadTypes ==
    /\ \A n \in TxIndex : Transaction(n) \in Payload /\ DealOf(n) \in SUBSET Payload
    /\ \A s \in Status, n \in TxIndex, x \in Device : Ledger(s, n, x) \in Payload
    /\ \A n \in TxIndex, kinds \in SUBSET Status : NoticeOf(n, kinds) \in SUBSET Payload
    /\ NullTransaction \notin Payload
    /\ \A m \in ConnectMsg : m \notin Payload
    /\ Payload \subseteq Message
<1>1. \A n \in TxIndex : n # 0
  BY LenProperties, LayerAssumption DEF TxIndex
<1>2. \A n \in TxIndex : Transaction(n) \in Payload
  BY <1>1, NewMessages DEF Transaction, Payload
<1>3. \A s \in Status, n \in TxIndex, x \in Device : Ledger(s, n, x) \in Payload
  BY NewMessages DEF Ledger, Payload
<1>4. NullTransaction \notin Payload
  BY DEF NullTransaction, Transaction, Payload
<1>5. \A m \in ConnectMsg : m \notin Payload
  BY DEF ConnectMsg, Payload
<1>6. \A n \in TxIndex, kinds \in SUBSET Status : NoticeOf(n, kinds) \in SUBSET Payload
  BY <1>3 DEF NoticeOf
<1>. QED  BY <1>2, <1>3, <1>4, <1>5, <1>6 DEF DealOf, Payload

\* A payload message is one of these.
LEMMA PayloadForm ==
    ASSUME NEW m \in Payload
    PROVE  \/ \E n \in TxIndex : m = Transaction(n)
           \/ /\ m.step = "LEDGER" /\ m.status \in Status
              /\ m.tx \in TxIndex /\ m.device \in Device
              /\ m = Ledger(m.status, m.tx, m.device)
BY DEF Payload, Message, ConnectMsg, TransactionMsg, LedgerMsg, Transaction, Ledger

\* Which messages are of which kind.
LEMMA IsFacts ==
    ASSUME NEW k \in TxIndex, NEW kinds \in SUBSET Status
    PROVE  /\ \A n \in TxIndex :
                 /\ Is(Transaction(n), DealOf(k)) = IF n = k THEN 1 ELSE 0
                 /\ Is(Transaction(n), NoticeOf(k, kinds)) = 0
           /\ \A s \in Status, n \in TxIndex, x \in Device :
                 /\ Is(Ledger(s, n, x), DealOf(k)) = 0
                 /\ Is(Ledger(s, n, x), NoticeOf(k, kinds))
                    = IF n = k /\ s \in kinds THEN 1 ELSE 0
           /\ Is(NullTransaction, DealOf(k)) = 0
           /\ Is(NullTransaction, NoticeOf(k, kinds)) = 0
<1>1. ASSUME NEW n \in TxIndex
      PROVE  /\ Transaction(n) \in DealOf(k) <=> n = k
             /\ Transaction(n) \notin NoticeOf(k, kinds)
  <2>1. Transaction(n).tx = n /\ Transaction(k).tx = k
    BY DEF Transaction
  <2>2. \A s, x : Transaction(n).step # Ledger(s, k, x).step
    BY DEF Transaction, Ledger
  <2>. QED  BY <2>1, <2>2 DEF DealOf, NoticeOf
<1>2. ASSUME NEW s \in Status, NEW n \in TxIndex, NEW x \in Device
      PROVE  /\ Ledger(s, n, x) \notin DealOf(k)
             /\ Ledger(s, n, x) \in NoticeOf(k, kinds) <=> n = k /\ s \in kinds
  <2>1. Ledger(s, n, x).step # Transaction(k).step
    BY DEF Transaction, Ledger
  <2>2. \A r, y : Ledger(s, n, x) = Ledger(r, k, y) => s = r /\ n = k
    <3>1. \A r, j, y : Ledger(r, j, y).status = r /\ Ledger(r, j, y).tx = j
      BY DEF Ledger
    <3>. QED  BY <3>1
  <2>. QED  BY <2>1, <2>2 DEF DealOf, NoticeOf
<1>3. NullTransaction \notin DealOf(k) /\ NullTransaction \notin NoticeOf(k, kinds)
  BY PayloadTypes
<1>. QED  BY <1>1, <1>2, <1>3 DEF Is

LEMMA WaitsAt ==
    ASSUME TypeOK, NEW t \in Thread, NEW i \in DOMAIN queue[t]
    PROVE  Waits(queue[t][i])
<1>1. queue \in [Thread -> Seq(Message)]
  BY DEF TypeOK
<1>2. ASSUME NEW K, queue[t][i] \in K PROVE Cardinality(Spots(queue, K)) > 0
  <2>1. Cardinality(Spots(queue, K)) # 0
    BY <1>1, <1>2, CountNone
  <2>. QED  BY <1>1, <2>1, SpotsFinite
<1>. QED  BY <1>2 DEF Waits, Tally

-----------------------------------------------------------------------------
(* What the queue operations do to the counts *)

LEMMA MovedSame ==
    ASSUME TypeOK, queue' = queue
    PROVE  Moved(NullTransaction, NullTransaction)
<1>1. queue \in [Thread -> Seq(Message)]
  BY DEF TypeOK
<1>2. \A K \in SUBSET Payload : Is(NullTransaction, K) = 0
  BY PayloadTypes DEF Is
<1>3. \A K : Tally(queue, K) \in Nat
  BY <1>1, TallyType
<1>. QED  BY <1>2, <1>3 DEF Moved

\* Messages without payload are added, one per queue at most.
LEMMA MovedIdle ==
    ASSUME TypeOK, queue' \in [Thread -> Seq(Message)],
           \A t \in Thread : \/ queue'[t] = queue[t]
                             \/ \E m \in Message \ Payload :
                                   queue'[t] = Enqueue(queue[t], m)
    PROVE  Moved(NullTransaction, NullTransaction)
<1>0. queue \in [Thread -> Seq(Message)]
  BY DEF TypeOK
<1>1. ASSUME NEW K \in SUBSET Payload PROVE Tally(queue', K) = Tally(queue, K)
  <2>1. \A t \in Thread : \/ queue'[t] = queue[t]
                          \/ \E m \in Message \ K : queue'[t] = Enqueue(queue[t], m)
    OBVIOUS
  <2>. QED  BY <1>0, <2>1, CountOther DEF Tally
<1>2. \A K \in SUBSET Payload : Is(NullTransaction, K) = 0
  BY PayloadTypes DEF Is
<1>3. \A K : Tally(queue, K) \in Nat
  BY <1>0, TallyType
<1>. QED  BY <1>1, <1>2, <1>3 DEF Moved

LEMMA MovedInsert ==
    ASSUME TypeOK, NEW t \in Thread, NEW m \in Message, m.step # "CONNECT",
           queue' = QueueInsert(queue, t, m)
    PROVE  Moved(NullTransaction, m)
<1>0. queue \in [Thread -> Seq(Message)]
  BY DEF TypeOK
<1>1. ASSUME NEW K PROVE Tally(queue', K) = Tally(queue, K) + Is(m, K)
  BY <1>0, CountInsert DEF Tally, Is
<1>2. \A K \in SUBSET Payload : Is(NullTransaction, K) = 0
  BY PayloadTypes DEF Is
<1>3. \A K : Tally(queue, K) \in Nat /\ Is(m, K) \in Int
  BY <1>0, TallyType DEF Is
<1>. QED  BY <1>1, <1>2, <1>3 DEF Moved

LEMMA MovedDelete ==
    ASSUME TypeOK, NEW t \in Thread, NEW i \in DOMAIN queue[t],
           queue' = QueueDelete(queue, t, i)
    PROVE  Moved(queue[t][i], NullTransaction)
<1>0. queue \in [Thread -> Seq(Message)]
  BY DEF TypeOK
<1>1. ASSUME NEW K PROVE Tally(queue', K) = Tally(queue, K) - Is(queue[t][i], K)
  BY <1>0, CountDelete DEF Tally, Is
<1>2. \A K \in SUBSET Payload : Is(NullTransaction, K) = 0
  BY PayloadTypes DEF Is
<1>3. \A K : Tally(queue, K) \in Nat /\ Is(queue[t][i], K) \in Int
  BY <1>0, TallyType DEF Is
<1>. QED  BY <1>1, <1>2, <1>3 DEF Moved

LEMMA MovedForward ==
    ASSUME TypeOK, NEW t \in Thread, NEW i \in DOMAIN queue[t],
           NEW u \in Thread, NEW m \in Message, m.step # "CONNECT",
           queue' = QueueInsert(QueueDelete(queue, t, i), u, m)
    PROVE  Moved(queue[t][i], m)
<1>. DEFINE r == QueueDelete(queue, t, i)
<1>1. r \in [Thread -> Seq(Message)]
  BY QueueTypes
<1>2. ASSUME NEW K PROVE Tally(r, K) = Tally(queue, K) - Is(queue[t][i], K)
  <2>1. queue \in [Thread -> Seq(Message)]
    BY DEF TypeOK
  <2>. QED  BY <2>1, CountDelete DEF Tally, Is
<1>. HIDE DEF r
<1>3. ASSUME NEW K PROVE Tally(QueueInsert(r, u, m), K) = Tally(r, K) + Is(m, K)
  BY <1>1, CountInsert DEF Tally, Is
<1>. QED  BY <1>2, <1>3 DEF Moved, r

\* Replacing a message by itself, or none with payload by none, is nothing.
LEMMA MovedVoid ==
    ASSUME TypeOK, NEW out, NEW in, Moved(out, in),
           out = in \/ (out \notin Payload /\ in \notin Payload)
    PROVE  Moved(NullTransaction, NullTransaction)
<1>1. \A K : Tally(queue, K) \in Nat
  BY TallyType DEF TypeOK
<1>2. \A m, K : Is(m, K) \in {0, 1}
  BY DEF Is
<1>3. ASSUME NEW K \in SUBSET Payload
      PROVE  Is(out, K) = Is(in, K) /\ Is(NullTransaction, K) = 0
  BY PayloadTypes DEF Is
<1>. QED  BY <1>1, <1>2, <1>3 DEF Moved

-----------------------------------------------------------------------------
(* The effects of the actions *)

\* Nothing happens to any deal, notice or account.
Idle ==
    /\ Moved(NullTransaction, NullTransaction)
    /\ UNCHANGED <<g_index, booted, token, frozen, balance, dag>>

\* StartMainchain: messages to the mainchain are lost.
Cleared ==
    /\ \A K \in SUBSET Payload : Tally(queue', K) <= Tally(queue, K)
    /\ ~booted /\ booted'
    /\ UNCHANGED <<g_index, token, frozen, balance, dag>>

Skipped ==
    /\ g_index + 1 \in TxIndex
    /\ Price(g_index + 1) > token[Src(g_index + 1)]
    /\ g_index' = g_index + 1
    /\ Moved(NullTransaction, NullTransaction)
    /\ UNCHANGED <<booted, token, frozen, balance, dag>>

Issued ==
    LET n == g_index + 1
    IN  /\ n \in TxIndex
        /\ Price(n) <= token[Src(n)]
        /\ g_index' = n
        /\ \/ Moved(NullTransaction, NullTransaction)
           \/ Moved(NullTransaction, Transaction(n))
        /\ token' = [token EXCEPT ![Src(n)] = Sub(@, Price(n))]
        /\ frozen' = [frozen EXCEPT ![Src(n)] = Add(@, Price(n))]
        /\ UNCHANGED <<booted, balance, dag>>

\* A light device drops a deal that has reached it.
Dropped(n) ==
    /\ Waits(Transaction(n))
    /\ Moved(Transaction(n), NullTransaction)
    /\ UNCHANGED <<g_index, booted, token, frozen, balance, dag>>

\* A heavy device refuses a deal.
Refused(n) ==
    /\ Waits(Transaction(n))
    /\ Moved(Transaction(n), Ledger("LEDGER", n, Src(n)))
    /\ UNCHANGED <<g_index, booted, token, frozen, balance, dag>>

\* Device d settles the notice m of its queue.
Settled(d, m) ==
    /\ m \in ToSet(queue[d])
    /\ d \in Light \/ m.device \in Heavy
    /\ Waits(m)
    /\ Moved(m, NullTransaction)
    /\ Settle(d, m.status, Price(m.tx))
    /\ UNCHANGED <<g_index, booted, balance, dag>>

\* The deal becomes a tip that approves no other.
Placed(n) ==
    /\ g_cs = Main
    /\ Waits(Transaction(n))
    /\ Moved(Transaction(n), NullTransaction)
    /\ \/ \E x \in dag : x.failed /\ dag' = (dag \ {x}) \cup {Tip(n)}
       \/ dag = {} /\ dag' = Purge({Tip(n)})
    /\ UNCHANGED <<g_index, booted, token, frozen, balance>>

\* The deal picks a tip that does not verify, and goes.
Failed(n, bad) ==
    /\ g_cs = Main
    /\ Waits(Transaction(n))
    /\ bad \in dag
    /\ ~bad.failed
    /\ Verify(bad.tx) # "DONE"
    /\ \E s \in {"DEVICE", "LEDGER"} :
          Moved(Transaction(n), Ledger(s, bad.tx, Src(bad.tx)))
    /\ dag' = (dag \ {bad}) \cup {[bad EXCEPT !.failed = TRUE]}
    /\ UNCHANGED <<g_index, booted, token, frozen, balance>>

\* The two notices of a deal that is confirmed.
IsPair(n, K) == Is(Ledger("SRC", n, Src(n)), K) + Is(Ledger("DST", n, Dst(n)), K)

\* The deal becomes a tip and approves two others.
Attached(n, trunk, branch) ==
    LET first == Unconfirmed(trunk)
        second == Unconfirmed(branch) /\ trunk # branch
        b1 == IF first THEN Transfer(balance, trunk.tx) ELSE balance
    IN  /\ g_cs = Main
        /\ Waits(Transaction(n))
        /\ trunk \in dag /\ branch \in dag
        /\ \A x \in dag : ~x.failed
        /\ \A x \in {trunk, branch} : Verify(x.tx) = "DONE"
        /\ \A K \in SUBSET Payload :
              Tally(queue', K) = Tally(queue, K) - Is(Transaction(n), K)
                                 + (IF first THEN IsPair(trunk.tx, K) ELSE 0)
                                 + (IF second THEN IsPair(branch.tx, K) ELSE 0)
        /\ balance' = IF second THEN Transfer(b1, branch.tx) ELSE b1
        /\ dag' = Purge({Tip(n)} \cup (dag \ {trunk, branch})
                    \cup {[x EXCEPT !.confirmed = TRUE]
                             : x \in {trunk, branch}})
        /\ UNCHANGED <<g_index, booted, token, frozen>>

Effect ==
    \/ Idle \/ Cleared \/ Skipped \/ Issued
    \/ \E n \in TxIndex :
          \/ Dropped(n) \/ Refused(n) \/ Placed(n)
          \/ \E bad \in Node : Failed(n, bad)
          \/ \E trunk, branch \in Node : Attached(n, trunk, branch)
    \/ \E d \in Device : \E m \in LedgerMsg : Settled(d, m)

LEMMA ProcessDeviceEffect ==
    ASSUME TypeOK, NEW d \in Device, ProcessDevice(d)
    PROVE  Idle
<1>0. /\ d \in Thread /\ Main \in Thread /\ d # Main
      /\ queue \in [Thread -> Seq(Message)]
  BY LayerAssumption DEF Thread, Device, Main, TypeOK
<1>. DEFINE m == Index(d, route[d], copy[d])
            q == QueueInsert(queue, Main, m)
<1>1. m \in Message \ Payload /\ NullTransaction \in Message \ Payload
  BY NewIndex, NewMessages, PayloadTypes DEF TypeOK, Message
<1>. HIDE DEF m
<1>2. /\ q \in [Thread -> Seq(Message)] /\ q[Main] = Enqueue(queue[Main], m)
      /\ \A u \in Thread \ {Main} : q[u] = queue[u]
  BY <1>0, <1>1, QueueInsertProperties
<1>. HIDE DEF q
<1>. DEFINE r == QueueInsert(q, d, NullTransaction)
<1>3. /\ r \in [Thread -> Seq(Message)] /\ r[d] = Enqueue(q[d], NullTransaction)
      /\ \A u \in Thread \ {d} : r[u] = q[u]
  BY <1>0, <1>1, <1>2, QueueInsertProperties
<1>. HIDE DEF r
<1>4. queue' = queue \/ queue' = r
  BY DEF ProcessDevice, r, q, m
<1>5. Moved(NullTransaction, NullTransaction)
  <2>1. CASE queue' = queue
    BY <2>1, MovedSame
  <2>2. CASE queue' = r
    <3>1. \A t \in Thread : \/ queue'[t] = queue[t]
                            \/ \E k \in Message \ Payload : queue'[t] = Enqueue(queue[t], k)
      BY <1>0, <1>1, <1>2, <1>3, <2>2
    <3>. QED  BY <1>3, <2>2, <3>1, MovedIdle
  <2>. QED  BY <1>4, <2>1, <2>2
<1>. QED  BY <1>5 DEF Idle, ProcessDevice, envVars, accountVars, chainVars

LEMMA ConnectRecvEffect ==
    ASSUME TypeOK, NEW d \in Device, ConnectRecv(d)
    PROVE  Idle
<1>0. d \in Thread
  BY DEF Thread
<1>1. PICK i \in DOMAIN queue[d] : ConnectRecv(d)!2!(i)
  BY DEF ConnectRecv
<1>2. queue[d][i].step = "CONNECT" /\ queue' = QueueDelete(queue, d, i)
  BY <1>1 DEF IsNext
<1>3. queue[d][i] \notin Payload /\ NullTransaction \notin Payload
  BY <1>2, PayloadTypes DEF Payload
<1>4. Moved(NullTransaction, NullTransaction)
  BY <1>0, <1>2, <1>3, MovedDelete, MovedVoid
<1>. QED  BY <1>4 DEF Idle, ConnectRecv, envVars, accountVars, chainVars

LEMMA ConnectSendEffect ==
    ASSUME TypeOK, NEW d \in Device, ConnectSend(d)
    PROVE  Idle
<1>. DEFINE seen == near[d] \ Known(d)
            known == route[d] \cup seen
            quoted == [l \in Light |-> IF l \in seen THEN token[l]
                                       ELSE copy[d][l]]
            to == known \cup (IF d \in Heavy THEN {Main} ELSE {})
<1>1. \/ queue' = queue
      \/ queue' = [t \in Thread |->
                 CASE t = d -> Enqueue(queue[d], NullTransaction)
                   [] t # d /\ t \in to -> Enqueue(queue[t], Index(d, known, quoted))
                   [] OTHER -> queue[t]]
  BY DEF ConnectSend
<1>2. known \in SUBSET Device /\ quoted \in [Light -> Amount]
  BY DEF TypeOK, Light
<1>. HIDE DEF known, quoted, to
<1>3. /\ Index(d, known, quoted) \in Message \ Payload
      /\ NullTransaction \in Message \ Payload
  BY <1>2, NewIndex, NewMessages, PayloadTypes DEF Message
<1>4. \A t \in Thread : \/ queue'[t] = queue[t]
                        \/ queue'[t] = Enqueue(queue[t], NullTransaction)
                        \/ queue'[t] = Enqueue(queue[t], Index(d, known, quoted))
  <2>. DEFINE sent(t) ==
                 CASE t = d -> Enqueue(queue[d], NullTransaction)
                   [] t # d /\ t \in to -> Enqueue(queue[t], Index(d, known, quoted))
                   [] OTHER -> queue[t]
  <2>1. \A t \in Thread : \/ sent(t) = queue[t]
                          \/ sent(t) = Enqueue(queue[t], NullTransaction)
                          \/ sent(t) = Enqueue(queue[t], Index(d, known, quoted))
    OBVIOUS
  <2>2. queue' = queue \/ queue' = [t \in Thread |-> sent(t)]
    BY <1>1
  <2>. HIDE DEF sent
  <2>. QED  BY <2>1, <2>2
<1>5. queue' \in [Thread -> Seq(Message)]
  BY ConnectSendType DEF TypeOK
<1>6. Moved(NullTransaction, NullTransaction)
  <2>1. \A t \in Thread : \/ queue'[t] = queue[t]
                          \/ \E k \in Message \ Payload : queue'[t] = Enqueue(queue[t], k)
    BY <1>3, <1>4
  <2>. QED  BY <1>5, <2>1, MovedIdle
<1>. QED  BY <1>6 DEF Idle, ConnectSend, envVars, accountVars, chainVars

\* The deal a data message carries.
LEMMA DealAt ==
    ASSUME TypeOK, NEW t \in Thread, NEW i \in DOMAIN queue[t],
           queue[t][i].step = "TRANSACTION"
    PROVE  /\ queue[t][i].tx = 0 => queue[t][i] \notin Payload
           /\ queue[t][i].tx # 0 => /\ queue[t][i].tx \in TxIndex
                                    /\ queue[t][i] = Transaction(queue[t][i].tx)
                                    /\ Waits(Transaction(queue[t][i].tx))
<1>1. queue[t][i] \in Message
  BY QueueTypes
<1>2. queue[t][i].tx \in {0} \cup TxIndex
  BY <1>1, MessageTypes
<1>3. queue[t][i] = Transaction(queue[t][i].tx)
  BY <1>1 DEF Message, ConnectMsg, LedgerMsg, TransactionMsg, Transaction
<1>4. Waits(queue[t][i])
  BY WaitsAt
<1>. QED  BY <1>2, <1>3, <1>4 DEF Payload

LEMMA TransactionDropEffect ==
    ASSUME TypeOK, NEW d \in Device, TransactionDrop(d)
    PROVE  Idle \/ \E n \in TxIndex : Dropped(n)
<1>0. d \in Thread
  BY DEF Thread
<1>1. PICK i \in DOMAIN queue[d] : TransactionDrop(d)!1!(i)
  BY DEF TransactionDrop
<1>2. queue[d][i].step = "TRANSACTION" /\ queue' = QueueDelete(queue, d, i)
  BY <1>1 DEF DeviceTakes, IsNext
<1>3. Moved(queue[d][i], NullTransaction)
  BY <1>0, <1>2, MovedDelete
<1>4. UNCHANGED <<g_index, booted, token, frozen, balance, dag>>
  BY DEF TransactionDrop, envVars, accountVars, chainVars
<1>5. CASE queue[d][i].tx = 0
  <2>1. Moved(NullTransaction, NullTransaction)
    BY <1>0, <1>2, <1>3, <1>5, DealAt, PayloadTypes, MovedVoid
  <2>. QED  BY <1>4, <2>1 DEF Idle
<1>6. CASE queue[d][i].tx # 0
  BY <1>0, <1>2, <1>3, <1>4, <1>6, DealAt DEF Dropped
<1>. QED  BY <1>5, <1>6
LEMMA TransactionRecvEffect ==
    ASSUME TypeOK, NEW d \in Device, TransactionRecv(d)
    PROVE  Idle \/ \E n \in TxIndex : Refused(n)
<1>0. d \in Thread /\ Main \in Thread /\ Device \subseteq Thread
  BY DEF Thread
<1>1. PICK i \in DOMAIN queue[d] : TransactionRecv(d)!1!(i)
  BY DEF TransactionRecv
<1>. DEFINE n == queue[d][i].tx
<1>2. queue[d][i].step = "TRANSACTION" /\ n # 0
  BY <1>1 DEF DeviceTakes, IsNext
<1>3. n \in TxIndex /\ queue[d][i] = Transaction(n) /\ Waits(Transaction(n))
  BY <1>0, <1>2, DealAt
<1>4. \/ queue' = QueueInsert(QueueDelete(queue, d, i), Src(n), Ledger("LEDGER", n, Src(n)))
      \/ queue' = QueueInsert(QueueDelete(queue, d, i), Main, Transaction(n))
  BY <1>1
<1>5. UNCHANGED <<g_index, booted, token, frozen, balance, dag>>
  BY DEF TransactionRecv, envVars, accountVars, chainVars
<1>. HIDE DEF n
<1>6. CASE queue' = QueueInsert(QueueDelete(queue, d, i), Src(n), Ledger("LEDGER", n, Src(n)))
  <2>1. Src(n) \in Thread /\ Ledger("LEDGER", n, Src(n)) \in Message
    BY <1>0, <1>3, DealTypes, NewMessages DEF Status
  <2>2. Ledger("LEDGER", n, Src(n)).step # "CONNECT"
    BY DEF Ledger
  <2>3. Moved(Transaction(n), Ledger("LEDGER", n, Src(n)))
    BY <1>0, <1>3, <1>6, <2>1, <2>2, MovedForward
  <2>. QED  BY <1>3, <1>5, <2>3 DEF Refused
<1>7. CASE queue' = QueueInsert(QueueDelete(queue, d, i), Main, Transaction(n))
  <2>1. Transaction(n) \in Message /\ Transaction(n).step # "CONNECT"
    BY <1>3, NewMessages DEF Transaction
  <2>2. Moved(Transaction(n), Transaction(n))
    BY <1>0, <1>3, <1>7, <2>1, MovedForward
  <2>3. Moved(NullTransaction, NullTransaction)
    BY <2>2, MovedVoid
  <2>. QED  BY <1>5, <2>3 DEF Idle
<1>. QED  BY <1>4, <1>6, <1>7

\* An empty message or a CONNECT that a thread sends itself.
LEMMA AwakeEffect ==
    ASSUME TypeOK, NEW t \in Thread, NEW m \in Message, m \notin Payload,
           queue' = QueueInsert(queue, t, m)
    PROVE  Moved(NullTransaction, NullTransaction)
<1>0. queue \in [Thread -> Seq(Message)]
  BY DEF TypeOK
<1>1. /\ queue' \in [Thread -> Seq(Message)]
      /\ queue'[t] = Enqueue(queue[t], m)
      /\ \A u \in Thread \ {t} : queue'[u] = queue[u]
  BY <1>0, QueueInsertProperties
<1>2. \A u \in Thread : \/ queue'[u] = queue[u]
                        \/ \E k \in Message \ Payload : queue'[u] = Enqueue(queue[u], k)
  BY <1>1
<1>. QED  BY <1>1, <1>2, MovedIdle

LEMMA TransactionNoneEffect ==
    ASSUME TypeOK, NEW d \in Device, TransactionNone(d)
    PROVE  Idle \/ Skipped
<1>1. Moved(NullTransaction, NullTransaction)
  BY NewMessages, PayloadTypes, AwakeEffect DEF TransactionNone, StayAwake, Thread
<1>2. UNCHANGED <<booted, token, frozen, balance, dag>>
  BY DEF TransactionNone, envVars, accountVars, chainVars
<1>3. MyDeal(d) => g_index + 1 \in TxIndex /\ Src(g_index + 1) = d
  BY LenProperties, LayerAssumption DEF MyDeal, TypeOK, TxIndex
<1>. QED  BY <1>1, <1>2, <1>3 DEF TransactionNone, Idle, Skipped

LEMMA TransactionIssueEffect ==
    ASSUME TypeOK, NEW d \in Device, TransactionIssue(d)
    PROVE  Issued
<1>. DEFINE n == g_index + 1
<1>0. /\ d \in Thread /\ Heavy \subseteq Thread
      /\ queue \in [Thread -> Seq(Message)]
  BY LayerAssumption DEF Thread, Device, Heavy, TypeOK
<1>1. n \in TxIndex /\ Src(n) = d
  BY LenProperties, LayerAssumption DEF TransactionIssue, MyDeal, TypeOK, TxIndex
<1>2. /\ Transaction(n) \in Message /\ Transaction(n).step # "CONNECT"
      /\ NullTransaction \in Message /\ NullTransaction \notin Payload
      /\ NullTransaction.step # "CONNECT"
  BY <1>1, NewMessages, PayloadTypes DEF Transaction, NullTransaction
<1>3. /\ g_index' = n
      /\ Price(n) <= token[d]
      /\ token' = [token EXCEPT ![d] = Sub(@, Price(n))]
      /\ frozen' = [frozen EXCEPT ![d] = Add(@, Price(n))]
      /\ UNCHANGED <<booted, balance, dag>>
  BY DEF TransactionIssue, envVars, chainVars
<1>4. \/ queue' = QueueInsert(queue, d, Transaction(n))
      \/ /\ gate[d] # Nobody /\ d \in Light
         /\ queue' = QueueInsert(QueueInsert(queue, d, NullTransaction),
                                 gate[d], Transaction(n))
      \/ queue' = QueueInsert(queue, d, NullTransaction)
  BY DEF TransactionIssue, StayAwake
<1>. HIDE DEF n
<1>5. ASSUME gate[d] # Nobody, d \in Light,
             queue' = QueueInsert(QueueInsert(queue, d, NullTransaction),
                                  gate[d], Transaction(n))
      PROVE  Moved(NullTransaction, Transaction(n))
  <2>. DEFINE q == QueueInsert(queue, d, NullTransaction)
  <2>1. q \in [Thread -> Seq(Message)]
    BY <1>0, <1>2, QueueInsertProperties
  <2>2. gate[d] \in Thread
    BY <1>0, <1>5 DEF TypeOK
  <2>3. ASSUME NEW K PROVE Tally(q, K) = Tally(queue, K) + Is(NullTransaction, K)
    BY <1>0, <1>2, CountInsert DEF Tally, Is
  <2>4. queue' = QueueInsert(q, gate[d], Transaction(n))
    BY <1>5
  <2>. HIDE DEF q
  <2>5. ASSUME NEW K PROVE Tally(queue', K) = Tally(q, K) + Is(Transaction(n), K)
    BY <1>2, <2>1, <2>2, <2>4, CountInsert DEF Tally, Is
  <2>6. \A K \in SUBSET Payload : Is(NullTransaction, K) = 0
    BY <1>2 DEF Is
  <2>7. \A K : Tally(queue, K) \in Nat /\ Is(Transaction(n), K) \in Int
    BY <1>0, TallyType DEF Is
  <2>. QED  BY <2>3, <2>5, <2>6, <2>7 DEF Moved
<1>8. \/ Moved(NullTransaction, NullTransaction)
      \/ Moved(NullTransaction, Transaction(n))
  <2>1. CASE queue' = QueueInsert(queue, d, NullTransaction)
    BY <1>0, <1>2, <2>1, AwakeEffect
  <2>2. CASE queue' = QueueInsert(queue, d, Transaction(n))
    BY <1>0, <1>2, <2>2, MovedInsert
  <2>. QED  BY <1>4, <1>5, <2>1, <2>2
<1>. QED  BY <1>1, <1>3, <1>8 DEF Issued, n

LEMMA LedgerRecvEffect ==
    ASSUME TypeOK, NEW d \in Device, LedgerRecv(d)
    PROVE  Idle \/ \E m \in LedgerMsg : Settled(d, m)
<1>0. d \in Thread /\ Device \subseteq Thread
  BY DEF Thread
<1>1. PICK i \in DOMAIN queue[d] : LedgerRecv(d)!1!(i)
  BY DEF LedgerRecv
<1>. DEFINE m == queue[d][i]
<1>2. m \in LedgerMsg /\ m \in Message /\ Waits(m)
  <2>1. m.step = "LEDGER"
    BY <1>1 DEF DeviceTakes, IsNext
  <2>2. m \in Message
    BY <1>0, QueueTypes
  <2>3. Waits(m)
    BY <1>0, WaitsAt
  <2>. QED  BY <2>1, <2>2, <2>3 DEF Message, ConnectMsg, TransactionMsg
<1>3. UNCHANGED <<g_index, booted, balance, dag>>
  BY DEF LedgerRecv, envVars, chainVars
<1>4. CASE /\ Settle(d, m.status, Price(m.tx))
           /\ queue' = QueueDelete(queue, d, i)
           /\ d \in Light \/ m.device \in Heavy
  <2>1. Moved(m, NullTransaction)
    BY <1>0, <1>4, MovedDelete
  <2>2. m \in ToSet(queue[d])
    BY <1>0, ToSetMember DEF TypeOK
  <2>. QED  BY <1>2, <1>3, <1>4, <2>1, <2>2 DEF Settled
<1>5. CASE /\ m.device \in Known(d) \cap Light
           /\ queue' = QueueInsert(QueueDelete(queue, d, i), m.device, m)
           /\ UNCHANGED accountVars
  <2>1. m.device \in Thread /\ m.step # "CONNECT"
    BY <1>0, <1>2 DEF LedgerMsg
  <2>2. Moved(m, m)
    BY <1>0, <1>2, <1>5, <2>1, MovedForward
  <2>3. Moved(NullTransaction, NullTransaction)
    BY <2>2, MovedVoid
  <2>. QED  BY <1>3, <1>5, <2>3 DEF Idle, accountVars
<1>. QED  BY <1>1, <1>4, <1>5

LEMMA DeviceCallEffect ==
    ASSUME TypeOK, NEW d \in Device, DeviceCall(d)
    PROVE  Effect
<1>1. CASE ConnectRecv(d)
  BY <1>1, ConnectRecvEffect DEF Effect
<1>2. CASE ConnectSend(d)
  BY <1>2, ConnectSendEffect DEF Effect
<1>3. CASE TransactionDrop(d)
  BY <1>3, TransactionDropEffect DEF Effect
<1>4. CASE TransactionRecv(d)
  BY <1>4, TransactionRecvEffect DEF Effect
<1>5. CASE TransactionNone(d)
  BY <1>5, TransactionNoneEffect DEF Effect
<1>6. CASE TransactionIssue(d)
  BY <1>6, TransactionIssueEffect DEF Effect
<1>7. CASE LedgerRecv(d)
  BY <1>7, LedgerRecvEffect DEF Effect
<1>8. CASE LedgerUnknown(d)
  <2>1. UNCHANGED <<queue, g_index, booted, token, frozen, balance, dag>>
    BY <1>8 DEF LedgerUnknown, envVars, accountVars, chainVars
  <2>. QED  BY <2>1, MovedSame DEF Effect, Idle
<1>9. CASE LedgerSend(d)
  <2>1. /\ queue' = QueueInsert(queue, d, EmptyIndex(d))
        /\ UNCHANGED <<g_index, booted, token, frozen, balance, dag>>
    BY <1>9 DEF LedgerSend, envVars, accountVars, chainVars
  <2>2. EmptyIndex(d) \in Message /\ EmptyIndex(d) \notin Payload /\ d \in Thread
    BY NewEmptyIndex, PayloadTypes DEF Message, Thread
  <2>. QED  BY <2>1, <2>2, AwakeEffect DEF Effect, Idle
<1>. QED
  BY <1>1, <1>2, <1>3, <1>4, <1>5, <1>6, <1>7, <1>8, <1>9 DEF DeviceCall

LEMMA MainConnectRecvEffect ==
    ASSUME TypeOK, MainConnectRecv
    PROVE  Idle
<1>1. PICK i \in DOMAIN queue[Main] : MainConnectRecv!2!(i)
  BY DEF MainConnectRecv
<1>2. queue[Main][i].step = "CONNECT" /\ queue' = QueueDelete(queue, Main, i)
  BY <1>1 DEF IsNext
<1>3. queue[Main][i] \notin Payload /\ NullTransaction \notin Payload /\ Main \in Thread
  BY <1>2, PayloadTypes DEF Payload, Thread
<1>4. Moved(NullTransaction, NullTransaction)
  BY <1>2, <1>3, MovedDelete, MovedVoid
<1>. QED  BY <1>4 DEF Idle, MainConnectRecv, envVars, accountVars

\* The data message the mainchain takes.
LEMMA MainDeal ==
    ASSUME TypeOK, NEW i \in DOMAIN queue[Main], MainTakes(i, "TRANSACTION")
    PROVE  /\ g_cs = Main
           /\ queue[Main][i].tx = 0 => queue[Main][i] \notin Payload
           /\ queue[Main][i].tx # 0 => /\ queue[Main][i].tx \in TxIndex
                                       /\ queue[Main][i] = Transaction(queue[Main][i].tx)
                                       /\ Waits(Transaction(queue[Main][i].tx))
<1>1. g_cs = Main /\ queue[Main][i].step = "TRANSACTION" /\ Main \in Thread
  BY DEF MainTakes, MainRuns, IsNext, Thread
<1>. QED  BY <1>1, DealAt

LEMMA MainTransactionDropEffect ==
    ASSUME TypeOK, MainTransactionDrop
    PROVE  Idle
<1>1. PICK i \in DOMAIN queue[Main] : MainTransactionDrop!1!(i)
  BY DEF MainTransactionDrop
<1>2. queue[Main][i] \notin Payload /\ NullTransaction \notin Payload
  BY <1>1, MainDeal, PayloadTypes
<1>3. queue' = QueueDelete(queue, Main, i) /\ Main \in Thread
  BY <1>1 DEF Taken, Thread
<1>4. Moved(NullTransaction, NullTransaction)
  BY <1>2, <1>3, MovedDelete, MovedVoid
<1>. QED  BY <1>4 DEF Idle, MainTransactionDrop, envVars, accountVars, chainVars

LEMMA MainTransactionReuseEffect ==
    ASSUME TypeOK, MainTransactionReuse
    PROVE  \E n \in TxIndex : Placed(n)
<1>0. PICK i \in DOMAIN queue[Main] : \E x \in dag : MainTransactionReuse!1!(i, x)
  BY DEF MainTransactionReuse
<1>1. PICK x \in dag : MainTransactionReuse!1!(i, x)
  BY <1>0
<1>. DEFINE n == queue[Main][i].tx
<1>2. /\ g_cs = Main /\ n \in TxIndex /\ queue[Main][i] = Transaction(n)
      /\ Waits(Transaction(n))
  BY <1>1, MainDeal
<1>3. queue' = QueueDelete(queue, Main, i) /\ Main \in Thread
  BY <1>1 DEF Taken, Thread
<1>4. Moved(Transaction(n), NullTransaction)
  BY <1>2, <1>3, MovedDelete
<1>5. /\ \E y \in dag : y.failed /\ dag' = (dag \ {y}) \cup {Tip(n)}
      /\ UNCHANGED <<g_index, booted, token, frozen, balance>>
  BY <1>1 DEF MainTransactionReuse, envVars, accountVars
<1>. QED  BY <1>2, <1>4, <1>5 DEF Placed

LEMMA MainTransactionGenesisEffect ==
    ASSUME TypeOK, MainTransactionGenesis
    PROVE  \E n \in TxIndex : Placed(n)
<1>1. PICK i \in DOMAIN queue[Main] : MainTransactionGenesis!1!(i)
  BY DEF MainTransactionGenesis
<1>. DEFINE n == queue[Main][i].tx
<1>2. /\ g_cs = Main /\ n \in TxIndex /\ queue[Main][i] = Transaction(n)
      /\ Waits(Transaction(n))
  BY <1>1, MainDeal
<1>3. queue' = QueueDelete(queue, Main, i) /\ Main \in Thread
  BY <1>1 DEF Taken, Thread
<1>4. Moved(Transaction(n), NullTransaction)
  BY <1>2, <1>3, MovedDelete
<1>5. /\ dag = {} /\ dag' = Purge({Tip(n)})
      /\ UNCHANGED <<g_index, booted, token, frozen, balance>>
  BY <1>1 DEF MainTransactionGenesis, envVars, accountVars
<1>. QED  BY <1>2, <1>4, <1>5 DEF Placed

LEMMA MainTransactionFailEffect ==
    ASSUME TypeOK, MainTransactionFail
    PROVE  \E n \in TxIndex : \E bad \in Node : Failed(n, bad)
<1>0. PICK i \in DOMAIN queue[Main] :
          \E trunk, branch \in dag : MainTransactionFail!1!(i, trunk, branch)
  BY DEF MainTransactionFail
<1>1a. PICK trunk \in dag : \E branch \in dag : MainTransactionFail!1!(i, trunk, branch)
  BY <1>0
<1>1. PICK branch \in dag : MainTransactionFail!1!(i, trunk, branch)
  BY <1>1a
<1>. DEFINE n == queue[Main][i].tx
<1>2. /\ g_cs = Main /\ n \in TxIndex /\ queue[Main][i] = Transaction(n)
      /\ Waits(Transaction(n))
  BY <1>1, MainDeal DEF MainApproves
<1>3. PICK bad \in {trunk, branch} :
         /\ Verify(bad.tx) # "DONE"
         /\ dag' = (dag \ {bad}) \cup {[bad EXCEPT !.failed = TRUE]}
         /\ queue' = QueueInsert(QueueDelete(queue, Main, i),
                         HeavyOf(Src(bad.tx)),
                         Ledger(Verify(bad.tx), bad.tx, Src(bad.tx)))
  BY <1>1
<1>4. bad \in dag /\ bad \in Node /\ bad.tx \in TxIndex /\ ~bad.failed
  BY <1>1, <1>3 DEF TypeOK, Node, MainApproves
<1>5. Verify(bad.tx) \in {"DEVICE", "LEDGER"}
  BY <1>3 DEF Verify
<1>. DEFINE s == Verify(bad.tx)
<1>. HIDE DEF n, s
<1>6. Moved(Transaction(n), Ledger(s, bad.tx, Src(bad.tx)))
  <2>1. s \in Status /\ Src(bad.tx) \in Device
    BY <1>4, <1>5, DealTypes DEF Status, s
  <2>2. Ledger(s, bad.tx, Src(bad.tx)) \in Message
    BY <1>4, <2>1, NewMessages
  <2>3. Ledger(s, bad.tx, Src(bad.tx)).step # "CONNECT"
    BY DEF Ledger
  <2>4. HeavyOf(Src(bad.tx)) \in Thread /\ Main \in Thread
    BY <2>1, HeavyOfThread DEF Thread
  <2>. QED  BY <1>2, <1>3, <2>2, <2>3, <2>4, MovedForward DEF s
<1>7. UNCHANGED <<g_index, booted, token, frozen, balance>>
  BY DEF MainTransactionFail, envVars, accountVars
<1>. QED  BY <1>2, <1>3, <1>4, <1>5, <1>6, <1>7 DEF Failed, s

LEMMA NotifyCount ==
    ASSUME TypeOK, NEW q \in [Thread -> Seq(Message)], NEW n \in TxIndex
    PROVE  /\ Notify(q, n) \in [Thread -> Seq(Message)]
           /\ \A K : Tally(Notify(q, n), K) = Tally(q, K) + IsPair(n, K)
<1>. DEFINE m == Ledger("SRC", n, Src(n))
            k == Ledger("DST", n, Dst(n))
            h == HeavyOf(Src(n))
            g == HeavyOf(Dst(n))
            p == QueueInsert(q, h, m)
            r == QueueInsert(p, g, k)
<1>1. /\ m \in Message /\ m.step # "CONNECT"
      /\ k \in Message /\ k.step # "CONNECT"
  <2>1. m.step = "LEDGER" /\ k.step = "LEDGER"
    BY DEF Ledger
  <2>. QED  BY <2>1, DealTypes, NewMessages DEF Status
<1>2. h \in Thread /\ g \in Thread
  BY DealTypes, HeavyOfThread
<1>. HIDE DEF m, k, h, g
<1>3. p \in [Thread -> Seq(Message)]
  BY <1>1, <1>2, QueueInsertProperties
<1>4. ASSUME NEW K PROVE Tally(p, K) = Tally(q, K) + Is(m, K)
  BY <1>1, <1>2, CountInsert DEF Tally, Is
<1>. HIDE DEF p
<1>5. r \in [Thread -> Seq(Message)]
  BY <1>1, <1>2, <1>3, QueueInsertProperties
<1>6. ASSUME NEW K PROVE Tally(r, K) = Tally(p, K) + Is(k, K)
  BY <1>1, <1>2, <1>3, CountInsert DEF Tally, Is
<1>. HIDE DEF r
<1>7. \A K : Tally(q, K) \in Nat /\ Is(m, K) \in Int /\ Is(k, K) \in Int
  BY TallyType DEF Is
<1>8. ASSUME NEW K PROVE Tally(r, K) = Tally(q, K) + IsPair(n, K)
  BY <1>4, <1>6, <1>7 DEF IsPair, m, k
<1>9. Notify(q, n) = r
  BY DEF Notify, r, p, m, k, h, g
<1>. QED  BY <1>5, <1>8, <1>9

LEMMA MainTransactionAttachEffect ==
    ASSUME TypeOK, MainTransactionAttach
    PROVE  \E n \in TxIndex : \E trunk, branch \in Node : Attached(n, trunk, branch)
<1>0. PICK i \in DOMAIN queue[Main] :
          \E trunk, branch \in dag : MainTransactionAttach!1!(i, trunk, branch)
  BY DEF MainTransactionAttach
<1>1a. PICK trunk \in dag : \E branch \in dag : MainTransactionAttach!1!(i, trunk, branch)
  BY <1>0
<1>1. PICK branch \in dag : MainTransactionAttach!1!(i, trunk, branch)
  BY <1>1a
<1>. DEFINE n == queue[Main][i].tx
            first == Unconfirmed(trunk)
            second == Unconfirmed(branch) /\ trunk # branch
            rest == QueueDelete(queue, Main, i)
            b1 == IF first THEN Transfer(balance, trunk.tx) ELSE balance
            q1 == IF first THEN Notify(rest, trunk.tx) ELSE rest
<1>2. /\ g_cs = Main /\ n \in TxIndex /\ queue[Main][i] = Transaction(n)
      /\ Waits(Transaction(n)) /\ Main \in Thread
  BY <1>1, MainDeal DEF MainApproves, Thread
<1>3. /\ trunk \in Node /\ branch \in Node
      /\ trunk.tx \in TxIndex /\ branch.tx \in TxIndex
      /\ \A x \in dag : ~x.failed
      /\ \A x \in {trunk, branch} : Verify(x.tx) = "DONE"
  BY <1>1 DEF TypeOK, Node, MainApproves
<1>4. /\ balance' = IF second THEN Transfer(b1, branch.tx) ELSE b1
      /\ queue' = IF second THEN Notify(q1, branch.tx) ELSE q1
      /\ dag' = Purge({Tip(n)} \cup (dag \ {trunk, branch})
                        \cup {[x EXCEPT !.confirmed = TRUE]
                                 : x \in {trunk, branch}})
      /\ UNCHANGED <<g_index, booted, token, frozen>>
  BY <1>1 DEF MainTransactionAttach, envVars, accountVars
<1>5. rest \in [Thread -> Seq(Message)]
  BY <1>2, QueueTypes
<1>6. ASSUME NEW K PROVE Tally(rest, K) = Tally(queue, K) - Is(Transaction(n), K)
  <2>1. queue \in [Thread -> Seq(Message)]
    BY DEF TypeOK
  <2>. QED  BY <1>2, <2>1, CountDelete DEF Tally, Is
<1>. HIDE DEF rest
<1>7. /\ q1 \in [Thread -> Seq(Message)]
      /\ \A K : Tally(q1, K) = Tally(rest, K)
                               + (IF first THEN IsPair(trunk.tx, K) ELSE 0)
  <2>1. CASE first
    BY <1>3, <1>5, <2>1, NotifyCount
  <2>2. CASE ~first
    BY <1>5, <2>2, TallyType
  <2>. QED  BY <2>1, <2>2
<1>. HIDE DEF first, second, q1
<1>8. \A K : Tally(queue', K) = Tally(q1, K)
                                + (IF second THEN IsPair(branch.tx, K) ELSE 0)
  <2>1. CASE second
    BY <1>3, <1>4, <1>7, <2>1, NotifyCount
  <2>2. CASE ~second
    BY <1>4, <1>7, <2>2, TallyType
  <2>. QED  BY <2>1, <2>2
<1>9. \A K \in SUBSET Payload :
         Tally(queue', K) = Tally(queue, K) - Is(Transaction(n), K)
                            + (IF first THEN IsPair(trunk.tx, K) ELSE 0)
                            + (IF second THEN IsPair(branch.tx, K) ELSE 0)
  BY <1>6, <1>7, <1>8
<1>10. Attached(n, trunk, branch)
  BY <1>2, <1>3, <1>4, <1>9 DEF Attached, first, second
<1>. QED  BY <1>2, <1>3, <1>10

LEMMA MainCallEffect ==
    ASSUME TypeOK, MainCall
    PROVE  Effect
<1>. Main \in Thread /\ NullTransaction \in Message /\ NullTransaction \notin Payload
  BY NewMessages, PayloadTypes DEF Thread
<1>1. CASE MainConnectRecv
  BY <1>1, MainConnectRecvEffect DEF Effect
<1>2. CASE MainConnectSend \/ MainTransactionSend
  <2>1. /\ queue' = QueueInsert(queue, Main, NullTransaction)
        /\ UNCHANGED <<g_index, booted, token, frozen, balance, dag>>
    BY <1>2 DEF MainConnectSend, MainTransactionSend, envVars, accountVars, chainVars
  <2>. QED  BY <2>1, AwakeEffect DEF Effect, Idle
<1>3. CASE MainTransactionDrop
  BY <1>3, MainTransactionDropEffect DEF Effect
<1>4. CASE MainTransactionReuse
  BY <1>4, MainTransactionReuseEffect DEF Effect
<1>5. CASE MainTransactionGenesis
  BY <1>5, MainTransactionGenesisEffect DEF Effect
<1>6. CASE MainTransactionFail
  BY <1>6, MainTransactionFailEffect DEF Effect
<1>7. CASE MainTransactionAttach
  BY <1>7, MainTransactionAttachEffect DEF Effect
<1>8. CASE MainTransactionDefer \/ MainLedgerSkip \/ MainLedgerFault \/ MainLedgerEnd
  <2>1. UNCHANGED <<queue, g_index, booted, token, frozen, balance, dag>>
    BY <1>8
    DEF MainTransactionDefer, MainLedgerSkip, MainLedgerFault, MainLedgerEnd,
        envVars, accountVars, chainVars
  <2>. QED  BY <2>1, MovedSame DEF Effect, Idle
<1>. QED
  BY <1>1, <1>2, <1>3, <1>4, <1>5, <1>6, <1>7, <1>8 DEF MainCall

\* Every step of the program has one of the effects above.
LEMMA StepEffect ==
    ASSUME TypeOK, [Next]_vars
    PROVE  Effect
<1>1. CASE StartMainchain
  <2>1. queue \in [Thread -> Seq(Message)]
    BY DEF TypeOK
  <2>2. queue' \in [Thread -> Seq(Message)]
    BY <1>1, StartMainchainType DEF TypeOK
  <2>3. \A t \in Thread : queue'[t] = queue[t] \/ queue'[t] = <<>>
    BY <1>1, <2>1 DEF StartMainchain
  <2>4. \A K : Tally(queue', K) <= Tally(queue, K)
    BY <2>1, <2>2, <2>3, CountFewer DEF Tally
  <2>. QED  BY <1>1, <2>4 DEF Effect, Cleared, StartMainchain, accountVars, chainVars
<1>2. CASE Timer \/ ProcessMainchain \/ UNCHANGED vars
  <2>1. UNCHANGED <<queue, g_index, booted, token, frozen, balance, dag>>
    BY <1>2
    DEF Timer, ProcessMainchain, vars, envVars, accountVars, chainVars
  <2>. QED  BY <2>1, MovedSame DEF Effect, Idle
<1>3. ASSUME NEW d \in Device, ProcessDevice(d) PROVE Effect
  BY <1>3, ProcessDeviceEffect DEF Effect
<1>4. CASE MainCall
  BY <1>4, MainCallEffect
<1>5. ASSUME NEW d \in Device, DeviceCall(d) PROVE Effect
  BY <1>5, DeviceCallEffect
<1>. QED  BY <1>1, <1>2, <1>3, <1>4, <1>5 DEF Next, Call

-----------------------------------------------------------------------------
(* A deal is in one place at a time *)

\* The properties' sets of places are those the lemmas count.
LEMMA HeldSpots ==
    ASSUME NEW q \in [Thread -> Seq(Message)], NEW n \in TxIndex
    PROVE  {p \in UNION {{t} \X DOMAIN q[t] : t \in Thread} :
               q[p[1]][p[2]].step = "TRANSACTION" /\ q[p[1]][p[2]].tx = n}
           = Spots(q, DealOf(n))
<1>1. ASSUME NEW t \in Thread, NEW i \in DOMAIN q[t]
      PROVE  q[t][i] \in DealOf(n) <=> q[t][i].step = "TRANSACTION" /\ q[t][i].tx = n
  <2>1. q[t][i] \in Message
    BY ElementOfSeq, LenProperties
  <2>. QED
    BY <2>1 DEF Message, ConnectMsg, LedgerMsg, TransactionMsg, DealOf, Transaction
<1>. QED  BY <1>1 DEF Spots

LEMMA NoticesSpots ==
    ASSUME NEW q \in [Thread -> Seq(Message)], NEW n \in TxIndex,
           NEW kinds \in SUBSET Status
    PROVE  {p \in UNION {{t} \X DOMAIN q[t] : t \in Thread} :
               /\ q[p[1]][p[2]].step = "LEDGER"
               /\ q[p[1]][p[2]].tx = n
               /\ q[p[1]][p[2]].status \in kinds}
           = Spots(q, NoticeOf(n, kinds))
<1>1. ASSUME NEW t \in Thread, NEW i \in DOMAIN q[t]
      PROVE  q[t][i] \in NoticeOf(n, kinds) <=> /\ q[t][i].step = "LEDGER"
                                                /\ q[t][i].tx = n
                                                /\ q[t][i].status \in kinds
  <2>1. q[t][i] \in Message
    BY ElementOfSeq, LenProperties
  <2>2. ASSUME q[t][i].step = "LEDGER"
        PROVE  /\ q[t][i] = Ledger(q[t][i].status, q[t][i].tx, q[t][i].device)
               /\ q[t][i].device \in Device
    BY <2>1, <2>2 DEF Message, ConnectMsg, LedgerMsg, TransactionMsg, Ledger
  <2>3. \A s, x : /\ Ledger(s, n, x).step = "LEDGER"
                  /\ Ledger(s, n, x).tx = n
                  /\ Ledger(s, n, x).status = s
    BY DEF Ledger
  <2>. QED  BY <2>2, <2>3 DEF NoticeOf
<1>. QED  BY <1>1 DEF Spots

LEMMA MovedCounts ==
    ASSUME NEW out, NEW in, Moved(out, in), NEW k \in TxIndex,
           NEW kinds \in SUBSET Status
    PROVE  /\ Tally(queue', DealOf(k)) = Tally(queue, DealOf(k))
                                         - Is(out, DealOf(k)) + Is(in, DealOf(k))
           /\ Tally(queue', NoticeOf(k, kinds))
              = Tally(queue, NoticeOf(k, kinds))
                - Is(out, NoticeOf(k, kinds)) + Is(in, NoticeOf(k, kinds))
BY PayloadTypes DEF Moved

LEMMA PairCounts ==
    ASSUME NEW n \in TxIndex, NEW k \in TxIndex, NEW kinds \in SUBSET Status
    PROVE  /\ IsPair(n, DealOf(k)) = 0
           /\ IsPair(n, NoticeOf(k, kinds))
              = (IF n = k /\ "SRC" \in kinds THEN 1 ELSE 0)
                + (IF n = k /\ "DST" \in kinds THEN 1 ELSE 0)
BY DealTypes, IsFacts DEF IsPair, Status

LEMMA WaitsDeal ==
    ASSUME NEW n, Waits(Transaction(n))
    PROVE  Tally(queue, DealOf(n)) > 0
BY DEF Waits, DealOf

LEMMA WaitsNotice ==
    ASSUME NEW m \in LedgerMsg, Waits(m), NEW kinds, m.status \in kinds
    PROVE  Tally(queue, NoticeOf(m.tx, kinds)) > 0
<1>1. m = Ledger(m.status, m.tx, m.device) /\ m.device \in Device
  BY DEF LedgerMsg, Ledger
<1>. QED  BY <1>1 DEF Waits, NoticeOf

\* A node whose deal becomes part of the dag.
Confirm(x) == [x EXCEPT !.confirmed = TRUE]
Fail(x) == [x EXCEPT !.failed = TRUE]

LEMMA NodeFacts ==
    /\ \A x \in Node : /\ x.tx \in TxIndex
                       /\ x.confirmed \in BOOLEAN /\ x.failed \in BOOLEAN
                       /\ Confirm(x) \in Node /\ Fail(x) \in Node
                       /\ Confirm(x).tx = x.tx /\ Fail(x).tx = x.tx
                       /\ Confirm(x).confirmed /\ Confirm(x).failed = x.failed
                       /\ Fail(x).failed /\ Fail(x).confirmed = x.confirmed
    /\ \A n \in TxIndex : /\ Tip(n) \in Node /\ Tip(n).tx = n
                          /\ ~Tip(n).confirmed /\ ~Tip(n).failed
BY DEF Node, Confirm, Fail, Tip

\* The nodes that each effect leaves.
LEMMA PlacedNodes ==
    ASSUME TypeOK, NEW n \in TxIndex, Placed(n)
    PROVE  /\ \A x \in dag' : x = Tip(n) \/ x \in dag
           /\ \A x \in dag : x \notin dag' => x.failed
<1>1. \A D : Purge(D) \subseteq D
  BY DEF Purge
<1>. QED  BY <1>1 DEF Placed

LEMMA FailedNodes ==
    ASSUME TypeOK, NEW n \in TxIndex, NEW bad \in Node, Failed(n, bad)
    PROVE  /\ dag' = (dag \ {bad}) \cup {Fail(bad)}
           /\ bad \in dag /\ ~bad.failed
BY DEF Failed, Fail

LEMMA AttachedNodes ==
    ASSUME TypeOK, NEW n \in TxIndex, NEW trunk \in Node, NEW branch \in Node,
           Attached(n, trunk, branch)
    PROVE  /\ trunk \in dag /\ branch \in dag
           /\ \A x \in dag : ~x.failed
           /\ \A x \in dag' : \/ x = Tip(n)
                              \/ x \in dag \ {trunk, branch}
                              \/ x = Confirm(trunk)
                              \/ x = Confirm(branch)
           /\ \A x \in dag \ {trunk, branch} : x \notin dag' => x.confirmed
<1>. DEFINE D == {Tip(n)} \cup (dag \ {trunk, branch})
                 \cup {Confirm(x) : x \in {trunk, branch}}
<1>1. dag' = Purge(D)
  BY DEF Attached, Confirm
<1>2. \A x \in Purge(D) : x \in D
  BY DEF Purge
<1>3. \A x \in D : x \notin Purge(D) => x.confirmed
  BY DEF Purge
<1>. QED  BY <1>1, <1>2, <1>3 DEF Attached

\* What each effect does to the copies of deal k in queues.
Copies(k) == Tally(queue, DealOf(k))

LEMMA CopiesStep ==
    ASSUME TypeOK, NEW k \in TxIndex
    PROVE  /\ Idle \/ Skipped => Copies(k)' = Copies(k)
           /\ Cleared => Copies(k)' <= Copies(k)
           /\ Issued => Copies(k)' \in {Copies(k),
                                        Copies(k) + (IF k = g_index + 1 THEN 1 ELSE 0)}
           /\ \A n \in TxIndex :
                 \/ Dropped(n) \/ Refused(n) \/ Placed(n)
                 \/ \E bad \in Node : Failed(n, bad)
                 \/ \E trunk, branch \in Node : Attached(n, trunk, branch)
                 => Copies(k)' = Copies(k) - (IF k = n THEN 1 ELSE 0)
           /\ \A d \in Device, m \in LedgerMsg : Settled(d, m) => Copies(k)' = Copies(k)
<1>1. \A K : Tally(queue, K) \in Nat
  BY TallyType DEF TypeOK
<1>2. DealOf(k) \in SUBSET Payload /\ Status \in SUBSET Status
  BY PayloadTypes
<1>3. /\ \A n \in TxIndex : Is(Transaction(n), DealOf(k)) = IF k = n THEN 1 ELSE 0
      /\ Is(NullTransaction, DealOf(k)) = 0
  BY <1>2, IsFacts
<1>4. \A s \in Status, n \in TxIndex, x \in Device : Is(Ledger(s, n, x), DealOf(k)) = 0
  BY <1>2, IsFacts
<1>5. ASSUME Idle \/ Skipped PROVE Copies(k)' = Copies(k)
  <2>1. Moved(NullTransaction, NullTransaction)
    BY <1>5 DEF Idle, Skipped
  <2>. QED  BY <1>1, <1>2, <1>3, <2>1 DEF Moved, Copies
<1>6. Cleared => Copies(k)' <= Copies(k)
  BY <1>2 DEF Cleared, Copies
<1>7. ASSUME Issued
      PROVE  Copies(k)' \in {Copies(k), Copies(k) + (IF k = g_index + 1 THEN 1 ELSE 0)}
  <2>1. g_index + 1 \in TxIndex
    BY <1>7 DEF Issued
  <2>2. \/ Moved(NullTransaction, NullTransaction)
        \/ Moved(NullTransaction, Transaction(g_index + 1))
    BY <1>7 DEF Issued
  <2>3. \/ Tally(queue', DealOf(k)) = Tally(queue, DealOf(k)) - 0 + 0
        \/ Tally(queue', DealOf(k)) = Tally(queue, DealOf(k)) - 0
                                      + (IF k = g_index + 1 THEN 1 ELSE 0)
    <3>1. Is(Transaction(g_index + 1), DealOf(k)) = IF k = g_index + 1 THEN 1 ELSE 0
      BY <1>3, <2>1
    <3>. QED  BY <1>2, <1>3, <2>2, <3>1 DEF Moved
  <2>. QED  BY <1>1, <2>3 DEF Copies
<1>8. ASSUME NEW n \in TxIndex,
             \/ Dropped(n) \/ Refused(n) \/ Placed(n)
             \/ \E bad \in Node : Failed(n, bad)
      PROVE  Copies(k)' = Copies(k) - (IF k = n THEN 1 ELSE 0)
  <2>1. \/ Moved(Transaction(n), NullTransaction)
        \/ \E s \in Status, j \in TxIndex, x \in Device :
              Moved(Transaction(n), Ledger(s, j, x))
    <3>1. CASE Dropped(n) \/ Placed(n)
      BY <3>1 DEF Dropped, Placed
    <3>2. CASE Refused(n)
      <4>1. "LEDGER" \in Status /\ Src(n) \in Device
        BY DealTypes DEF Status
      <4>. QED  BY <3>2, <4>1 DEF Refused
    <3>3. ASSUME NEW bad \in Node, Failed(n, bad)
          PROVE  \E s \in Status, j \in TxIndex, x \in Device :
                    Moved(Transaction(n), Ledger(s, j, x))
      <4>1. bad.tx \in TxIndex /\ Src(bad.tx) \in Device
        BY NodeFacts, DealTypes
      <4>2. PICK s \in {"DEVICE", "LEDGER"} :
               Moved(Transaction(n), Ledger(s, bad.tx, Src(bad.tx)))
        BY <3>3 DEF Failed
      <4>3. s \in Status
        BY DEF Status
      <4>. QED  BY <4>1, <4>2, <4>3
    <3>. QED  BY <1>8, <3>1, <3>2, <3>3
  <2>2. PICK in : Moved(Transaction(n), in) /\ Is(in, DealOf(k)) = 0
    BY <1>3, <1>4, <2>1
  <2>. QED  BY <1>1, <1>2, <1>3, <2>2 DEF Moved, Copies
<1>9. ASSUME NEW n \in TxIndex, NEW trunk \in Node, NEW branch \in Node,
             Attached(n, trunk, branch)
      PROVE  Copies(k)' = Copies(k) - (IF k = n THEN 1 ELSE 0)
  <2>1. IsPair(trunk.tx, DealOf(k)) = 0 /\ IsPair(branch.tx, DealOf(k)) = 0
    BY <1>2, NodeFacts, PairCounts
  <2>. QED  BY <1>1, <1>2, <1>3, <1>9, <2>1 DEF Attached, Copies
<1>10. ASSUME NEW d \in Device, NEW m \in LedgerMsg, Settled(d, m)
       PROVE  Copies(k)' = Copies(k)
  <2>1. /\ m = Ledger(m.status, m.tx, m.device)
        /\ m.status \in Status /\ m.tx \in TxIndex /\ m.device \in Device
    BY DEF LedgerMsg, Ledger
  <2>2. Is(m, DealOf(k)) = 0
    BY <1>4, <2>1
  <2>3. Moved(m, NullTransaction)
    BY <1>10 DEF Settled
  <2>. QED  BY <1>1, <1>2, <1>3, <2>2, <2>3 DEF Moved, Copies
<1>. QED  BY <1>5, <1>6, <1>7, <1>8, <1>9, <1>10

Single(n) ==
    /\ Copies(n) <= 1
    /\ \A x, y \in dag : x.tx = n /\ y.tx = n => x = y
    /\ \A x \in dag : x.tx = n => Copies(n) = 0
    /\ n > g_index => /\ Copies(n) = 0
                      /\ \A x \in dag : x.tx # n

\* The inductive invariant of OneCopy: besides, a deal not yet taken from
\* g_deal is nowhere, and the list of tips is finite.
OneCopyInv ==
    /\ IsFiniteSet(dag)
    /\ \A n \in TxIndex : Single(n)

LEMMA OneCopyInit == Init => OneCopyInv
<1>. SUFFICES ASSUME Init PROVE OneCopyInv
  OBVIOUS
<1>1. TypeOK /\ queue \in [Thread -> Seq(Message)]
  BY InitType DEF TypeOK
<1>2. ASSUME NEW n \in TxIndex PROVE Copies(n) = 0
  <2>1. ASSUME NEW t \in Thread, NEW i \in DOMAIN queue[t]
        PROVE  queue[t][i] \notin DealOf(n)
    <3>1. t \in Device /\ queue[t] = <<EmptyIndex(t)>>
      BY DEF Init, Thread
    <3>2. queue[t][i] = EmptyIndex(t)
      BY <3>1
    <3>. QED  BY <3>1, <3>2, NewEmptyIndex, PayloadTypes
  <2>. QED  BY <1>1, <2>1, CountNone DEF Tally, Copies
<1>. QED  BY <1>2, FS_EmptySet DEF OneCopyInv, Single, Init

LEMMA OneCopyStep ==
    ASSUME TypeOK, OneCopyInv, [Next]_vars
    PROVE  OneCopyInv'
<1>0. Effect
  BY StepEffect
<1>1. /\ dag \in SUBSET Node /\ IsFiniteSet(dag)
      /\ g_index \in Nat /\ TxIndex \subseteq Nat
      /\ \A K : Tally(queue, K) \in Nat
      /\ \A n \in TxIndex : Single(n)
  BY TallyType, LenProperties, LayerAssumption DEF TypeOK, TxIndex, OneCopyInv
<1>2. \A n \in TxIndex : Waits(Transaction(n)) => Copies(n) > 0
  BY WaitsDeal DEF Copies
<1>3. TypeOK' /\ \A K : Tally(queue', K) \in Nat
  <2>1. TypeOK'
    BY TypeStep
  <2>. QED  BY <2>1, TallyType DEF TypeOK
<1>4. \A n \in TxIndex : Status \in SUBSET Status /\ DealOf(n) \in SUBSET Payload
  BY PayloadTypes
<1>5. IsFiniteSet(dag')
  <2>1. CASE dag' = dag
    BY <1>1, <2>1
  <2>2. ASSUME NEW n \in TxIndex, Placed(n) PROVE IsFiniteSet(dag')
    <3>1. dag' \subseteq dag \cup {Tip(n)}
      BY <2>2, PlacedNodes
    <3>. QED  BY <1>1, <3>1, FS_AddElement, FS_Subset
  <2>3. ASSUME NEW n \in TxIndex, NEW bad \in Node, Failed(n, bad)
        PROVE  IsFiniteSet(dag')
    <3>1. dag' \subseteq dag \cup {Fail(bad)}
      BY <2>3, FailedNodes
    <3>. QED  BY <1>1, <3>1, FS_AddElement, FS_Subset
  <2>4. ASSUME NEW n \in TxIndex, NEW trunk \in Node, NEW branch \in Node,
               Attached(n, trunk, branch)
        PROVE  IsFiniteSet(dag')
    <3>1. dag' \subseteq ((dag \cup {Tip(n)}) \cup {Confirm(trunk)}) \cup {Confirm(branch)}
      BY <2>4, AttachedNodes
    <3>2. IsFiniteSet((dag \cup {Tip(n)}) \cup {Confirm(trunk)})
      <4>1. IsFiniteSet(dag \cup {Tip(n)})
        BY <1>1, FS_AddElement
      <4>. QED  BY <4>1, FS_AddElement
    <3>3. IsFiniteSet(((dag \cup {Tip(n)}) \cup {Confirm(trunk)}) \cup {Confirm(branch)})
      BY <3>2, FS_AddElement
    <3>. QED  BY <3>1, <3>3, FS_Subset
  <2>. QED
    BY <1>0, <2>1, <2>2, <2>3, <2>4
    DEF Effect, Idle, Cleared, Skipped, Issued, Dropped, Refused, Settled
<1>6. ASSUME NEW k \in TxIndex PROVE Single(k)'
  <2>0. Copies(k) \in Nat /\ Copies(k)' \in Nat
    BY <1>1, <1>3 DEF Copies
  <2>1. CASE Idle \/ Skipped
    <3>1. Copies(k)' = Copies(k)
      BY <2>1, CopiesStep
    <3>2. dag' = dag /\ g_index' \in Nat /\ g_index' >= g_index
      BY <1>1, <2>1 DEF Idle, Skipped
    <3>. QED  BY <1>1, <3>1, <3>2 DEF Single
  <2>2. CASE Cleared
    BY <1>1, <2>0, <2>2, CopiesStep DEF Single, Cleared
  <2>3. CASE Issued
    <3>1. g_index + 1 \in TxIndex /\ g_index' = g_index + 1 /\ dag' = dag
      BY <2>3 DEF Issued
    <3>. QED  BY <1>1, <2>0, <2>3, <3>1, CopiesStep DEF Single
  <2>4. ASSUME NEW n \in TxIndex, Dropped(n) \/ Refused(n) PROVE Single(k)'
    <3>1. Copies(k)' = Copies(k) - (IF k = n THEN 1 ELSE 0)
      BY <2>4, CopiesStep
    <3>2. dag' = dag /\ g_index' = g_index
      BY <2>4 DEF Dropped, Refused
    <3>. QED  BY <1>1, <2>0, <3>1, <3>2 DEF Single
  <2>5. ASSUME NEW d \in Device, NEW m \in LedgerMsg, Settled(d, m)
        PROVE  Single(k)'
    <3>1. Copies(k)' = Copies(k)
      BY <2>5, CopiesStep
    <3>2. dag' = dag /\ g_index' = g_index
      BY <2>5 DEF Settled
    <3>. QED  BY <1>1, <3>1, <3>2 DEF Single
  <2>6. ASSUME NEW n \in TxIndex, Placed(n) PROVE Single(k)'
    <3>1. Copies(k)' = Copies(k) - (IF k = n THEN 1 ELSE 0)
      BY <2>6, CopiesStep
    <3>2. Copies(n) > 0 /\ g_index' = g_index
      BY <1>2, <2>6 DEF Placed
    <3>3. \A x \in dag' : x = Tip(n) \/ x \in dag
      BY <2>6, PlacedNodes
    <3>. QED  BY <1>1, <2>0, <3>1, <3>2, <3>3, NodeFacts DEF Single
  <2>7. ASSUME NEW n \in TxIndex, NEW bad \in Node, Failed(n, bad)
        PROVE  Single(k)'
    <3>1. Copies(k)' = Copies(k) - (IF k = n THEN 1 ELSE 0)
      BY <2>7, CopiesStep
    <3>2. Copies(n) > 0 /\ g_index' = g_index
      BY <1>2, <2>7 DEF Failed
    <3>3. dag' = (dag \ {bad}) \cup {Fail(bad)} /\ bad \in dag
      BY <2>7, FailedNodes
    <3>. QED  BY <1>1, <2>0, <3>1, <3>2, <3>3, NodeFacts DEF Single
  <2>8. ASSUME NEW n \in TxIndex, NEW trunk \in Node, NEW branch \in Node,
               Attached(n, trunk, branch)
        PROVE  Single(k)'
    <3>1. Copies(k)' = Copies(k) - (IF k = n THEN 1 ELSE 0)
      BY <2>8, CopiesStep
    <3>2. Copies(n) > 0 /\ g_index' = g_index
      BY <1>2, <2>8 DEF Attached
    <3>3. /\ trunk \in dag /\ branch \in dag
          /\ \A x \in dag' : \/ x = Tip(n)
                             \/ x \in dag \ {trunk, branch}
                             \/ x = Confirm(trunk)
                             \/ x = Confirm(branch)
      BY <2>8, AttachedNodes
    <3>4. \A x \in dag' : \/ x = Tip(n)
                          \/ x.tx # n /\ \E y \in dag : y.tx = x.tx
      BY <1>1, <3>2, <3>3, NodeFacts DEF Single
    <3>5. \A x, y \in dag' : x.tx = k /\ y.tx = k => x = y
      BY <1>1, <3>3, <3>4, NodeFacts DEF Single
    <3>. QED  BY <1>1, <2>0, <3>1, <3>2, <3>4, <3>5, NodeFacts DEF Single
  <2>. QED
    BY <1>0, <2>1, <2>2, <2>3, <2>4, <2>5, <2>6, <2>7, <2>8 DEF Effect
<1>. QED  BY <1>5, <1>6 DEF OneCopyInv

\* Each deal is in one place at most, a queue or the list of tips: forwarding
\* (layer_device.cpp, transaction_recv), deferring, dropping and the reuse of
\* failed nodes (layer_mainchain.cpp, transaction_recv) never duplicate it.
THEOREM OneCopyHolds == Spec => []OneCopy
<1>1. Init => OneCopyInv
  BY OneCopyInit
<1>2. TypeOK /\ OneCopyInv /\ [Next]_vars => OneCopyInv'
  BY OneCopyStep
<1>3. TypeOK /\ OneCopyInv => OneCopy
  <2>. SUFFICES ASSUME TypeOK, OneCopyInv, NEW n \in TxIndex
                PROVE  Cardinality(Held(n)) + Cardinality(Nodes(n)) <= 1
    BY DEF OneCopy
  <2>1. queue \in [Thread -> Seq(Message)]
    BY DEF TypeOK
  <2>2. Held(n) = Spots(queue, DealOf(n))
    BY <2>1, HeldSpots DEF Held, Places, MessageAt
  <2>3. Cardinality(Held(n)) \in Nat /\ Cardinality(Held(n)) <= 1
    BY <2>1, <2>2, TallyType DEF Tally, Copies, OneCopyInv, Single
  <2>4. CASE Nodes(n) = {}
    BY <2>3, <2>4, FS_EmptySet
  <2>5. CASE Nodes(n) # {}
    <3>1. PICK x \in dag : x.tx = n
      BY <2>5 DEF Nodes
    <3>2. Nodes(n) = {x}
      BY <3>1 DEF OneCopyInv, Single, Nodes
    <3>3. Cardinality(Held(n)) = 0
      BY <2>2, <3>1 DEF OneCopyInv, Single, Copies, Tally
    <3>. QED  BY <3>2, <3>3, FS_Singleton
  <2>. QED  BY <2>4, <2>5
<1>. QED  BY <1>1, <1>2, <1>3, TypeCorrect, PTL DEF Spec

-----------------------------------------------------------------------------
(* The list of tips stays narrow *)

LEMMA ReplaceCount ==
    ASSUME NEW S, IsFiniteSet(S), NEW x \in S, NEW y
    PROVE  /\ IsFiniteSet((S \ {x}) \cup {y})
           /\ Cardinality((S \ {x}) \cup {y}) <= Cardinality(S)
           /\ Cardinality((S \ {x}) \cup {y}) \in Nat
<1>1. /\ IsFiniteSet(S \ {x}) /\ Cardinality(S) \in Nat
      /\ Cardinality(S \ {x}) = Cardinality(S) - 1
  BY FS_RemoveElement, FS_CardinalityType
<1>2. /\ IsFiniteSet((S \ {x}) \cup {y})
      /\ Cardinality((S \ {x}) \cup {y}) \in {Cardinality(S \ {x}), Cardinality(S \ {x}) + 1}
  BY <1>1, FS_AddElement
<1>. QED  BY <1>1, <1>2, FS_CardinalityType

LEMMA PurgeCount ==
    ASSUME NEW D, IsFiniteSet(D)
    PROVE  /\ IsFiniteSet(Purge(D)) /\ Cardinality(Purge(D)) \in Nat
           /\ Cardinality(Purge(D)) <= Cardinality(D)
<1>1. Purge(D) \subseteq D
  BY DEF Purge
<1>. QED  BY <1>1, FS_Subset, FS_CardinalityType

\* Attaching a deal widens the list by at most one; when that makes it
\* TIP_NUM wide, the tip just confirmed leaves it.
LEMMA TipWidthStep ==
    ASSUME TypeOK, OneCopyInv, TipWidth, [Next]_vars
    PROVE  TipWidth'
<1>0. Effect
  BY StepEffect
<1>1. /\ IsFiniteSet(dag) /\ dag \in SUBSET Node /\ Cardinality(dag) \in Nat
      /\ Cardinality(dag) < TIP_NUM /\ TIP_NUM \in Nat /\ TIP_NUM > 1
  BY FS_CardinalityType, TipAssumption DEF TypeOK, OneCopyInv, TipWidth
<1>2. CASE dag' = dag
  BY <1>1, <1>2 DEF TipWidth
<1>3. ASSUME NEW n \in TxIndex, Placed(n) PROVE TipWidth'
  <2>1. CASE \E x \in dag : x.failed /\ dag' = (dag \ {x}) \cup {Tip(n)}
    <3>1. PICK x \in dag : dag' = (dag \ {x}) \cup {Tip(n)}
      BY <2>1
    <3>2. Cardinality(dag') \in Nat /\ Cardinality(dag') <= Cardinality(dag)
      BY <1>1, <3>1, ReplaceCount
    <3>. QED  BY <1>1, <3>2 DEF TipWidth
  <2>2. CASE dag' = Purge({Tip(n)})
    <3>1. IsFiniteSet({Tip(n)}) /\ Cardinality({Tip(n)}) = 1
      BY FS_Singleton
    <3>. QED  BY <1>1, <2>2, <3>1, PurgeCount DEF TipWidth
  <2>. QED  BY <1>3, <2>1, <2>2 DEF Placed
<1>4. ASSUME NEW n \in TxIndex, NEW bad \in Node, Failed(n, bad) PROVE TipWidth'
  <2>1. dag' = (dag \ {bad}) \cup {Fail(bad)} /\ bad \in dag
    BY <1>4, FailedNodes
  <2>2. Cardinality(dag') \in Nat /\ Cardinality(dag') <= Cardinality(dag)
    BY <1>1, <2>1, ReplaceCount
  <2>. QED  BY <1>1, <2>2 DEF TipWidth
<1>5. ASSUME NEW n \in TxIndex, NEW trunk \in Node, NEW branch \in Node,
             Attached(n, trunk, branch)
      PROVE  TipWidth'
  <2>. DEFINE kept == (dag \ {trunk, branch}) \cup {Confirm(x) : x \in {trunk, branch}}
              D == kept \cup {Tip(n)}
  <2>1. trunk \in dag /\ branch \in dag /\ \A x \in dag : ~x.failed
    BY <1>5, AttachedNodes
  <2>3. dag' = Purge(D)
    <3>1. dag' = Purge({Tip(n)} \cup (dag \ {trunk, branch})
                       \cup {Confirm(x) : x \in {trunk, branch}})
      BY <1>5 DEF Attached, Confirm
    <3>2. D = {Tip(n)} \cup (dag \ {trunk, branch})
              \cup {Confirm(x) : x \in {trunk, branch}}
      OBVIOUS
    <3>. QED  BY <3>1, <3>2
  <2>4. IsFiniteSet(kept) /\ Cardinality(kept) <= Cardinality(dag)
    <3>. DEFINE A == dag \ {trunk}
                B == A \ {branch}
                C == B \cup {Confirm(trunk)}
    <3>1. IsFiniteSet(A) /\ Cardinality(A) = Cardinality(dag) - 1
      BY <1>1, <2>1, FS_RemoveElement
    <3>2. IsFiniteSet(B) /\ Cardinality(B) = IF trunk = branch THEN Cardinality(dag) - 1
                                             ELSE Cardinality(dag) - 2
      <4>1. IsFiniteSet(B) /\ Cardinality(B) = IF branch \in A THEN Cardinality(A) - 1
                                               ELSE Cardinality(A)
        <5>. HIDE DEF A
        <5>. QED  BY <3>1, FS_RemoveElement
      <4>2. branch \in A <=> trunk # branch
        BY <2>1
      <4>. HIDE DEF A, B
      <4>. QED  BY <1>1, <3>1, <4>1, <4>2
    <3>3. IsFiniteSet(C) /\ Cardinality(C) <= Cardinality(B) + 1
      <4>. HIDE DEF B
      <4>1. IsFiniteSet(C) /\ Cardinality(C) = IF Confirm(trunk) \in B THEN Cardinality(B)
                                               ELSE Cardinality(B) + 1
        BY <3>2, FS_AddElement
      <4>2. Cardinality(B) \in Nat
        BY <3>2, FS_CardinalityType
      <4>. HIDE DEF C
      <4>. QED  BY <4>1, <4>2
    <3>4. kept = C \cup {Confirm(branch)}
      OBVIOUS
    <3>5. IsFiniteSet(kept) /\ Cardinality(kept)
             = IF Confirm(branch) \in C THEN Cardinality(C) ELSE Cardinality(C) + 1
      <4>. HIDE DEF C, kept
      <4>. QED  BY <3>3, <3>4, FS_AddElement
    <3>6. trunk = branch => Confirm(branch) \in C
      OBVIOUS
    <3>7. Cardinality(C) \in Nat
      BY <3>3, FS_CardinalityType
    <3>. HIDE DEF A, B, C, kept
    <3>. QED  BY <1>1, <3>2, <3>3, <3>5, <3>6, <3>7
  <2>5. \A x \in D : ~x.failed
    BY <1>1, <2>1, NodeFacts
  <2>6. Confirm(trunk) \in D /\ Confirm(trunk).confirmed
    BY <2>1, NodeFacts
  <2>. HIDE DEF kept
  <2>7. IsFiniteSet(D) /\ Cardinality(D) \in Nat /\ Cardinality(D) <= Cardinality(dag) + 1
    <3>1. Cardinality(kept) \in Nat
      BY <2>4, FS_CardinalityType
    <3>2. IsFiniteSet(D) /\ Cardinality(D) = IF Tip(n) \in kept THEN Cardinality(kept)
                                             ELSE Cardinality(kept) + 1
      BY <2>4, FS_AddElement
    <3>. QED  BY <1>1, <2>4, <3>1, <3>2
  <2>. HIDE DEF D
  <2>8. {x \in D : ~x.failed} = D
    BY <2>5
  <2>9. CASE Cardinality(D) = TIP_NUM
    <3>1. dag' = {x \in D : ~x.confirmed}
      BY <2>3, <2>8, <2>9 DEF Purge
    <3>2. dag' \subseteq D /\ dag' # D
      BY <2>6, <3>1
    <3>3. Cardinality(dag') < Cardinality(D)
      <4>1. /\ IsFiniteSet(dag') /\ Cardinality(dag') <= Cardinality(D)
            /\ Cardinality(D) # Cardinality(dag')
        BY <2>7, <3>2, FS_Subset
      <4>2. Cardinality(dag') \in Nat
        BY <4>1, FS_CardinalityType
      <4>. QED  BY <2>7, <4>1, <4>2
    <3>. QED  BY <2>9, <3>3 DEF TipWidth
  <2>10. CASE Cardinality(D) # TIP_NUM
    <3>1. dag' = D
      BY <2>3, <2>8, <2>10 DEF Purge
    <3>. QED  BY <1>1, <2>7, <2>10, <3>1 DEF TipWidth
  <2>. QED  BY <2>9, <2>10
<1>. QED
  BY <1>0, <1>2, <1>3, <1>4, <1>5
  DEF Effect, Idle, Cleared, Skipped, Issued, Dropped, Refused, Settled

\* The list of tips is narrower than TIP_NUM between two messages, whatever
\* is reused or fails, so the test for equality (layer_mainchain.cpp,
\* transaction_recv "width enough") is never jumped over.
THEOREM TipWidthHolds == Spec => []TipWidth
<1>1. Init => OneCopyInv /\ TipWidth
  <2>1. Init => TipWidth
    BY FS_EmptySet, TipAssumption DEF Init, TipWidth
  <2>. QED  BY <2>1, OneCopyInit
<1>2. TypeOK /\ OneCopyInv /\ TipWidth /\ [Next]_vars => (OneCopyInv /\ TipWidth)'
  BY OneCopyStep, TipWidthStep
<1>. QED  BY <1>1, <1>2, TypeCorrect, PTL DEF Spec

-----------------------------------------------------------------------------
(* A deal is decided once *)

Noticed(n, kinds) == Tally(queue, NoticeOf(n, kinds))

\* The deal is not taken yet, or it is on its way to a decision.
Live(n) ==
    \/ n > g_index
    \/ Copies(n) > 0
    \/ \E x \in dag : x.tx = n /\ ~x.confirmed /\ ~x.failed

\* The inductive invariant of OneDecision: there is no notice at all about a
\* live deal, later at most one to its source and at most one that pays.
Once(n) ==
    /\ Noticed(n, Final) <= 1
    /\ Noticed(n, Paying) <= 1
    /\ Live(n) => Noticed(n, Status) = 0
OnceInv == \A n \in TxIndex : Once(n)

LEMMA KindTypes ==
    /\ Final \in SUBSET Status /\ Paying \in SUBSET Status
    /\ Status \in SUBSET Status
    /\ "SRC" \in Final /\ "SRC" \notin Paying
    /\ "DST" \notin Final /\ "DST" \in Paying
    /\ \A s \in {"DEVICE", "LEDGER"} : s \in Final /\ s \in Paying /\ s \in Status
    /\ "SRC" \in Status /\ "DST" \in Status
BY DEF Final, Paying, Status

LEMMA NoticedType ==
    ASSUME TypeOK, NEW n \in TxIndex
    PROVE  /\ \A kinds : Noticed(n, kinds) \in Nat
           /\ \A kinds \in SUBSET Status : Noticed(n, kinds) <= Noticed(n, Status)
<1>1. queue \in [Thread -> Seq(Message)]
  BY DEF TypeOK
<1>2. \A kinds : Noticed(n, kinds) \in Nat
  BY <1>1, TallyType DEF Noticed
<1>3. ASSUME NEW kinds \in SUBSET Status
      PROVE  Noticed(n, kinds) <= Noticed(n, Status)
  <2>1. NoticeOf(n, kinds) \subseteq NoticeOf(n, Status)
    BY DEF NoticeOf
  <2>. QED  BY <1>1, <2>1, CountLess DEF Noticed, Tally
<1>. QED  BY <1>2, <1>3

\* What each effect does to the notices about deal k.
LEMMA NoticedStep ==
    ASSUME TypeOK, NEW k \in TxIndex, NEW kinds \in SUBSET Status
    PROVE  /\ Idle \/ Skipped \/ Issued => Noticed(k, kinds)' = Noticed(k, kinds)
           /\ Cleared => Noticed(k, kinds)' <= Noticed(k, kinds)
           /\ \A n \in TxIndex :
                 /\ Dropped(n) \/ Placed(n) => Noticed(k, kinds)' = Noticed(k, kinds)
                 /\ Refused(n) =>
                       Noticed(k, kinds)' = Noticed(k, kinds)
                          + (IF n = k /\ "LEDGER" \in kinds THEN 1 ELSE 0)
<1>1. \A K : Tally(queue, K) \in Nat
  BY TallyType DEF TypeOK
<1>2. NoticeOf(k, kinds) \in SUBSET Payload
  BY PayloadTypes
<1>3. ASSUME Idle \/ Skipped PROVE Noticed(k, kinds)' = Noticed(k, kinds)
  BY <1>1, <1>3, MovedCounts, IsFacts DEF Idle, Skipped, Noticed
<1>4. ASSUME Issued PROVE Noticed(k, kinds)' = Noticed(k, kinds)
  <2>1. g_index + 1 \in TxIndex
    BY <1>4 DEF Issued
  <2>2. /\ Is(NullTransaction, NoticeOf(k, kinds)) = 0
        /\ Is(Transaction(g_index + 1), NoticeOf(k, kinds)) = 0
    BY <2>1, IsFacts
  <2>3. \/ Moved(NullTransaction, NullTransaction)
        \/ Moved(NullTransaction, Transaction(g_index + 1))
    BY <1>4 DEF Issued
  <2>4. Tally(queue', NoticeOf(k, kinds)) = Tally(queue, NoticeOf(k, kinds)) - 0 + 0
    BY <1>2, <2>2, <2>3 DEF Moved
  <2>. QED  BY <1>1, <2>4 DEF Noticed
<1>5. Cleared => Noticed(k, kinds)' <= Noticed(k, kinds)
  BY <1>2 DEF Cleared, Noticed
<1>6. ASSUME NEW n \in TxIndex, Dropped(n) \/ Placed(n)
      PROVE  Noticed(k, kinds)' = Noticed(k, kinds)
  <2>1. /\ Is(NullTransaction, NoticeOf(k, kinds)) = 0
        /\ Is(Transaction(n), NoticeOf(k, kinds)) = 0
    BY IsFacts
  <2>2. Moved(Transaction(n), NullTransaction)
    BY <1>6 DEF Dropped, Placed
  <2>. QED  BY <1>1, <1>2, <2>1, <2>2 DEF Moved, Noticed
<1>7. ASSUME NEW n \in TxIndex, Refused(n)
      PROVE  Noticed(k, kinds)' = Noticed(k, kinds)
                + (IF n = k /\ "LEDGER" \in kinds THEN 1 ELSE 0)
  <2>1. "LEDGER" \in Status /\ Src(n) \in Device
    BY KindTypes, DealTypes
  <2>2. /\ Is(Ledger("LEDGER", n, Src(n)), NoticeOf(k, kinds))
           = IF n = k /\ "LEDGER" \in kinds THEN 1 ELSE 0
        /\ Is(Transaction(n), NoticeOf(k, kinds)) = 0
    BY <2>1, IsFacts
  <2>3. Moved(Transaction(n), Ledger("LEDGER", n, Src(n)))
    BY <1>7 DEF Refused
  <2>. QED  BY <1>1, <1>2, <2>2, <2>3 DEF Moved, Noticed
<1>. QED
  BY <1>3, <1>4, <1>5, <1>6, <1>7

LEMMA NoticedSettled ==
    ASSUME TypeOK, NEW k \in TxIndex, NEW kinds \in SUBSET Status,
           NEW d \in Device, NEW m \in LedgerMsg, Settled(d, m)
    PROVE  Noticed(k, kinds)' = Noticed(k, kinds)
              - (IF m.tx = k /\ m.status \in kinds THEN 1 ELSE 0)
<1>1. \A K : Tally(queue, K) \in Nat
  BY TallyType DEF TypeOK
<1>2. /\ m = Ledger(m.status, m.tx, m.device)
      /\ m.status \in Status /\ m.tx \in TxIndex /\ m.device \in Device
  BY DEF LedgerMsg, Ledger
<1>3. /\ Is(m, NoticeOf(k, kinds)) = IF m.tx = k /\ m.status \in kinds THEN 1 ELSE 0
      /\ Is(NullTransaction, NoticeOf(k, kinds)) = 0
  BY <1>2, IsFacts
<1>4. NoticeOf(k, kinds) \in SUBSET Payload /\ Moved(m, NullTransaction)
  BY PayloadTypes DEF Settled
<1>. QED  BY <1>1, <1>3, <1>4 DEF Moved, Noticed

LEMMA NoticedFailed ==
    ASSUME TypeOK, NEW k \in TxIndex,
           NEW n \in TxIndex, NEW bad \in Node, Failed(n, bad)
    PROVE  \E s \in {"DEVICE", "LEDGER"} : \A kinds \in SUBSET Status :
              Noticed(k, kinds)' = Noticed(k, kinds)
                 + (IF bad.tx = k /\ s \in kinds THEN 1 ELSE 0)
<1>1. \A K : Tally(queue, K) \in Nat
  BY TallyType DEF TypeOK
<1>2. PICK s \in {"DEVICE", "LEDGER"} :
         Moved(Transaction(n), Ledger(s, bad.tx, Src(bad.tx)))
  BY DEF Failed
<1>3. s \in Status /\ bad.tx \in TxIndex /\ Src(bad.tx) \in Device
  BY KindTypes, NodeFacts, DealTypes
<1>4. ASSUME NEW kinds \in SUBSET Status
      PROVE  Noticed(k, kinds)' = Noticed(k, kinds)
                + (IF bad.tx = k /\ s \in kinds THEN 1 ELSE 0)
  <2>1. /\ Is(Ledger(s, bad.tx, Src(bad.tx)), NoticeOf(k, kinds))
           = IF bad.tx = k /\ s \in kinds THEN 1 ELSE 0
        /\ Is(Transaction(n), NoticeOf(k, kinds)) = 0
    BY <1>3, IsFacts
  <2>2. NoticeOf(k, kinds) \in SUBSET Payload
    BY PayloadTypes
  <2>. QED  BY <1>1, <1>2, <2>1, <2>2 DEF Moved, Noticed
<1>. QED  BY <1>4

LEMMA NoticedAttached ==
    ASSUME TypeOK, NEW k \in TxIndex, NEW kinds \in SUBSET Status,
           NEW n \in TxIndex, NEW trunk \in Node, NEW branch \in Node,
           Attached(n, trunk, branch)
    PROVE  Noticed(k, kinds)' = Noticed(k, kinds)
              + (IF ~trunk.confirmed THEN IsPair(trunk.tx, NoticeOf(k, kinds)) ELSE 0)
              + (IF ~branch.confirmed /\ trunk # branch
                 THEN IsPair(branch.tx, NoticeOf(k, kinds)) ELSE 0)
<1>1. \A K : Tally(queue, K) \in Nat
  BY TallyType DEF TypeOK
<1>2. NoticeOf(k, kinds) \in SUBSET Payload
  BY PayloadTypes
<1>3. Is(Transaction(n), NoticeOf(k, kinds)) = 0
  BY IsFacts
<1>. QED  BY <1>1, <1>2, <1>3 DEF Attached, Unconfirmed, Noticed

\* No step makes a deal live again.
LEMMA LiveStep ==
    ASSUME TypeOK, [Next]_vars, NEW k \in TxIndex, Live(k)'
    PROVE  Live(k)
<1>0. Effect
  BY StepEffect
<1>1. /\ dag \in SUBSET Node /\ g_index \in Nat /\ TxIndex \subseteq Nat
      /\ Copies(k) \in Nat /\ Copies(k)' \in Nat
  <2>1. TypeOK'
    BY TypeStep
  <2>2. queue \in [Thread -> Seq(Message)] /\ queue' \in [Thread -> Seq(Message)]
    BY <2>1 DEF TypeOK
  <2>3. Copies(k) \in Nat /\ Copies(k)' \in Nat
    BY <2>2, TallyType DEF Copies
  <2>4. g_index \in Nat /\ TxIndex \subseteq Nat
    BY LenProperties, LayerAssumption DEF TypeOK, TxIndex
  <2>. QED  BY <2>3, <2>4 DEF TypeOK
<1>2. \A n \in TxIndex : Waits(Transaction(n)) => Live(n)
  BY WaitsDeal DEF Live, Copies
<1>3. CASE dag' = dag /\ g_index' >= g_index /\ g_index' \in Nat
           /\ Copies(k)' <= Copies(k)
  BY <1>1, <1>3 DEF Live
<1>4. CASE Idle \/ Cleared \/ Skipped
  BY <1>1, <1>3, <1>4, CopiesStep DEF Idle, Cleared, Skipped
<1>5. CASE Issued
  <2>1. g_index + 1 \in TxIndex /\ g_index' = g_index + 1 /\ dag' = dag
    BY <1>5 DEF Issued
  <2>. QED  BY <1>1, <1>5, <2>1, CopiesStep DEF Live
<1>6. ASSUME NEW n \in TxIndex, Dropped(n) \/ Refused(n) PROVE Live(k)
  <2>1. Copies(k)' <= Copies(k)
    BY <1>1, <1>6, CopiesStep
  <2>. QED  BY <1>1, <1>3, <1>6, <2>1 DEF Dropped, Refused
<1>7. ASSUME NEW d \in Device, NEW m \in LedgerMsg, Settled(d, m) PROVE Live(k)
  BY <1>1, <1>3, <1>7, CopiesStep DEF Settled
<1>8. ASSUME NEW n \in TxIndex, Placed(n) PROVE Live(k)
  <2>1. Copies(k)' = Copies(k) - (IF k = n THEN 1 ELSE 0)
    BY <1>8, CopiesStep
  <2>2. \A x \in dag' : x = Tip(n) \/ x \in dag
    BY <1>8, PlacedNodes
  <2>3. g_index' = g_index /\ Live(n)
    BY <1>2, <1>8 DEF Placed
  <2>. QED  BY <1>1, <2>1, <2>2, <2>3, NodeFacts DEF Live
<1>9. ASSUME NEW n \in TxIndex, NEW bad \in Node, Failed(n, bad) PROVE Live(k)
  <2>1. Copies(k)' = Copies(k) - (IF k = n THEN 1 ELSE 0)
    BY <1>9, CopiesStep
  <2>2. dag' = (dag \ {bad}) \cup {Fail(bad)} /\ g_index' = g_index
    BY <1>9, FailedNodes DEF Failed
  <2>. QED  BY <1>1, <2>1, <2>2, NodeFacts DEF Live
<1>10. ASSUME NEW n \in TxIndex, NEW trunk \in Node, NEW branch \in Node,
              Attached(n, trunk, branch)
       PROVE  Live(k)
  <2>1. Copies(k)' = Copies(k) - (IF k = n THEN 1 ELSE 0)
    BY <1>10, CopiesStep
  <2>2. \A x \in dag' : \/ x = Tip(n)
                        \/ x \in dag \ {trunk, branch}
                        \/ x = Confirm(trunk)
                        \/ x = Confirm(branch)
    BY <1>10, AttachedNodes
  <2>3. g_index' = g_index /\ Live(n)
    BY <1>2, <1>10 DEF Attached
  <2>. QED  BY <1>1, <2>1, <2>2, <2>3, NodeFacts DEF Live
<1>. QED
  BY <1>0, <1>4, <1>5, <1>6, <1>7, <1>8, <1>9, <1>10 DEF Effect

LEMMA OnceInit == Init => OnceInv
<1>. SUFFICES ASSUME Init PROVE OnceInv
  OBVIOUS
<1>1. queue \in [Thread -> Seq(Message)]
  BY InitType DEF TypeOK
<1>2. ASSUME NEW n \in TxIndex, NEW kinds \in SUBSET Status
      PROVE  Noticed(n, kinds) = 0
  <2>1. ASSUME NEW t \in Thread, NEW i \in DOMAIN queue[t]
        PROVE  queue[t][i] \notin NoticeOf(n, kinds)
    <3>1. t \in Device /\ queue[t] = <<EmptyIndex(t)>>
      BY DEF Init, Thread
    <3>2. queue[t][i] = EmptyIndex(t)
      BY <3>1
    <3>. QED  BY <3>1, <3>2, NewEmptyIndex, PayloadTypes
  <2>. QED  BY <1>1, <2>1, CountNone DEF Tally, Noticed
<1>. QED  BY <1>2, KindTypes DEF OnceInv, Once

\* A live deal stands in one place, so what is decided about it is over.
LEMMA OverFacts ==
    ASSUME TypeOK, OneCopyInv, NEW k \in TxIndex
    PROVE  /\ k <= g_index \/ (Copies(k) = 0 /\ \A x \in dag : x.tx # k)
           /\ Copies(k) \in {0, 1}
           /\ Copies(k) > 0 => Live(k) /\ \A x \in dag : x.tx # k
<1>1. k \in Nat /\ g_index \in Nat
  BY LenProperties, LayerAssumption DEF TypeOK, TxIndex
<1>2. Copies(k) \in Nat
  <2>1. queue \in [Thread -> Seq(Message)]
    BY DEF TypeOK
  <2>. QED  BY <2>1, TallyType DEF Copies
<1>3. Single(k)
  BY DEF OneCopyInv
<1>. QED  BY <1>1, <1>2, <1>3 DEF Single, Live, Copies

LEMMA OnceStep ==
    ASSUME TypeOK, OneCopyInv, OnceInv, ConfirmedStands', [Next]_vars,
           NEW k \in TxIndex
    PROVE  Once(k)'
<1>0. Effect
  BY StepEffect
<1>1. TypeOK' /\ OneCopyInv'
  BY TypeStep, OneCopyStep
<1>2. /\ \A kinds : Noticed(k, kinds) \in Nat
      /\ \A kinds \in SUBSET Status : Noticed(k, kinds) <= Noticed(k, Status)
      /\ Once(k)
  BY NoticedType DEF OnceInv
<1>3. /\ \A kinds : Noticed(k, kinds)' \in Nat
      /\ Copies(k) \in Nat /\ Copies(k)' \in Nat
  <2>1. queue \in [Thread -> Seq(Message)] /\ queue' \in [Thread -> Seq(Message)]
    BY <1>1 DEF TypeOK
  <2>. QED  BY <2>1, TallyType DEF Noticed, Copies
<1>4. Live(k)' => Live(k)
  BY LiveStep
<1>5. /\ Final \in SUBSET Status /\ Paying \in SUBSET Status
      /\ Status \in SUBSET Status
  BY KindTypes
<1>6. CASE \A kinds \in SUBSET Status : Noticed(k, kinds)' <= Noticed(k, kinds)
  BY <1>2, <1>3, <1>4, <1>5, <1>6 DEF Once
<1>7. CASE Idle \/ Skipped \/ Issued \/ Cleared
  BY <1>2, <1>6, <1>7, NoticedStep
<1>8. ASSUME NEW n \in TxIndex, Dropped(n) \/ Placed(n) PROVE Once(k)'
  BY <1>2, <1>6, <1>8, NoticedStep
<1>9. ASSUME NEW d \in Device, NEW m \in LedgerMsg, Settled(d, m) PROVE Once(k)'
  BY <1>2, <1>6, <1>9, NoticedSettled
<1>10. ASSUME NEW n \in TxIndex, Refused(n) PROVE Once(k)'
  <2>1. CASE n # k
    BY <1>2, <1>6, <1>10, <2>1, NoticedStep
  <2>2. CASE n = k
    <3>1. Noticed(k, Status) = 0
      <4>1. Waits(Transaction(k))
        BY <1>10, <2>2 DEF Refused
      <4>2. Live(k)
        BY <4>1, WaitsDeal DEF Live, Copies
      <4>. QED  BY <1>2, <4>2 DEF Once
    <3>2. /\ Noticed(k, Final)' = Noticed(k, Final) + 1
          /\ Noticed(k, Paying)' = Noticed(k, Paying) + 1
      BY <1>5, <1>10, <2>2, NoticedStep, KindTypes
    <3>3. Copies(k) > 0 /\ Copies(k)' = Copies(k) - 1
      BY <1>10, <2>2, WaitsDeal, CopiesStep DEF Refused, Copies
    <3>4. ~Live(k)'
      <4>1. k <= g_index /\ Copies(k) = 1 /\ \A x \in dag : x.tx # k
        BY <1>3, <3>3, OverFacts
      <4>2. dag' = dag /\ g_index' = g_index /\ g_index \in Nat /\ k \in Nat
        BY <1>10, LenProperties, LayerAssumption DEF Refused, TypeOK, TxIndex
      <4>. QED  BY <3>3, <4>1, <4>2 DEF Live, Copies
    <3>. QED  BY <1>2, <1>5, <3>1, <3>2, <3>4 DEF Once
  <2>. QED  BY <2>1, <2>2
<1>11. ASSUME NEW n \in TxIndex, NEW bad \in Node, Failed(n, bad) PROVE Once(k)'
  <2>1. PICK s \in {"DEVICE", "LEDGER"} : \A kinds \in SUBSET Status :
           Noticed(k, kinds)' = Noticed(k, kinds)
              + (IF bad.tx = k /\ s \in kinds THEN 1 ELSE 0)
    BY <1>11, NoticedFailed
  <2>2. CASE bad.tx # k
    BY <1>2, <1>6, <2>1, <2>2
  <2>3. CASE bad.tx = k
    <3>1. dag' = (dag \ {bad}) \cup {Fail(bad)} /\ bad \in dag /\ ~bad.failed
      BY <1>11, FailedNodes
    <3>2. ~bad.confirmed
      BY <3>1, NodeFacts DEF ConfirmedStands
    <3>3. Noticed(k, Status) = 0
      BY <1>2, <2>3, <3>1, <3>2 DEF Once, Live
    <3>4. /\ Noticed(k, Final)' = Noticed(k, Final) + 1
          /\ Noticed(k, Paying)' = Noticed(k, Paying) + 1
      BY <1>5, <2>1, <2>3, KindTypes
    <3>5. ~Live(k)'
      <4>1. Fail(bad) \in dag' /\ Fail(bad).tx = k /\ Fail(bad).failed
        BY <2>3, <3>1, NodeFacts
      <4>2. Single(k)'
        BY <1>1 DEF OneCopyInv
      <4>3. /\ Copies(k)' = 0
            /\ \A x \in dag' : x.tx = k => x = Fail(bad)
            /\ ~(k > g_index)'
        BY <4>1, <4>2 DEF Single
      <4>. QED  BY <4>1, <4>3 DEF Live, Copies
    <3>. QED  BY <1>2, <1>5, <3>3, <3>4, <3>5 DEF Once
  <2>. QED  BY <2>2, <2>3
<1>12. ASSUME NEW n \in TxIndex, NEW trunk \in Node, NEW branch \in Node,
              Attached(n, trunk, branch)
       PROVE  Once(k)'
  <2>0. trunk \in dag /\ branch \in dag /\ ~trunk.failed /\ ~branch.failed
        /\ trunk.tx \in TxIndex /\ branch.tx \in TxIndex
    BY <1>12, AttachedNodes, NodeFacts
  <2>1. trunk.tx = branch.tx => trunk = branch
    BY <2>0 DEF OneCopyInv, Single
  <2>2. ASSUME NEW x \in {trunk, branch}, x.tx = k, ~x.confirmed,
               \A kinds \in SUBSET Status :
                  Noticed(k, kinds)' = Noticed(k, kinds) + IsPair(x.tx, NoticeOf(k, kinds))
        PROVE  Once(k)'
    <3>1. Noticed(k, Status) = 0
      BY <1>2, <2>0, <2>2 DEF Once, Live
    <3>2. /\ IsPair(x.tx, NoticeOf(k, Final)) = 1
          /\ IsPair(x.tx, NoticeOf(k, Paying)) = 1
      BY <1>5, <2>2, PairCounts, KindTypes
    <3>3. Noticed(k, Final)' = 0 + 1 /\ Noticed(k, Paying)' = 0 + 1
      BY <1>2, <1>5, <2>2, <3>1, <3>2
    <3>4. ~Live(k)'
      <4>1. Copies(k)' = Copies(k) - (IF k = n THEN 1 ELSE 0) /\ Copies(k) = 0
        BY <1>12, <2>0, <2>2, CopiesStep DEF OneCopyInv, Single
      <4>2. k # n
        BY <1>3, <4>1
      <4>3. ASSUME NEW y \in dag', y.tx = k PROVE y.confirmed
        <5>1. x \in dag /\ x \in Node /\ Confirm(x).confirmed
          BY <2>0, <2>2, NodeFacts
        <5>2. \/ y = Tip(n)
              \/ y \in dag \ {trunk, branch}
              \/ y = Confirm(trunk)
              \/ y = Confirm(branch)
          BY <1>12, AttachedNodes
        <5>3. y # Tip(n)
          BY <4>2, <4>3, NodeFacts
        <5>4. y \notin dag \ {trunk, branch}
          BY <2>2, <4>3, <5>1 DEF OneCopyInv, Single
        <5>. QED  BY <5>2, <5>3, <5>4, NodeFacts
      <4>4. g_index' = g_index /\ ~(k > g_index)
        <5>1. \E y \in dag : y.tx = k
          BY <2>0, <2>2
        <5>. QED  BY <1>12, <5>1 DEF Attached, OneCopyInv, Single
      <4>. QED  BY <4>1, <4>2, <4>3, <4>4 DEF Live, Copies
    <3>. QED  BY <3>3, <3>4 DEF Once
  <2>. DEFINE fresh1 == ~trunk.confirmed /\ trunk.tx = k
              fresh2 == ~branch.confirmed /\ trunk # branch /\ branch.tx = k
  <2>3. ASSUME NEW kinds \in SUBSET Status
        PROVE  /\ Noticed(k, kinds)' = Noticed(k, kinds)
                     + (IF ~trunk.confirmed
                        THEN IsPair(trunk.tx, NoticeOf(k, kinds)) ELSE 0)
                     + (IF ~branch.confirmed /\ trunk # branch
                        THEN IsPair(branch.tx, NoticeOf(k, kinds)) ELSE 0)
               /\ trunk.tx # k => IsPair(trunk.tx, NoticeOf(k, kinds)) = 0
               /\ branch.tx # k => IsPair(branch.tx, NoticeOf(k, kinds)) = 0
               /\ IsPair(trunk.tx, NoticeOf(k, kinds)) \in Nat
               /\ IsPair(branch.tx, NoticeOf(k, kinds)) \in Nat
    BY <1>12, <2>0, NoticedAttached, PairCounts
  <2>4. CASE fresh1
    <3>1. ~fresh2
      BY <2>1, <2>4
    <3>2. \A kinds \in SUBSET Status :
             Noticed(k, kinds)' = Noticed(k, kinds) + IsPair(trunk.tx, NoticeOf(k, kinds))
      BY <1>2, <2>3, <2>4, <3>1
    <3>. QED  BY <2>2, <2>4, <3>2
  <2>5. CASE fresh2
    <3>1. ~fresh1
      BY <2>1, <2>5
    <3>2. \A kinds \in SUBSET Status :
             Noticed(k, kinds)' = Noticed(k, kinds) + IsPair(branch.tx, NoticeOf(k, kinds))
      BY <1>2, <2>3, <2>5, <3>1
    <3>. QED  BY <2>2, <2>5, <3>2
  <2>6. CASE ~fresh1 /\ ~fresh2
    <3>1. \A kinds \in SUBSET Status : Noticed(k, kinds)' = Noticed(k, kinds)
      BY <1>2, <2>3, <2>6
    <3>. QED  BY <1>2, <1>6, <3>1
  <2>. QED  BY <2>4, <2>5, <2>6
<1>. QED
  BY <1>0, <1>7, <1>8, <1>9, <1>10, <1>11, <1>12 DEF Effect

\* As long as no confirmed deal fails later (layer.h:74), a deal is decided
\* once: while it is undecided there is no notice about it, and no second
\* decision is ever in flight (layer_mainchain.cpp, transaction_recv).
THEOREM OneDecisionHolds == Spec /\ []ConfirmedStands => []OneDecision
<1>1. Init => OneCopyInv /\ OnceInv
  BY OneCopyInit, OnceInit
<1>2. TypeOK /\ OneCopyInv /\ OnceInv /\ [Next]_vars /\ ConfirmedStands'
      => OneCopyInv' /\ OnceInv'
  <2>. SUFFICES ASSUME TypeOK, OneCopyInv, OnceInv, [Next]_vars, ConfirmedStands'
                PROVE  OneCopyInv' /\ OnceInv'
    OBVIOUS
  <2>1. \A k \in TxIndex : Once(k)'
    BY OnceStep
  <2>. QED  BY <2>1, OneCopyStep DEF OnceInv
<1>3. TypeOK /\ OneCopyInv /\ OnceInv => OneDecision
  <2>. SUFFICES ASSUME TypeOK, OneCopyInv, OnceInv, NEW n \in TxIndex
                PROVE  Cardinality(Held(n))
                       + Cardinality({x \in Nodes(n) : ~x.confirmed /\ ~x.failed})
                       + Cardinality(Notices(n, {"SRC", "DEVICE", "LEDGER"})) <= 1
    BY DEF OneDecision
  <2>. DEFINE L == {x \in Nodes(n) : ~x.confirmed /\ ~x.failed}
  <2>1. queue \in [Thread -> Seq(Message)]
    BY DEF TypeOK
  <2>2. Cardinality(Held(n)) = Copies(n)
    BY <2>1, HeldSpots DEF Held, Places, MessageAt, Copies, Tally
  <2>3. Cardinality(Notices(n, {"SRC", "DEVICE", "LEDGER"})) = Noticed(n, Final)
    BY <2>1, NoticesSpots, KindTypes DEF Final, Notices, Places, MessageAt, Noticed, Tally
  <2>4. /\ Copies(n) \in {0, 1}
        /\ Noticed(n, Final) \in Nat /\ Noticed(n, Final) <= 1
        /\ Live(n) => Noticed(n, Final) = 0
        /\ Copies(n) > 0 => Live(n) /\ \A x \in dag : x.tx # n
    <3>1. Noticed(n, Final) \in Nat /\ Noticed(n, Final) <= Noticed(n, Status)
      BY NoticedType, KindTypes
    <3>. QED  BY <3>1, OverFacts DEF OnceInv, Once
  <2>5. CASE L = {}
    <3>1. Cardinality(L) = 0
      BY <2>5, FS_EmptySet
    <3>. QED  BY <2>2, <2>3, <2>4, <3>1
  <2>6. CASE L # {}
    <3>1. PICK x \in dag : x.tx = n /\ ~x.confirmed /\ ~x.failed
      BY <2>6 DEF Nodes
    <3>2. L = {x}
      BY <3>1 DEF OneCopyInv, Single, Nodes
    <3>3. Cardinality(L) = 1
      BY <3>2, FS_Singleton
    <3>4. Live(n) /\ Copies(n) = 0
      BY <2>4, <3>1 DEF Live
    <3>. QED  BY <2>2, <2>3, <2>4, <3>3, <3>4
  <2>. QED  BY <2>5, <2>6
<1>. QED  BY <1>1, <1>2, <1>3, TypeCorrect, PTL DEF Spec

-----------------------------------------------------------------------------
(* Notices reach the device they are about *)

\* A notice about the source or the destination of its deal; a light device
\* has only notices about itself, a heavy one no other heavy device's.
Addressed(t, m) ==
    m.step = "LEDGER" =>
        /\ m.device = IF m.status = "DST" THEN Dst(m.tx) ELSE Src(m.tx)
        /\ t \in Light => m.device = t
        /\ t \in Heavy /\ m.device \in Heavy => m.device = t
AllAddressed(q) == \A t \in Thread : \A m \in ToSet(q[t]) : Addressed(t, m)

\* With it: a heavy device enters a dag only when it is listed, so that
\* transaction_device never answers with another heavy device for it.
AddressedInv ==
    /\ AllAddressed(queue)
    /\ \A x \in Heavy : group[x] # {} => listed[x]

\* No heavy device's uninitialised dag_index reads 1.
LightStray == Stray \subseteq Light

LEMMA AddressedInsert ==
    ASSUME NEW q \in [Thread -> Seq(Message)], AllAddressed(q),
           NEW t \in Thread, NEW m \in Message, Addressed(t, m)
    PROVE  AllAddressed(QueueInsert(q, t, m))
<1>1. /\ QueueInsert(q, t, m)[t] = Enqueue(q[t], m)
      /\ \A u \in Thread \ {t} : QueueInsert(q, t, m)[u] = q[u]
  BY QueueInsertProperties
<1>2. ToSet(Enqueue(q[t], m)) = ToSet(q[t]) \cup {m}
  BY ToSetEnqueue
<1>. QED  BY <1>1, <1>2 DEF AllAddressed

LEMMA AddressedDelete ==
    ASSUME NEW q \in [Thread -> Seq(Message)], AllAddressed(q),
           NEW t \in Thread, NEW i \in DOMAIN q[t]
    PROVE  AllAddressed(QueueDelete(q, t, i))
<1>1. /\ QueueDelete(q, t, i)[t] = RemoveAt(q[t], i)
      /\ \A u \in Thread \ {t} : QueueDelete(q, t, i)[u] = q[u]
  BY QueueDeleteProperties
<1>2. ToSet(RemoveAt(q[t], i)) \subseteq ToSet(q[t])
  BY ToSetRemoveAt
<1>. QED  BY <1>1, <1>2 DEF AllAddressed

LEMMA AddressedForward ==
    ASSUME TypeOK, AllAddressed(queue), NEW t \in Thread, NEW i \in DOMAIN queue[t],
           NEW u \in Thread, NEW m \in Message, Addressed(u, m),
           queue' = QueueInsert(QueueDelete(queue, t, i), u, m)
    PROVE  AllAddressed(queue')
<1>. DEFINE q == QueueDelete(queue, t, i)
<1>1. q \in [Thread -> Seq(Message)] /\ AllAddressed(q)
  BY QueueTypes, AddressedDelete DEF TypeOK
<1>2. queue' = QueueInsert(q, u, m)
  OBVIOUS
<1>. HIDE DEF q
<1>. QED  BY <1>1, <1>2, AddressedInsert

LEMMA NoNotice ==
    /\ \A t, n : Addressed(t, Transaction(n))
    /\ \A t : Addressed(t, NullTransaction)
    /\ \A t : \A m \in ConnectMsg : Addressed(t, m)
BY DEF Addressed, Transaction, NullTransaction, ConnectMsg

LEMMA DeviceAddressed ==
    ASSUME TypeOK, AllAddressed(queue), NEW d \in Device, DeviceCall(d)
    PROVE  AllAddressed(queue')
<1>0. /\ d \in Thread /\ Main \in Thread /\ Device \subseteq Thread
      /\ queue \in [Thread -> Seq(Message)]
      /\ NullTransaction \in Message
  BY NewMessages DEF Thread, TypeOK
<1>1. CASE ConnectRecv(d) \/ TransactionDrop(d)
  <2>1. PICK i \in DOMAIN queue[d] : queue' = QueueDelete(queue, d, i)
    BY <1>1 DEF ConnectRecv, TransactionDrop
  <2>. QED  BY <1>0, <2>1, AddressedDelete
<1>2. CASE ConnectSend(d)
  <2>. DEFINE seen == near[d] \ Known(d)
              known == route[d] \cup seen
              quoted == [l \in Light |-> IF l \in seen THEN token[l]
                                         ELSE copy[d][l]]
              to == known \cup (IF d \in Heavy THEN {Main} ELSE {})
  <2>1. \/ queue' = queue
        \/ queue' = [t \in Thread |->
                 CASE t = d -> Enqueue(queue[d], NullTransaction)
                   [] t # d /\ t \in to -> Enqueue(queue[t], Index(d, known, quoted))
                   [] OTHER -> queue[t]]
    BY <1>2 DEF ConnectSend
  <2>2. known \in SUBSET Device /\ quoted \in [Light -> Amount]
    BY DEF TypeOK, Light
  <2>. HIDE DEF known, quoted, to
  <2>3. Index(d, known, quoted) \in ConnectMsg
    BY <2>2, NewIndex
  <2>4. \A t \in Thread :
           /\ ToSet(Enqueue(queue[t], NullTransaction)) = ToSet(queue[t]) \cup {NullTransaction}
           /\ ToSet(Enqueue(queue[t], Index(d, known, quoted)))
              = ToSet(queue[t]) \cup {Index(d, known, quoted)}
    <3>1. /\ Index(d, known, quoted) \in Message
          /\ \A t \in Thread : queue[t] \in Seq(Message)
      BY <1>0, <2>3 DEF Message
    <3>. QED  BY <1>0, <3>1, ToSetEnqueue
  <2>5. \A t \in Thread : \/ queue'[t] = queue[t]
                          \/ queue'[t] = Enqueue(queue[t], NullTransaction)
                          \/ queue'[t] = Enqueue(queue[t], Index(d, known, quoted))
    <3>. DEFINE sent(t) ==
                 CASE t = d -> Enqueue(queue[d], NullTransaction)
                   [] t # d /\ t \in to -> Enqueue(queue[t], Index(d, known, quoted))
                   [] OTHER -> queue[t]
    <3>1. \A t \in Thread : \/ sent(t) = queue[t]
                            \/ sent(t) = Enqueue(queue[t], NullTransaction)
                            \/ sent(t) = Enqueue(queue[t], Index(d, known, quoted))
      OBVIOUS
    <3>2. queue' = queue \/ queue' = [t \in Thread |-> sent(t)]
      BY <2>1
    <3>. HIDE DEF sent
    <3>. QED  BY <3>1, <3>2
  <2>. QED  BY <2>3, <2>4, <2>5, NoNotice DEF AllAddressed
<1>3. CASE TransactionRecv(d)
  <2>1. PICK i \in DOMAIN queue[d] : TransactionRecv(d)!1!(i)
    BY <1>3 DEF TransactionRecv
  <2>. DEFINE n == queue[d][i].tx
  <2>2. queue[d][i].step = "TRANSACTION" /\ n # 0
    BY <2>1 DEF DeviceTakes, IsNext
  <2>3. n \in TxIndex
    BY <1>0, <2>2, DealAt
  <2>4. \/ /\ Src(n) \in Light
           /\ queue' = QueueInsert(QueueDelete(queue, d, i), Src(n), Ledger("LEDGER", n, Src(n)))
        \/ queue' = QueueInsert(QueueDelete(queue, d, i), Main, Transaction(n))
    BY <2>1
  <2>. HIDE DEF n
  <2>5. /\ Src(n) \in Device /\ Src(n) \in Thread
        /\ Ledger("LEDGER", n, Src(n)) \in Message /\ Transaction(n) \in Message
    BY <1>0, <2>3, DealTypes, NewMessages DEF Status
  <2>6. Src(n) \in Light => Addressed(Src(n), Ledger("LEDGER", n, Src(n)))
    BY DEF Addressed, Ledger, Light
  <2>. QED  BY <1>0, <2>4, <2>5, <2>6, AddressedForward, NoNotice
<1>4. CASE TransactionNone(d)
  BY <1>0, <1>4, AddressedInsert, NoNotice DEF TransactionNone, StayAwake
<1>5. CASE TransactionIssue(d)
  <2>. DEFINE n == g_index + 1
              q == QueueInsert(queue, d, NullTransaction)
  <2>1. n \in TxIndex
    BY <1>5, LenProperties, LayerAssumption DEF TransactionIssue, MyDeal, TypeOK, TxIndex
  <2>2. Transaction(n) \in Message
    BY <2>1, NewMessages
  <2>3. \/ queue' = QueueInsert(queue, d, Transaction(n))
        \/ /\ gate[d] # Nobody /\ d \in Light
           /\ queue' = QueueInsert(q, gate[d], Transaction(n))
        \/ queue' = q
    BY <1>5 DEF TransactionIssue, StayAwake
  <2>4. AllAddressed(q) /\ q \in [Thread -> Seq(Message)]
    BY <1>0, AddressedInsert, NoNotice, QueueInsertProperties
  <2>5. gate[d] # Nobody /\ d \in Light => gate[d] \in Thread
    BY LayerAssumption DEF TypeOK, Heavy, Device, Thread
  <2>. HIDE DEF n, q
  <2>. QED  BY <1>0, <2>2, <2>3, <2>4, <2>5, AddressedInsert, NoNotice
<1>6. CASE LedgerRecv(d)
  <2>1. PICK i \in DOMAIN queue[d] : LedgerRecv(d)!1!(i)
    BY <1>6 DEF LedgerRecv
  <2>2. \/ queue' = QueueDelete(queue, d, i)
        \/ /\ queue[d][i].device \in Light
           /\ queue' = QueueInsert(QueueDelete(queue, d, i), queue[d][i].device, queue[d][i])
    BY <2>1
  <2>3. CASE queue' = QueueDelete(queue, d, i)
    BY <1>0, <2>3, AddressedDelete
  <2>4. CASE /\ queue[d][i].device \in Light
             /\ queue' = QueueInsert(QueueDelete(queue, d, i), queue[d][i].device, queue[d][i])
    <3>. DEFINE m == queue[d][i]
    <3>1. m \in Message /\ m \in ToSet(queue[d]) /\ m.device \in Thread
      BY <1>0, <2>4, QueueTypes, ToSetMember DEF Light
    <3>2. Addressed(d, m)
      BY <1>0, <3>1 DEF AllAddressed
    <3>3. Addressed(m.device, m)
      BY <2>4, <3>2 DEF Addressed, Light
    <3>. QED  BY <1>0, <2>4, <3>1, <3>3, AddressedForward
  <2>. QED  BY <2>2, <2>3, <2>4
<1>7. CASE LedgerUnknown(d)
  BY <1>7 DEF LedgerUnknown
<1>8. CASE LedgerSend(d)
  BY <1>0, <1>8, NewEmptyIndex, AddressedInsert, NoNotice DEF LedgerSend, Message
<1>. QED
  BY <1>1, <1>2, <1>3, <1>4, <1>5, <1>6, <1>7, <1>8 DEF DeviceCall

\* What transaction_device answers is where the notice belongs.
LEMMA HeavyOfAddress ==
    ASSUME TypeOK, AddressedInv, NEW x \in Device
    PROVE  /\ HeavyOf(x) \in Light => HeavyOf(x) = x
           /\ HeavyOf(x) \in Heavy /\ x \in Heavy => HeavyOf(x) = x
<1>1. HeavyOf(x) \in Heavy \cup {Main}
  BY HeavyOfProperties
<1>2. HeavyOf(x) \notin Light
  BY <1>1, LayerAssumption DEF Light, Device, Main
<1>3. ASSUME x \in Heavy, HeavyOf(x) \in Heavy PROVE HeavyOf(x) = x
  <2>1. CASE listed[x]
    BY <1>3, <2>1 DEF HeavyOf
  <2>2. CASE ~listed[x]
    <3>1. group[x] = {}
      BY <1>3, <2>2 DEF AddressedInv
    <3>2. {h \in Heavy : listed[h] /\ h \in group[x]} = {}
      BY <3>1
    <3>3. HeavyOf(x) = Main
      BY <2>2, <3>2 DEF HeavyOf
    <3>. QED  BY <1>3, <3>3, LayerAssumption DEF Main, Heavy
  <2>. QED  BY <2>1, <2>2
<1>. QED  BY <1>2, <1>3

LEMMA NoticeAddressed ==
    ASSUME TypeOK, AddressedInv, NEW n \in TxIndex, NEW s \in Status,
           NEW x \in Device, x = IF s = "DST" THEN Dst(n) ELSE Src(n)
    PROVE  /\ Ledger(s, n, x) \in Message
           /\ HeavyOf(x) \in Thread
           /\ Addressed(HeavyOf(x), Ledger(s, n, x))
<1>1. /\ Ledger(s, n, x).device = x /\ Ledger(s, n, x).tx = n
      /\ Ledger(s, n, x).status = s
  BY DEF Ledger
<1>. QED  BY <1>1, NewMessages, HeavyOfThread, HeavyOfAddress DEF Addressed

LEMMA NotifyAddressed ==
    ASSUME TypeOK, AddressedInv, NEW n \in TxIndex,
           NEW q \in [Thread -> Seq(Message)], AllAddressed(q)
    PROVE  AllAddressed(Notify(q, n))
<1>. DEFINE m == Ledger("SRC", n, Src(n))
            k == Ledger("DST", n, Dst(n))
            h == HeavyOf(Src(n))
            g == HeavyOf(Dst(n))
            p == QueueInsert(q, h, m)
<1>1. Src(n) \in Device /\ Dst(n) \in Device /\ "SRC" \in Status /\ "DST" \in Status
  BY DealTypes DEF Status
<1>2. /\ m \in Message /\ h \in Thread /\ Addressed(h, m)
      /\ k \in Message /\ g \in Thread /\ Addressed(g, k)
  BY <1>1, NoticeAddressed
<1>. HIDE DEF m, k, h, g
<1>3. p \in [Thread -> Seq(Message)] /\ AllAddressed(p)
  BY <1>2, QueueInsertProperties, AddressedInsert
<1>. HIDE DEF p
<1>4. AllAddressed(QueueInsert(p, g, k))
  BY <1>2, <1>3, AddressedInsert
<1>. QED  BY <1>4 DEF Notify, p, m, k, h, g

LEMMA MainAddressed ==
    ASSUME TypeOK, AddressedInv, MainCall
    PROVE  AllAddressed(queue')
<1>0. /\ Main \in Thread /\ queue \in [Thread -> Seq(Message)]
      /\ NullTransaction \in Message /\ AllAddressed(queue)
  BY NewMessages DEF Thread, TypeOK, AddressedInv
<1>1. CASE \E i \in DOMAIN queue[Main] : queue' = QueueDelete(queue, Main, i)
  BY <1>0, <1>1, AddressedDelete
<1>2. CASE MainConnectRecv
  BY <1>1, <1>2 DEF MainConnectRecv
<1>3. CASE MainTransactionDrop
  BY <1>1, <1>3 DEF MainTransactionDrop, Taken
<1>4. CASE MainTransactionReuse
  BY <1>1, <1>4 DEF MainTransactionReuse, Taken
<1>5. CASE MainTransactionGenesis
  BY <1>1, <1>5 DEF MainTransactionGenesis, Taken
<1>6. CASE MainConnectSend \/ MainTransactionSend
  BY <1>0, <1>6, AddressedInsert, NoNotice DEF MainConnectSend, MainTransactionSend
<1>7. CASE MainTransactionFail
  <2>1. PICK i \in DOMAIN queue[Main] : \E bad \in dag :
           /\ Verify(bad.tx) # "DONE"
           /\ queue' = QueueInsert(QueueDelete(queue, Main, i),
                           HeavyOf(Src(bad.tx)),
                           Ledger(Verify(bad.tx), bad.tx, Src(bad.tx)))
    BY <1>7 DEF MainTransactionFail
  <2>2. PICK bad \in dag :
           /\ Verify(bad.tx) # "DONE"
           /\ queue' = QueueInsert(QueueDelete(queue, Main, i),
                           HeavyOf(Src(bad.tx)),
                           Ledger(Verify(bad.tx), bad.tx, Src(bad.tx)))
    BY <2>1
  <2>3. bad.tx \in TxIndex
    BY NodeFacts DEF TypeOK
  <2>4. Src(bad.tx) \in Device
    BY <2>3, DealTypes
  <2>5. Verify(bad.tx) \in Status /\ Verify(bad.tx) # "DST"
    BY <2>2 DEF Verify, Status
  <2>6. /\ Ledger(Verify(bad.tx), bad.tx, Src(bad.tx)) \in Message
        /\ HeavyOf(Src(bad.tx)) \in Thread
        /\ Addressed(HeavyOf(Src(bad.tx)), Ledger(Verify(bad.tx), bad.tx, Src(bad.tx)))
    BY <2>3, <2>4, <2>5, NoticeAddressed
  <2>. QED  BY <1>0, <2>2, <2>6, AddressedForward
<1>8. CASE MainTransactionAttach
  <2>0. PICK i \in DOMAIN queue[Main] :
            \E trunk, branch \in dag : MainTransactionAttach!1!(i, trunk, branch)
    BY <1>8 DEF MainTransactionAttach
  <2>1a. PICK trunk \in dag : \E branch \in dag : MainTransactionAttach!1!(i, trunk, branch)
    BY <2>0
  <2>1. PICK branch \in dag : MainTransactionAttach!1!(i, trunk, branch)
    BY <2>1a
  <2>. DEFINE first == Unconfirmed(trunk)
              second == Unconfirmed(branch) /\ trunk # branch
              rest == QueueDelete(queue, Main, i)
              q1 == IF first THEN Notify(rest, trunk.tx) ELSE rest
  <2>2. trunk.tx \in TxIndex /\ branch.tx \in TxIndex
    BY NodeFacts DEF TypeOK
  <2>3. rest \in [Thread -> Seq(Message)] /\ AllAddressed(rest)
    BY <1>0, QueueTypes, AddressedDelete
  <2>. HIDE DEF rest
  <2>4. q1 \in [Thread -> Seq(Message)] /\ AllAddressed(q1)
    BY <2>2, <2>3, NotifyCount, NotifyAddressed
  <2>5. queue' = IF second THEN Notify(q1, branch.tx) ELSE q1
    BY <2>1 DEF rest
  <2>. HIDE DEF q1
  <2>. QED  BY <2>2, <2>4, <2>5, NotifyAddressed
<1>9. CASE MainTransactionDefer \/ MainLedgerSkip \/ MainLedgerFault \/ MainLedgerEnd
  BY <1>0, <1>9
  DEF MainTransactionDefer, MainLedgerSkip, MainLedgerFault, MainLedgerEnd
<1>. QED
  BY <1>2, <1>3, <1>4, <1>5, <1>6, <1>7, <1>8, <1>9 DEF MainCall

LEMMA AddressedInit == Init => AddressedInv
<1>. SUFFICES ASSUME Init PROVE AddressedInv
  OBVIOUS
<1>1. queue \in [Thread -> Seq(Message)]
  BY InitType DEF TypeOK
<1>2. ASSUME NEW t \in Thread, NEW m \in ToSet(queue[t]) PROVE Addressed(t, m)
  <2>1. PICK i \in DOMAIN queue[t] : m = queue[t][i]
    BY <1>1, ToSetMember
  <2>2. t \in Device /\ queue[t] = <<EmptyIndex(t)>>
    BY <2>1 DEF Init, Thread
  <2>3. m = EmptyIndex(t)
    BY <2>1, <2>2
  <2>. QED  BY <2>2, <2>3, NewEmptyIndex, NoNotice
<1>3. \A x \in Heavy : group[x] = {}
  BY LayerAssumption DEF Init, Heavy, Device
<1>. QED  BY <1>2, <1>3 DEF AddressedInv, AllAddressed

LEMMA AddressedStep ==
    ASSUME LightStray, TypeOK, AddressedInv, [Next]_vars
    PROVE  AddressedInv'
<1>0. AllAddressed(queue) /\ queue \in [Thread -> Seq(Message)]
  BY DEF AddressedInv, TypeOK
<1>1. AllAddressed(queue')
  <2>1. CASE StartMainchain
    <3>1. \A t \in Thread : queue'[t] = queue[t] \/ queue'[t] = <<>>
      BY <1>0, <2>1 DEF StartMainchain
    <3>2. ToSet(<<>>) = {}
      BY DEF ToSet
    <3>. QED  BY <1>0, <3>1, <3>2 DEF AllAddressed
  <2>2. CASE Timer \/ ProcessMainchain \/ UNCHANGED vars
    BY <1>0, <2>2 DEF Timer, ProcessMainchain, vars
  <2>3. ASSUME NEW d \in Device, ProcessDevice(d) PROVE AllAddressed(queue')
    <3>. DEFINE m == Index(d, route[d], copy[d])
                q == QueueInsert(queue, Main, m)
    <3>1. m \in ConnectMsg /\ m \in Message /\ NullTransaction \in Message
          /\ d \in Thread /\ Main \in Thread
      BY NewIndex, NewMessages DEF TypeOK, Message, Thread
    <3>. HIDE DEF m
    <3>2. q \in [Thread -> Seq(Message)] /\ AllAddressed(q)
      BY <1>0, <3>1, QueueInsertProperties, AddressedInsert, NoNotice
    <3>. HIDE DEF q
    <3>3. queue' = queue \/ queue' = QueueInsert(q, d, NullTransaction)
      BY <2>3 DEF ProcessDevice, q, m
    <3>. QED  BY <1>0, <3>1, <3>2, <3>3, AddressedInsert, NoNotice
  <2>4. CASE MainCall
    BY <2>4, MainAddressed
  <2>5. ASSUME NEW d \in Device, DeviceCall(d) PROVE AllAddressed(queue')
    BY <1>0, <2>5, DeviceAddressed
  <2>. QED  BY <2>1, <2>2, <2>3, <2>4, <2>5 DEF Next, Call
<1>2. \A x \in Heavy : group'[x] # {} => listed'[x]
  <2>1. CASE UNCHANGED <<group, listed>>
    BY <2>1 DEF AddressedInv
  <2>2. CASE MainConnectRecv
    <3>1. PICK i \in DOMAIN queue[Main] : MainConnectRecv!2!(i)
      BY <2>2 DEF MainConnectRecv
    <3>. DEFINE m == queue[Main][i]
                new == m.index \cup FirstStray
    <3>2. \A x \in Heavy : x \in Device /\ x \notin FirstStray
      BY LayerAssumption DEF Heavy, Device, Light, FirstStray, LightStray
    <3>3. CASE m.from \in done
      BY <2>1, <3>1, <3>3
    <3>4. CASE m.from \notin done
      <4>1. /\ group' = [d \in Device |-> IF d \in new THEN new ELSE group[d] \ new]
            /\ listed' = [d \in Device |-> listed[d] \/ d \in m.index]
        BY <3>1, <3>4
      <4>. HIDE DEF m
      <4>. QED  BY <3>2, <4>1 DEF AddressedInv
    <3>. QED  BY <3>3, <3>4
  <2>3. MainCall => MainConnectRecv \/ UNCHANGED <<group, listed>>
    BY DEF MainCall, MainConnectSend, MainTransactionDrop, MainTransactionReuse,
           MainTransactionGenesis, MainTransactionDefer, MainTransactionFail,
           MainTransactionAttach, MainTransactionSend, MainLedgerSkip,
           MainLedgerFault, MainLedgerEnd, chainVars
  <2>4. ASSUME NEW d \in Device, DeviceCall(d) PROVE UNCHANGED <<group, listed>>
    BY <2>4
    DEF DeviceCall, ConnectRecv, ConnectSend, TransactionDrop, TransactionRecv,
        TransactionNone, TransactionIssue, LedgerRecv, LedgerUnknown, LedgerSend,
        chainVars
  <2>. QED
    BY <2>1, <2>2, <2>3, <2>4
    DEF Next, Call, StartMainchain, Timer, ProcessMainchain, ProcessDevice, vars,
        chainVars
<1>. QED  BY <1>1, <1>2 DEF AddressedInv

\* Nobody settles a notice about another device.
LEMMA SettledAddress ==
    ASSUME TypeOK, AddressedInv, NEW d \in Device, NEW m \in LedgerMsg, Settled(d, m)
    PROVE  /\ d = m.device
           /\ d = IF m.status = "DST" THEN Dst(m.tx) ELSE Src(m.tx)
<1>1. Addressed(d, m) /\ m.step = "LEDGER"
  BY DEF Settled, AddressedInv, AllAddressed, Thread, LedgerMsg
<1>2. d \in Light \/ m.device \in Heavy
  BY DEF Settled
<1>. QED  BY <1>1, <1>2 DEF Addressed, Light

-----------------------------------------------------------------------------
(* The threads implement Payments *)

\* Deal n is undecided, or a notice of one of these kinds is on its way.  With
\* Paying it is the same as Underway, with Final the same as Undecided.
Going(n, kinds) ==
    \/ Copies(n) > 0
    \/ \E x \in dag : x.tx = n /\ ~x.confirmed /\ ~x.failed
    \/ Noticed(n, kinds) > 0

LEMMA EmptyTally ==
    ASSUME NEW q \in [Thread -> Seq(Message)], NEW K
    PROVE  Spots(q, K) # {} <=> Tally(q, K) > 0
<1>1. Tally(q, K) \in Nat /\ (Tally(q, K) = 0 <=> Spots(q, K) = {})
  BY TallyType, CountNone DEF Tally
<1>. QED  BY <1>1

LEMMA UnderwayGoing ==
    ASSUME queue \in [Thread -> Seq(Message)], NEW n \in TxIndex
    PROVE  Underway(n) <=> Going(n, Paying)
<1>1. Held(n) = Spots(queue, DealOf(n))
  BY HeldSpots DEF Held, Places, MessageAt
<1>2. Notices(n, {"DST", "DEVICE", "LEDGER"}) = Spots(queue, NoticeOf(n, Paying))
  BY NoticesSpots, KindTypes DEF Notices, Places, MessageAt, Paying
<1>. QED
  BY <1>1, <1>2, EmptyTally DEF Underway, Going, Nodes, Copies, Noticed

LEMMA UnderwayGoingNext ==
    ASSUME queue' \in [Thread -> Seq(Message)], NEW n \in TxIndex
    PROVE  Underway(n)' <=> Going(n, Paying)'
<1>1. Held(n)' = Spots(queue', DealOf(n))
  BY HeldSpots DEF Held, Places, MessageAt
<1>2. Notices(n, {"DST", "DEVICE", "LEDGER"})' = Spots(queue', NoticeOf(n, Paying))
  BY NoticesSpots, KindTypes DEF Notices, Places, MessageAt, Paying
<1>. QED
  BY <1>1, <1>2, EmptyTally DEF Underway, Going, Nodes, Copies, Noticed

\* Only taking a deal up sets it going.
LEMMA GoingStep ==
    ASSUME TypeOK, OneCopyInv, ConfirmedStands', [Next]_vars, ~Issued,
           NEW k \in TxIndex, NEW kinds \in SUBSET Status,
           Going(k, kinds)'
    PROVE  Going(k, kinds)
<1>0. Effect
  BY StepEffect
<1>1. /\ Noticed(k, kinds) \in Nat /\ Noticed(k, kinds)' \in Nat
      /\ Copies(k) \in Nat /\ Copies(k)' \in Nat
  <2>1. TypeOK'
    BY TypeStep
  <2>2. queue \in [Thread -> Seq(Message)] /\ queue' \in [Thread -> Seq(Message)]
    BY <2>1 DEF TypeOK
  <2>. QED  BY <2>2, TallyType DEF Noticed, Copies
<1>2. k \in Nat /\ g_index \in Nat /\ g_index' \in Nat
  BY TypeStep, LenProperties, LayerAssumption DEF TypeOK, TxIndex
<1>3. \A n \in TxIndex : Waits(Transaction(n)) => Copies(n) > 0
  BY WaitsDeal DEF Copies
<1>4. CASE Copies(k)' > 0 \/ \E x \in dag' : x.tx = k /\ ~x.confirmed /\ ~x.failed
  <2>1. Live(k)' /\ ~(k > g_index)'
    <3>1. OneCopyInv'
      BY OneCopyStep
    <3>2. Single(k)'
      BY <3>1 DEF OneCopyInv
    <3>. QED  BY <1>1, <1>4, <3>2 DEF Single, Live
  <2>2. Live(k)
    BY <2>1, LiveStep
  <2>3. CASE ~(k > g_index)
    BY <2>2, <2>3 DEF Live, Going
  <2>4. CASE k > g_index
    <3>1. g_index' # g_index
      BY <1>2, <2>1, <2>4
    <3>2. Skipped
      BY <1>0, <3>1
      DEF Effect, Idle, Cleared, Dropped, Refused, Settled, Placed, Failed, Attached
    <3>3. Copies(k)' = Copies(k) /\ dag' = dag
      BY <3>2, CopiesStep DEF Skipped
    <3>. QED  BY <1>4, <3>3 DEF Going
  <2>. QED  BY <2>3, <2>4
<1>5. CASE Noticed(k, kinds)' > 0 /\ Noticed(k, kinds) = 0
  <2>1. ~Idle /\ ~Skipped /\ ~Cleared
    BY <1>1, <1>5, NoticedStep
  <2>2. ASSUME NEW n \in TxIndex, Dropped(n) \/ Placed(n) PROVE FALSE
    BY <1>1, <1>5, <2>2, NoticedStep
  <2>3. ASSUME NEW n \in TxIndex, Refused(n) PROVE Copies(k) > 0
    <3>1. n = k
      BY <1>1, <1>5, <2>3, NoticedStep
    <3>. QED  BY <1>3, <2>3, <3>1 DEF Refused
  <2>4. ASSUME NEW d \in Device, NEW m \in LedgerMsg, Settled(d, m) PROVE FALSE
    BY <1>1, <1>5, <2>4, NoticedSettled
  <2>5. ASSUME NEW n \in TxIndex, NEW bad \in Node, Failed(n, bad)
        PROVE  \E x \in dag : x.tx = k /\ ~x.confirmed /\ ~x.failed
    <3>1. bad.tx = k
      BY <1>1, <1>5, <2>5, NoticedFailed
    <3>2. dag' = (dag \ {bad}) \cup {Fail(bad)} /\ bad \in dag /\ ~bad.failed
      BY <2>5, FailedNodes
    <3>3. ~bad.confirmed
      BY <3>2, NodeFacts DEF ConfirmedStands
    <3>. QED  BY <3>1, <3>2, <3>3
  <2>6. ASSUME NEW n \in TxIndex, NEW trunk \in Node, NEW branch \in Node,
               Attached(n, trunk, branch)
        PROVE  \E x \in dag : x.tx = k /\ ~x.confirmed /\ ~x.failed
    <3>1. /\ trunk \in dag /\ branch \in dag /\ ~trunk.failed /\ ~branch.failed
          /\ trunk.tx \in TxIndex /\ branch.tx \in TxIndex
      BY <2>6, AttachedNodes, NodeFacts
    <3>2. /\ trunk.tx # k => IsPair(trunk.tx, NoticeOf(k, kinds)) = 0
          /\ branch.tx # k => IsPair(branch.tx, NoticeOf(k, kinds)) = 0
      BY <3>1, PairCounts
    <3>3. \/ trunk.tx = k /\ ~trunk.confirmed
          \/ branch.tx = k /\ ~branch.confirmed
      BY <1>5, <2>6, <3>2, NoticedAttached
    <3>. QED  BY <3>1, <3>3
  <2>. QED
    BY <1>0, <2>1, <2>2, <2>3, <2>4, <2>5, <2>6 DEF Effect, Going
<1>. QED  BY <1>1, <1>4, <1>5 DEF Going

LEMMA SubExact ==
    ASSUME NEW a \in Amount, NEW b \in Amount, b <= a
    PROVE  Sub(a, b) = a - b
<1>1. Word \in Nat \ {0} /\ a - b \in 0 .. Word - 1
  BY LayerAssumption DEF Amount
<1>2. \A x \in 0 .. Word - 1 : x % Word = x
  BY <1>1
<1>. QED  BY <1>1, <1>2 DEF Sub

\* The deals the abstract specification sees paying.
Paid == {n \in TxIndex : Underway(n)}

\* With the invariants above, each step is one of Payments, or none.
LEMMA PaymentsStep ==
    ASSUME TypeOK, OneCopyInv, OnceInv, AddressedInv, ConfirmedStands',
           [Next]_vars
    PROVE  [Ledgers!Next]_(Ledgers!vars)
<1>0. Effect /\ TypeOK'
  BY StepEffect, TypeStep
<1>1. queue \in [Thread -> Seq(Message)] /\ queue' \in [Thread -> Seq(Message)]
  BY <1>0 DEF TypeOK
<1>2. Paid = {n \in TxIndex : Going(n, Paying)} /\ Paid' = {n \in TxIndex : Going(n, Paying)'}
  BY <1>1, UnderwayGoing, UnderwayGoingNext DEF Paid
<1>3. /\ \A n \in TxIndex : Copies(n) \in Nat /\ Copies(n)' \in Nat
      /\ \A n \in TxIndex : \A kinds : Noticed(n, kinds) \in Nat /\ Noticed(n, kinds)' \in Nat
  BY <1>1, TallyType DEF Copies, Noticed
<1>4. ~Issued => Paid' \subseteq Paid
  BY <1>2, GoingStep, KindTypes
<1>5. CASE UNCHANGED <<g_index, token>> /\ ~Issued
  <2>1. Ledgers!Lose
    BY <1>4, <1>5 DEF Ledgers!Lose, Paid
  <2>. QED  BY <2>1 DEF Ledgers!Next
<1>6. Issued => g_index' # g_index
  BY DEF Issued, TypeOK
<1>7. CASE Skipped
  <2>1. Paid' = Paid
    <3>1. ASSUME NEW n \in TxIndex PROVE Going(n, Paying)' <=> Going(n, Paying)
      <4>1. Copies(n)' = Copies(n) /\ Noticed(n, Paying)' = Noticed(n, Paying)
        BY <1>7, CopiesStep, NoticedStep, KindTypes
      <4>2. dag' = dag
        BY <1>7 DEF Skipped
      <4>. QED  BY <4>1, <4>2 DEF Going
    <3>. QED  BY <1>2, <3>1
  <2>2. /\ g_index + 1 \in TxIndex
        /\ Price(g_index + 1) > token[Src(g_index + 1)]
        /\ g_index' = g_index + 1 /\ token' = token
    BY <1>7 DEF Skipped
  <2>3. g_index < Len(Deals)
    BY <2>2, LenProperties, LayerAssumption DEF TxIndex, TypeOK
  <2>4. Ledgers!Skip
    BY <2>1, <2>2, <2>3 DEF Ledgers!Skip, Paid, Price, Src
  <2>. QED  BY <2>4 DEF Ledgers!Next
<1>8. CASE Issued
  <2>0. PICK n \in TxIndex : n = g_index + 1
    BY <1>8 DEF Issued
  <2>1. /\ n \in TxIndex /\ Price(n) <= token[Src(n)]
        /\ g_index' = n /\ dag' = dag
        /\ token' = [token EXCEPT ![Src(n)] = Sub(@, Price(n))]
    BY <1>8, <2>0 DEF Issued
  <2>2. g_index < Len(Deals) /\ n > g_index
    BY <2>0, <2>1, LenProperties, LayerAssumption DEF TxIndex, TypeOK
  <2>3. Src(n) \in Device /\ token[Src(n)] \in Amount /\ Price(n) \in Amount
    BY <2>1, DealTypes DEF TypeOK
  <2>4. token' = [token EXCEPT ![Src(n)] = @ - Price(n)]
    BY <2>1, <2>3, SubExact
  <2>5. ASSUME NEW k \in TxIndex, k # n PROVE Going(k, Paying)' <=> Going(k, Paying)
    <3>1. Copies(k)' = Copies(k) /\ Noticed(k, Paying)' = Noticed(k, Paying)
      BY <1>3, <1>8, <2>0, <2>5, CopiesStep, NoticedStep, KindTypes
    <3>. QED  BY <2>1, <3>1 DEF Going
  <2>6. ~Going(n, Paying)
    <3>1. Copies(n) = 0 /\ \A x \in dag : x.tx # n
      BY <2>1, <2>2 DEF OneCopyInv, Single
    <3>2. Noticed(n, Paying) = 0
      <4>1. Live(n) /\ Once(n)
        BY <2>1, <2>2 DEF Live, OnceInv
      <4>2. Noticed(n, Paying) <= Noticed(n, Status)
        BY <2>1, NoticedType, KindTypes
      <4>. QED  BY <1>3, <2>1, <4>1, <4>2 DEF Once
    <3>. QED  BY <3>1, <3>2 DEF Going
  <2>7. Paid' \in {Paid, Paid \cup {n}}
    <3>1. CASE Going(n, Paying)'
      <4>1. \A k \in TxIndex : k \in Paid' <=> k \in Paid \cup {n}
        BY <1>2, <2>5, <3>1
      <4>2. Paid' = Paid \cup {n}
        BY <1>2, <2>1, <4>1
      <4>. QED  BY <4>2
    <3>2. CASE ~Going(n, Paying)'
      BY <1>2, <2>1, <2>5, <2>6, <3>2
    <3>. QED  BY <3>1, <3>2
  <2>8. Ledgers!Take
    BY <2>0, <2>1, <2>2, <2>4, <2>7 DEF Ledgers!Take, Paid, Price, Src
  <2>. QED  BY <2>8 DEF Ledgers!Next
<1>9. ASSUME NEW d \in Device, NEW m \in LedgerMsg, Settled(d, m)
      PROVE  [Ledgers!Next]_(Ledgers!vars)
  <2>. DEFINE n == m.tx
  <2>1. /\ g_index' = g_index /\ dag' = dag
        /\ Settle(d, m.status, Price(n)) /\ Waits(m)
    BY <1>9 DEF Settled
  <2>2. n \in TxIndex /\ m.status \in Status
    BY DEF LedgerMsg
  <2>3. CASE m.status = "SRC"
    <3>1. token' = token
      BY <2>1, <2>3 DEF Settle, TypeOK
    <3>. QED  BY <1>5, <1>6, <2>1, <3>1
  <2>4. CASE m.status # "SRC"
    <3>1. m.status \in Paying
      BY <2>2, <2>4 DEF Status, Paying
    <3>2. Noticed(n, Paying) > 0
      BY <3>1, <2>1, WaitsNotice DEF Noticed
    <3>3. Going(n, Paying)
      BY <3>2 DEF Going
    <3>4. ~Going(n, Paying)'
      <4>1. Noticed(n, Paying) <= 1 /\ Noticed(n, Paying) <= Noticed(n, Status)
        BY <2>2, NoticedType, KindTypes DEF OnceInv, Once
      <4>2. ~Live(n)
        BY <1>3, <2>2, <3>2, <4>1 DEF OnceInv, Once
      <4>3. Noticed(n, Paying)' = 0
        BY <1>3, <1>9, <2>2, <3>1, <3>2, <4>1, NoticedSettled, KindTypes
      <4>4. Copies(n)' = Copies(n)
        BY <1>9, <2>2, CopiesStep
      <4>. QED  BY <2>1, <4>2, <4>3, <4>4 DEF Live, Going
    <3>5. ASSUME NEW k \in TxIndex, k # n PROVE Going(k, Paying)' <=> Going(k, Paying)
      <4>1. Copies(k)' = Copies(k)
        BY <1>9, CopiesStep
      <4>2. Noticed(k, Paying)' = Noticed(k, Paying)
        BY <1>3, <1>9, <3>5, NoticedSettled, KindTypes
      <4>. QED  BY <2>1, <4>1, <4>2 DEF Going
    <3>6. Paid' = Paid \ {n} /\ n \in Paid
      <4>. HIDE DEF n
      <4>. QED  BY <1>2, <2>2, <3>3, <3>4, <3>5
    <3>7. d \in {Deals[n].src, Deals[n].dst}
      BY <1>9, SettledAddress DEF Src, Dst
    <3>8. token' = [token EXCEPT ![d] = (@ + Deals[n].token) % Word]
      BY <2>1, <2>4 DEF Settle, Add, Price
    <3>9. Ledgers!Arrive
      BY <2>1, <3>6, <3>7, <3>8 DEF Ledgers!Arrive, Paid
    <3>. QED  BY <3>9 DEF Ledgers!Next
  <2>. QED  BY <2>3, <2>4
<1>10. CASE ~Skipped /\ ~Issued /\ \A d \in Device, m \in LedgerMsg : ~Settled(d, m)
  <2>1. UNCHANGED <<g_index, token>>
    BY <1>0, <1>10
    DEF Effect, Idle, Cleared, Dropped, Refused, Placed, Failed, Attached
  <2>. QED  BY <1>5, <1>10, <2>1
<1>. QED  BY <1>7, <1>8, <1>9, <1>10

LEMMA PaymentsInit == Init => Ledgers!Init
<1>. SUFFICES ASSUME Init PROVE Ledgers!Init
  OBVIOUS
<1>1. queue \in [Thread -> Seq(Message)]
  BY InitType DEF TypeOK
<1>2. ASSUME NEW n \in TxIndex PROVE ~Underway(n)
  <2>1. ASSUME NEW t \in Thread, NEW i \in DOMAIN queue[t]
        PROVE  queue[t][i] \notin DealOf(n) /\ queue[t][i] \notin NoticeOf(n, Paying)
    <3>1. t \in Device /\ queue[t] = <<EmptyIndex(t)>>
      BY DEF Init, Thread
    <3>2. queue[t][i] = EmptyIndex(t)
      BY <3>1
    <3>. QED  BY <3>1, <3>2, NewEmptyIndex, PayloadTypes, KindTypes
  <2>2. Copies(n) = 0 /\ Noticed(n, Paying) = 0
    BY <1>1, <2>1, CountNone DEF Tally, Copies, Noticed
  <2>3. dag = {}
    BY DEF Init
  <2>. QED  BY <1>1, <2>2, <2>3, UnderwayGoing DEF Going
<1>. QED  BY <1>2 DEF Init, Ledgers!Init

\* As long as no confirmed deal fails later, and if no heavy device's
\* uninitialised dag_index reads 1, the threads implement Payments: a deal's
\* tokens arrive at most once, at one of its two devices, and nothing else
\* moves tokens (layer_device.cpp, layer_mainchain.cpp).
THEOREM PaysOnceHolds == LightStray => (Spec /\ []ConfirmedStands => PaysOnce)
<1>. SUFFICES ASSUME LightStray PROVE Spec /\ []ConfirmedStands => PaysOnce
  OBVIOUS
<1>. DEFINE Inv == OneCopyInv /\ OnceInv /\ AddressedInv
<1>1. Init => Inv
  BY OneCopyInit, OnceInit, AddressedInit
<1>2. TypeOK /\ Inv /\ [Next]_vars /\ ConfirmedStands' => Inv'
  <2>. SUFFICES ASSUME TypeOK, Inv, [Next]_vars, ConfirmedStands' PROVE Inv'
    OBVIOUS
  <2>1. \A k \in TxIndex : Once(k)'
    BY OnceStep
  <2>. QED  BY <2>1, OneCopyStep, AddressedStep DEF OnceInv
<1>3. TypeOK /\ Inv /\ [Next]_vars /\ ConfirmedStands' => [Ledgers!Next]_(Ledgers!vars)
  BY PaymentsStep
<1>4. Init => Ledgers!Init
  BY PaymentsInit
<1>. HIDE DEF Inv
<1>. QED  BY <1>1, <1>2, <1>3, <1>4, TypeCorrect, PTL DEF Spec, PaysOnce, Ledgers!Spec

===========================================================================
