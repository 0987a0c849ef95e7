------------------------------- MODULE Layer -------------------------------
(***************************************************************************)
(* The data structures the device layer and the mainchain layer of         *)
(* src/blockchain share: message queues, routes, the mainchain's account   *)
(* list and its list of tips (layer.h, layer.cpp), together with the       *)
(* globals of blockchain.cpp.                                              *)
(*                                                                         *)
(* Every thread works on this state between EnterCriticalSection(&g_cs)    *)
(* and LeaveCriticalSection(&g_cs).  One step of this specification is one *)
(* turn of a handler's loop over its queue; g_cs names the thread inside   *)
(* the critical section, so no other thread's step falls between the turns *)
(* of one call of process_device or process_mainchain.                     *)
(***************************************************************************)
EXTENDS Integers, FiniteSets, Sequences, SequencesExt

CONSTANTS
    HeavyNum,    \* g_devicenum[0], devices 0 .. HeavyNum-1
    LightNum,    \* g_devicenum[1], the devices after them
    Token,       \* initial.ini "token": what every account starts with
    Deals,       \* g_deal, a sequence of [src, dst, token]
    TIP_NUM,     \* the tip width at which confirmed nodes leave the list
    Word,        \* token counters are computed modulo Word (2^32 in C)
    Topologies,  \* who may be within MAX_METRIC of whom, tick by tick
    Stray,       \* devices whose uninitialised list[].dag_index reads 1
    MaxTick      \* bound on the timer ticks of a behaviour

Device == 0 .. HeavyNum + LightNum - 1
Heavy == 0 .. HeavyNum - 1
Light == Device \ Heavy

Main == -1                       \* the mainchain thread and its queue
Nobody == -2
Thread == Device \cup {Main}

TxIndex == 1 .. Len(Deals)       \* transaction_t.index; 0 is "no data"
Amount == 0 .. Word - 1

ASSUME LayerAssumption ==
    /\ HeavyNum \in Nat
    /\ LightNum \in Nat
    /\ Word \in Nat \ {0}
    /\ Token \in Amount
    /\ Deals \in Seq([src : Device, dst : Device, token : Amount])
    /\ Topologies \subseteq [Device -> SUBSET Device]
    /\ Stray \subseteq Device
    /\ MaxTick \in Nat

\* layer.h:34 defines it as 5.  The genesis tip alone must not fill the list.
ASSUME TipAssumption == TIP_NUM \in Nat /\ TIP_NUM > 1

Src(n) == Deals[n].src
Dst(n) == Deals[n].dst
Price(n) == Deals[n].token

-----------------------------------------------------------------------------
(* Messages (queue_t).  Keys are not carried: a device's key never changes *)
(* and every copy of it is the same.                                       *)

Step == {"CONNECT", "TRANSACTION", "LEDGER"}
Status == {"DEVICE", "LEDGER", "SRC", "DST"}

\* index_t: the sender, the devices it names, the light balances it quotes.
ConnectMsg == [step : {"CONNECT"}, from : Device, index : SUBSET Device,
               token : [Light -> Amount]]
\* spv_t: the transaction index stands for the deal and its signature.
TransactionMsg == [step : {"TRANSACTION"}, tx : {0} \cup TxIndex]
\* ledger_t: its token field is always the price of transaction tx.
LedgerMsg == [step : {"LEDGER"}, status : Status, tx : TxIndex,
              device : Device]
Message == ConnectMsg \cup TransactionMsg \cup LedgerMsg

Transaction(n) == [step |-> "TRANSACTION", tx |-> n]
NullTransaction == Transaction(0)
Ledger(s, n, x) == [step |-> "LEDGER", status |-> s, tx |-> n, device |-> x]

\* The list node of a transaction: TRANSACTION_TIP/DAG and the error flag.
Node == [tx : TxIndex, confirmed : BOOLEAN, failed : BOOLEAN]

-----------------------------------------------------------------------------
VARIABLES
    near,      \* near[d]: devices within MAX_METRIC of d
    ticks,     \* timer ticks so far (bounded by MaxTick)
    g_flag,    \* toggled by the timer
    g_index,   \* deals taken from g_deal so far
    booted,    \* main() has initialised g_mainchain and started its thread
    fault,     \* "none", or the undefined behaviour that was reached
    g_cs,      \* the thread inside the critical section, or Nobody
    at,        \* the handler it runs
    cursor,    \* where its loop stands, for the loops that skip messages
    done,      \* senders whose older CONNECTs this mainchain call deletes
    queue,     \* queue[t]: device->queue, mainchain->queue
    route,     \* route[d]: the devices in device->route
    fresh,     \* fresh[d]: those of them whose route->flag is 0
    copy,      \* copy[d][l]: route->token[0] of light device l at d
    gate,      \* gate[l]: first heavy device in light device l's route
    token,     \* device->token[0], available
    frozen,    \* device->token[1], frozen
    flag,      \* process_device's thread-local flag
    group,     \* group[d]: devices with d's dag_index ({}: index 0)
    listed,    \* listed[d]: list[d].node and key have been set
    balance,   \* list[d].token
    dag        \* mainchain->dag, the list of tips not yet purged

envVars == <<near, ticks, g_flag, booted>>
callVars == <<g_cs, at, cursor, done>>
routeVars == <<route, fresh, copy, gate>>
accountVars == <<token, frozen>>
chainVars == <<group, listed, balance, dag>>
vars == <<envVars, g_index, fault, callVars, queue, routeVars, accountVars,
          flag, chainVars>>

-----------------------------------------------------------------------------
(* uint32 arithmetic *)
Add(a, b) == (a + b) % Word
\* A mutant of Sub: counters that do not wrap at 0.
SubSigned(a, b) == a - b
Sub(a, b) == (a - b) % Word

\* A mutant of Enqueue: every message goes to the tail.
EnqueueTail(s, m) == Append(s, m)
\* queue_insert: a CONNECT goes to the head, everything else to the tail.
Enqueue(s, m) == IF m.step = "CONNECT" THEN <<m>> \o s ELSE Append(s, m)
QueueInsert(q, t, m) == [q EXCEPT ![t] = Enqueue(@, m)]

\* "queue delete": unlink the message the loop stands at.
QueueDelete(q, t, i) == [q EXCEPT ![t] = RemoveAt(@, i)]

\* Position i holds the first message of kind s at or after position c.
IsNext(q, c, i, s) ==
    /\ i \in DOMAIN q
    /\ i >= c
    /\ q[i].step = s
    /\ \A k \in DOMAIN q : c <= k /\ k < i => q[k].step # s

NoneLeft(q, c, s) == \A k \in DOMAIN q : k >= c => q[k].step # s

\* What queue_insert maintains: the CONNECTs are a prefix of the queue.
ConnectsFirst(s) ==
    \A j, k \in DOMAIN s : j < k /\ s[k].step = "CONNECT" => s[j].step = "CONNECT"

\* The devices route_node finds; for any other it dereferences NULL.
Known(d) == {d} \cup route[d]

\* The index a device packs for its CONNECT: itself and its whole route.
Index(d, known, quoted) ==
    [step |-> "CONNECT", from |-> d, index |-> {d} \cup known,
     token |-> [l \in Light |-> IF l = d THEN token[d] ELSE quoted[l]]]
EmptyIndex(d) ==
    [step |-> "CONNECT", from |-> d, index |-> {},
     token |-> [l \in Light |-> 0]]

TypeOK ==
    /\ near \in [Device -> SUBSET Device]
    /\ ticks \in 0 .. MaxTick
    /\ g_flag \in {0, 1}
    /\ g_index \in 0 .. Len(Deals)
    /\ booted \in BOOLEAN
    /\ fault \in {"none", "route_node", "list", "dangling"}
    /\ g_cs \in Thread \cup {Nobody}
    /\ at \in Step \cup {"none"}
    /\ cursor \in Nat
    /\ done \in SUBSET Device
    /\ queue \in [Thread -> Seq(Message)]
    /\ route \in [Device -> SUBSET Device]
    /\ fresh \in [Device -> SUBSET Device]
    /\ copy \in [Device -> [Light -> Amount]]
    /\ gate \in [Light -> Heavy \cup {Nobody}]
    /\ token \in [Device -> Amount]
    /\ frozen \in [Device -> Amount]
    /\ flag \in [Device -> {0, 1}]
    /\ group \in [Device -> SUBSET Device]
    /\ listed \in [Device -> BOOLEAN]
    /\ balance \in [Device -> Amount]
    /\ dag \in SUBSET Node
=============================================================================
