---------------------------- MODULE LayerDevice ----------------------------
(***************************************************************************)
(* The device thread: process_device and the handlers it dispatches to     *)
(* (layer_device.cpp).  A device discovers its neighbours and gossips its  *)
(* route (STEP_CONNECT), issues its deals and, when heavy, checks and      *)
(* forwards the deals of light devices (STEP_TRANSACTION), and settles its *)
(* account when the mainchain has decided (STEP_LEDGER).                   *)
(***************************************************************************)
EXTENDS Layer

Enters(t) == fault = "none" /\ g_cs = Nobody /\ queue[t] # <<>>
Runs(t, s) == fault = "none" /\ g_cs = t /\ at = s
Leave == g_cs' = Nobody /\ at' = "none"

\* A mutant of Resends: the timer is ignored.
ResendsNever(d) == FALSE
\* connect_resend is due: a heavy device that has not seen this tick.
Resends(d) == flag[d] # g_flag /\ d \in Heavy

\* process_device up to the switch: a call on an empty queue does nothing;
\* after a timer tick a heavy device sends its index to the mainchain again.
\* The head of the queue selects the handler.
ProcessDevice(d) ==
    /\ Enters(d)
    /\ g_cs' = d
    /\ at' = Head(queue[d]).step
    /\ flag' = [flag EXCEPT ![d] = g_flag]
    /\ queue' = IF Resends(d)
                THEN QueueInsert(
                       QueueInsert(queue, Main, Index(d, route[d], copy[d])),
                       d, NullTransaction)
                ELSE queue
    /\ UNCHANGED <<envVars, g_index, fault, cursor, done, routeVars,
                   accountVars, chainVars>>

-----------------------------------------------------------------------------
(* STEP_CONNECT *)

\* connect_recv, one CONNECT: devices not yet in the route enter it at its
\* head, with the balance the sender quoted.  The order of the newcomers of
\* one message is left open, hence which new heavy device comes first.
ConnectRecv(d) ==
    /\ Runs(d, "CONNECT")
    /\ \E i \in DOMAIN queue[d] :
        LET m == queue[d][i]
            new == m.index \ Known(d)
        IN  /\ IsNext(queue[d], 1, i, "CONNECT")
            /\ route' = [route EXCEPT ![d] = @ \cup new]
            /\ fresh' = [fresh EXCEPT ![d] = @ \cup new]
            /\ copy' = [copy EXCEPT ![d] =
                    [l \in Light |-> IF l \in new THEN m.token[l] ELSE @[l]]]
            /\ IF d \in Light /\ new \cap Heavy # {}
               THEN \E h \in new \cap Heavy : gate' = [gate EXCEPT ![d] = h]
               ELSE gate' = gate
            /\ queue' = QueueDelete(queue, d, i)
    /\ UNCHANGED <<envVars, g_index, fault, callVars, accountVars, flag,
                   chainVars>>

\* connect_seek, then connect_send.  The devices in range enter the route
\* (in ascending order, so the last heavy one becomes the first of the
\* route) with the balance they hold now.  If any route entry is new, the
\* whole route goes to every device in it, and to the mainchain from a heavy
\* device; all entries count as connected and the device keeps itself awake
\* with an empty TRANSACTION.
ConnectSend(d) ==
    /\ Runs(d, "CONNECT")
    /\ NoneLeft(queue[d], 1, "CONNECT")
    /\ LET seen == near[d] \ Known(d)
           known == route[d] \cup seen
           quoted == [l \in Light |-> IF l \in seen THEN token[l]
                                      ELSE copy[d][l]]
           to == known \cup (IF d \in Heavy THEN {Main} ELSE {})
       IN  /\ route' = [route EXCEPT ![d] = known]
           /\ copy' = [copy EXCEPT ![d] = quoted]
           /\ IF d \in Light /\ seen \cap Heavy # {}
              THEN \E h \in seen \cap Heavy :
                      /\ \A k \in seen \cap Heavy : k <= h
                      /\ gate' = [gate EXCEPT ![d] = h]
              ELSE gate' = gate
           /\ IF fresh[d] \cup seen = {}
              THEN queue' = queue
              ELSE queue' = [t \in Thread |->
                     CASE t = d -> Enqueue(queue[d], NullTransaction)
                       [] t # d /\ t \in to ->
                            Enqueue(queue[t], Index(d, known, quoted))
                       [] OTHER -> queue[t]]
    /\ fresh' = [fresh EXCEPT ![d] = {}]
    /\ Leave
    /\ UNCHANGED <<envVars, g_index, fault, cursor, done, accountVars, flag,
                   chainVars>>

-----------------------------------------------------------------------------
(* STEP_TRANSACTION *)

\* The message the loop of transaction_recv or ledger_recv stands at; these
\* loops delete every message of their kind, so it is always the first.
DeviceTakes(d, i, s) ==
    /\ Runs(d, s)
    /\ i \in DOMAIN queue[d]
    /\ IsNext(queue[d], 1, i, s)

\* transaction_recv: an empty message, or any message at a light device.
TransactionDrop(d) ==
    /\ \E i \in DOMAIN queue[d] :
        /\ DeviceTakes(d, i, "TRANSACTION")
        /\ queue[d][i].tx = 0 \/ d \in Light
        /\ queue' = QueueDelete(queue, d, i)
    /\ UNCHANGED <<envVars, g_index, fault, callVars, routeVars, accountVars,
                   flag, chainVars>>

\* transaction_recv, data at a heavy device.  transaction_verify compares
\* the price with the quoted balance of a light source and lets the device's
\* own deals pass; signatures always verify.  A failure goes back to the
\* light source; a deal that passes goes to the mainchain and is taken off
\* the quoted balance.  A source outside the route is read through NULL.
TransactionRecv(d) ==
    /\ \E i \in DOMAIN queue[d] :
        LET n == queue[d][i].tx
            s == Src(n)
            rest == QueueDelete(queue, d, i)
        IN  /\ DeviceTakes(d, i, "TRANSACTION")
            /\ n # 0 /\ d \in Heavy
            /\ fault' = IF s \in Known(d) THEN "none" ELSE "route_node"
            /\ IF s \in Light /\ Price(n) > copy[d][s]
               THEN /\ queue' = QueueInsert(rest, s, Ledger("LEDGER", n, s))
                    /\ copy' = copy
               ELSE /\ queue' = QueueInsert(rest, Main, Transaction(n))
                    /\ copy' = IF s \in Light
                               THEN [copy EXCEPT ![d][s] = Sub(@, Price(n))]
                               ELSE copy
    /\ UNCHANGED <<envVars, g_index, callVars, route, fresh, gate,
                   accountVars, flag, chainVars>>

\* A mutant of MyDeal: the last deal is never taken.
MyDealShort(d) == g_index + 1 < Len(Deals) /\ Src(g_index + 1) = d

\* transaction_generate has a deal for this device.
MyDeal(d) == g_index < Len(Deals) /\ Src(g_index + 1) = d

\* A mutant of StayAwake: an idle device leaves its queue empty.
StaySilent(d) == queue' = queue
\* transaction_send(NULL): the device only keeps itself awake.
StayAwake(d) == queue' = QueueInsert(queue, d, NullTransaction)

\* transaction_generate returns NULL: nothing to do, or a deal the device
\* cannot pay, which is skipped for good.
TransactionNone(d) ==
    /\ Runs(d, "TRANSACTION")
    /\ NoneLeft(queue[d], 1, "TRANSACTION")
    /\ \/ ~MyDeal(d) /\ g_index' = g_index
       \/ /\ MyDeal(d)
          /\ Price(g_index + 1) > token[d]
          /\ g_index' = g_index + 1
    /\ StayAwake(d)
    /\ Leave
    /\ UNCHANGED <<envVars, fault, cursor, done, routeVars, accountVars,
                   flag, chainVars>>

\* transaction_send: a heavy device queues the deal for itself, a light one
\* sends it to the first heavy device of its route, or nowhere when it has
\* none; the price is frozen in every case.
TransactionIssue(d) ==
    /\ Runs(d, "TRANSACTION")
    /\ NoneLeft(queue[d], 1, "TRANSACTION")
    /\ MyDeal(d)
    /\ Price(g_index + 1) <= token[d]
    /\ g_index' = g_index + 1
    /\ \/ /\ d \in Heavy
          /\ queue' = QueueInsert(queue, d, Transaction(g_index + 1))
       \/ /\ d \in Light
          /\ gate[d] # Nobody
          /\ queue' = QueueInsert(QueueInsert(queue, d, NullTransaction),
                                  gate[d], Transaction(g_index + 1))
       \/ /\ d \in Light
          /\ gate[d] = Nobody
          /\ StayAwake(d)
    /\ token' = [token EXCEPT ![d] = Sub(@, Price(g_index + 1))]
    /\ frozen' = [frozen EXCEPT ![d] = Add(@, Price(g_index + 1))]
    /\ Leave
    /\ UNCHANGED <<envVars, fault, cursor, done, routeVars, flag, chainVars>>

-----------------------------------------------------------------------------
(* STEP_LEDGER *)

\* A mutant of Settle: DST unfreezes the price as well.
SettleAll(d, s, t) ==
    /\ token' = [token EXCEPT ![d] = IF s = "SRC" THEN @ ELSE Add(@, t)]
    /\ frozen' = [frozen EXCEPT ![d] = Sub(@, t)]

\* ledger_recv: what a status does to the account of the device reading it.
\* SRC: the frozen price is spent; DST: the price comes in; DEVICE, LEDGER:
\* the frozen price is available again.
Settle(d, s, t) ==
    /\ token' = [token EXCEPT ![d] = IF s = "SRC" THEN @ ELSE Add(@, t)]
    /\ frozen' = [frozen EXCEPT ![d] = IF s = "DST" THEN @ ELSE Sub(@, t)]

\* ledger_recv: a light device settles whatever it gets; a heavy device
\* relays what is for a light device of its route and settles the rest.
LedgerRecv(d) ==
    /\ \E i \in DOMAIN queue[d] :
        LET m == queue[d][i]
            rest == QueueDelete(queue, d, i)
        IN  /\ DeviceTakes(d, i, "LEDGER")
            /\ \/ /\ d \in Light \/ m.device \in Known(d) \cap Heavy
                  /\ Settle(d, m.status, Price(m.tx))
                  /\ queue' = rest
               \/ /\ d \in Heavy
                  /\ m.device \in Known(d) \cap Light
                  /\ queue' = QueueInsert(rest, m.device, m)
                  /\ UNCHANGED accountVars
    /\ UNCHANGED <<envVars, g_index, fault, callVars, routeVars, flag,
                   chainVars>>

\* ledger_recv at a heavy device whose route lacks the device concerned:
\* route_node dereferences NULL.
LedgerUnknown(d) ==
    /\ \E i \in DOMAIN queue[d] :
        /\ DeviceTakes(d, i, "LEDGER")
        /\ d \in Heavy
        /\ queue[d][i].device \notin Known(d)
    /\ fault' = "route_node"
    /\ UNCHANGED <<envVars, g_index, callVars, queue, routeVars, accountVars,
                   flag, chainVars>>

\* ledger_send: an empty CONNECT makes the device look around again.
LedgerSend(d) ==
    /\ Runs(d, "LEDGER")
    /\ NoneLeft(queue[d], 1, "LEDGER")
    /\ queue' = QueueInsert(queue, d, EmptyIndex(d))
    /\ Leave
    /\ UNCHANGED <<envVars, g_index, fault, cursor, done, routeVars,
                   accountVars, flag, chainVars>>

DeviceCall(d) ==
    \/ ConnectRecv(d) \/ ConnectSend(d)
    \/ TransactionDrop(d) \/ TransactionRecv(d)
    \/ TransactionNone(d) \/ TransactionIssue(d)
    \/ LedgerRecv(d) \/ LedgerUnknown(d) \/ LedgerSend(d)
=============================================================================
