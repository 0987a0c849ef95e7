---------------------------- MODULE Blockchain ----------------------------
(***************************************************************************)
(* The program of src/blockchain: one thread per device, the mainchain     *)
(* thread that main() starts after them, and main()'s timer loop.          *)
(***************************************************************************)
EXTENDS LayerDevice, LayerMainchain

\* main() up to the creation of the device threads.
Init ==
    /\ near \in Topologies
    /\ ticks = 0
    /\ g_flag = 0
    /\ g_index = 0
    /\ booted = FALSE
    /\ fault = "none"
    /\ g_cs = Nobody
    /\ at = "none"
    /\ cursor = 0
    /\ done = {}
    /\ queue = [t \in Thread |-> IF t = Main THEN <<>> ELSE <<EmptyIndex(t)>>]
    /\ route = [d \in Device |-> {}]
    /\ fresh = [d \in Device |-> {}]
    /\ copy = [d \in Device |-> [l \in Light |-> 0]]
    /\ gate = [l \in Light |-> Nobody]
    /\ token = [d \in Device |-> Token]
    /\ frozen = [d \in Device |-> 0]
    /\ flag = [d \in Device |-> 0]
    /\ group = [d \in Device |-> {}]
    /\ listed = [d \in Device |-> FALSE]
    /\ balance = [d \in Device |-> Token]
    /\ dag = {}

\* main() initialises g_mainchain when the device threads already run, and
\* outside the critical section: g_mainchain.queue=NULL drops whatever they
\* have put there, even in the middle of a device's call.
StartMainchain ==
    /\ fault = "none"
    /\ ~booted
    /\ booted' = TRUE
    /\ queue' = [queue EXCEPT ![Main] = <<>>]
    /\ UNCHANGED <<near, ticks, g_flag, g_index, fault, callVars, routeVars,
                   accountVars, flag, chainVars>>

\* One turn of the message loop: g_flag is toggled and every device moves.
Timer ==
    /\ fault = "none"
    /\ booted
    /\ g_cs = Nobody
    /\ ticks < MaxTick
    /\ ticks' = ticks + 1
    /\ g_flag' = 1 - g_flag
    /\ near' \in Topologies
    /\ UNCHANGED <<booted, g_index, fault, callVars, queue, routeVars,
                   accountVars, flag, chainVars>>

Call == MainCall \/ \E d \in Device : DeviceCall(d)

Next ==
    \/ StartMainchain
    \/ Timer
    \/ ProcessMainchain
    \/ \E d \in Device : ProcessDevice(d)
    \/ Call

Spec == Init /\ [][Next]_vars

\* A thread inside the critical section goes on until it leaves; every
\* thread that keeps asking for the critical section gets it in the end;
\* main() and its timer keep running.
Fairness ==
    /\ WF_vars(Call)
    /\ SF_vars(ProcessMainchain)
    /\ \A d \in Device : SF_vars(ProcessDevice(d))
    /\ WF_vars(StartMainchain)
    /\ SF_vars(Timer)

FairSpec == Spec /\ Fairness

-----------------------------------------------------------------------------
(* Properties *)

\* route_node has not dereferenced NULL (layer.cpp:32-39).
NoNullRoute == fault # "route_node"

\* h knows x, or a CONNECT that names x waits in its queue, ahead of every
\* deal and notice there.
Hears(h, x) ==
    \/ x \in Known(h)
    \/ \E m \in ToSet(queue[h]) : m.step = "CONNECT" /\ x \in m.index

\* Entries with flag 0 exist only inside the CONNECT call that made them.
FreshOnlyInCall ==
    \A d \in Device :
        /\ fresh[d] \subseteq route[d]
        /\ d \notin route[d]
        /\ fresh[d] # {} => g_cs = d /\ at = "CONNECT"

\* A device has told its whole route, itself included, to all of its route.
RouteShared ==
    \A d \in Device :
        \A r \in route[d] \ fresh[d], x \in Known(d) \ fresh[d] : Hears(r, x)

\* CONNECTs are a prefix of a device's queue, and the handlers of deals and
\* notices run only when there is none.
ConnectsOvertake ==
    \A d \in Device :
        /\ ConnectsFirst(queue[d])
        /\ g_cs = d /\ at # "CONNECT" =>
              \A m \in ToSet(queue[d]) : m.step # "CONNECT"

GateInRoute == \A l \in Light : gate[l] = Nobody \/ gate[l] \in route[l]

\* Deals and notices are only with heavy devices that hear of their device.
AddresseeHears ==
    \A h \in Heavy : \A m \in ToSet(queue[h]) :
        /\ m.step = "TRANSACTION" /\ m.tx # 0 => Hears(h, Src(m.tx))
        /\ m.step = "LEDGER" => Hears(h, m.device)

\* A heavy device hears of all devices of its dag, and of all devices of an
\* index on its way to the mainchain that names it.
DagHears ==
    /\ \A h \in Heavy, x \in Device : h \in group[x] => Hears(h, x)
    /\ \A m \in ToSet(queue[Main]) :
          m.step = "CONNECT" =>
              \A h \in Heavy \cap m.index, x \in m.index : Hears(h, x)

\* A heavy device always knows the source of a deal it checks and the light
\* device of a notice it relays, so route_node never dereferences NULL:
\* whatever the order of gossip, deals and notices, the CONNECT that names a
\* device overtakes every message about it.
GossipInv ==
    /\ NoNullRoute
    /\ FreshOnlyInCall
    /\ RouteShared
    /\ ConnectsOvertake
    /\ GateInRoute
    /\ AddresseeHears
    /\ DagHears

\* Each transaction index is in one place at most: a message of one queue
\* or a node of the tip list.  Forwarding, deferring, dropping and reusing
\* nodes never duplicate a deal.
Places == UNION {{t} \X DOMAIN queue[t] : t \in Thread}
MessageAt(p) == queue[p[1]][p[2]]
Held(n) == {p \in Places : /\ MessageAt(p).step = "TRANSACTION"
                           /\ MessageAt(p).tx = n}
Nodes(n) == {x \in dag : x.tx = n}
OneCopy == \A n \in TxIndex : Cardinality(Held(n)) + Cardinality(Nodes(n)) <= 1

\* A device that has anyone in its route never falls asleep: process_device
\* ignores an empty queue for ever (layer_device.cpp:632), so outside its
\* own call an awake device must hold an empty TRANSACTION or a deal.
Awake ==
    \A d \in Device : g_cs # d /\ route[d] # {} =>
        \E k \in DOMAIN queue[d] : queue[d][k].step = "TRANSACTION"

\* Notices of one kind about transactions of one device, wherever queued.
Notices(n, kinds) ==
    {p \in Places : /\ MessageAt(p).step = "LEDGER"
                    /\ MessageAt(p).tx = n
                    /\ MessageAt(p).status \in kinds}

\* The prices of the deals of N.
PriceSum(N) ==
    LET sum[n \in 0 .. Len(Deals)] ==
            IF n = 0 THEN 0 ELSE sum[n - 1] + (IF n \in N THEN Price(n) ELSE 0)
    IN  sum[Len(Deals)]

InFlight(d, kind) ==
    PriceSum({n \in TxIndex : /\ (IF kind = "DST" THEN Dst(n) ELSE Src(n)) = d
                              /\ Notices(n, {kind}) # {}})

\* The device's account (layer.h:128) and the mainchain's entry for it
\* (layer.h:91) differ by exactly the notices still on their way.
AccountsAgree ==
    \A d \in Device :
        (token[d] + frozen[d] + InFlight(d, "DST")) % Word
        = (balance[d] + InFlight(d, "SRC")) % Word

\* What a device has frozen covers every deal of its own that is still
\* undecided or whose decision has not reached it, so the token[1] it
\* subtracts on SRC, DEVICE and LEDGER never wraps below zero.
Undecided(n) ==
    \/ Held(n) # {}
    \/ \E x \in Nodes(n) : ~x.confirmed /\ ~x.failed
    \/ Notices(n, {"SRC", "DEVICE", "LEDGER"}) # {}
FrozenCovers ==
    \A d \in Device :
        PriceSum({n \in TxIndex : Src(n) = d /\ Undecided(n)}) <= frozen[d]

\* A deal is settled once: while it is undecided at the mainchain no notice
\* about it exists, and never are there two decisions on it in flight.
OneDecision ==
    \A n \in TxIndex :
        Cardinality(Held(n))
        + Cardinality({x \in Nodes(n) : ~x.confirmed /\ ~x.failed})
        + Cardinality(Notices(n, {"SRC", "DEVICE", "LEDGER"})) <= 1

\* Between two messages the list is narrower than TIP_NUM (layer.h:34),
\* failed nodes included.  The code tests the width for equality, and not
\* when a node is reused: a list that reached TIP_NUM unnoticed would grow
\* past it and never be purged again.
TipWidth == Cardinality(dag) < TIP_NUM

\* layer.h:74: the fail flag belongs to tips.  A transaction that has become
\* part of the dag, its tokens moved, is not failed (and refunded) later.
ConfirmedStands == \A x \in dag : ~(x.confirmed /\ x.failed)

\* layer_mainchain.cpp:234 "must find it": transaction_device finds the
\* device it is asked about in the list.
MustFind == fault # "list"

\* Every device the mainchain can ever hear of is listed in the end, even
\* when the start of the mainchain lost the first CONNECTs.
AllListed == <>(\A d \in Device : listed[d])

\* All deals are taken, and all traffic about them dies down.
Quiet ==
    /\ g_index = Len(Deals)
    /\ \A n \in TxIndex :
          Held(n) = {} /\ Notices(n, {"SRC", "DST", "DEVICE", "LEDGER"}) = {}
Quiesces == <>[]Quiet

\* The tokens of deal n have left their source and are on the way to be spent
\* or given back: the deal is undecided, or a notice that pays is underway.
Underway(n) ==
    \/ Held(n) # {}
    \/ \E x \in Nodes(n) : ~x.confirmed /\ ~x.failed
    \/ Notices(n, {"DST", "DEVICE", "LEDGER"}) # {}

\* As long as no confirmed deal is failed later (ConfirmedStands), the threads
\* implement Payments: every deal pays out at most once, to one of its two
\* devices, and no handler (layer_device.cpp, layer_mainchain.cpp) touches
\* the tokens of any other.
Ledgers == INSTANCE Payments WITH index <- g_index, purse <- token,
                                  paying <- {n \in TxIndex : Underway(n)}
PaysOnce == Ledgers!Spec
=============================================================================
