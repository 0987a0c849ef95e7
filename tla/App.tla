-------------------------------- MODULE App --------------------------------
(***************************************************************************)
(* The master side of src/app (DEBUG_BOTH): every 20 s the service forgets *)
(* the slaves it is not connected to, scans, and connects to all it found. *)
(* Runnables run one by one on the handler's thread; the callbacks of a    *)
(* connection come on a binder thread, look up the index of their slave,   *)
(* and post a runnable that uses the index later.                          *)
(***************************************************************************)
EXTENDS Naturals, Sequences

CONSTANTS
    Slave,          \* the slaves in range, none of which is attached to the
                    \* net: callback_scan2 drops those (ServiceBle.java:427)
    MaxFaults,      \* bound on failures: of a connection, of the discovery of
                    \* its services, of an advertisement to carry its data
    MaxLate         \* bound on the runnables that wait when the timer expires

ASSUME AppAssumption == MaxFaults \in Nat /\ MaxLate \in Nat

VARIABLES
    master,     \* the list of DataMaster: address, status, whether it has a gatt
    handler,    \* the runnables posted, oldest first
    scan,       \* a scan is running
    pending,    \* pending[a]: clients (BluetoothGatt) connecting to slave a
    open,       \* open[a]: clients connected to it
    asked,      \* asked[a]: clients that wait for its services
    crashed,    \* a runnable threw an exception
    amiss,      \* an index led to another slave, or an event was lost
    faults      \* faults so far

clientVars == <<pending, open, asked, faults>>
vars == <<master, handler, scan, clientVars, crashed, amiss>>

Live == {"connect", "services"}
Count == 0 .. 2

AppTypeOK ==
    /\ master \in Seq([addr : Slave, status : Live \cup {"disconnect"},
                       gatt : BOOLEAN])
    /\ handler \in Seq([do : {"start", "connect", "connected", "disconnected",
                              "services", "transfer"},
                        addr : Slave \cup {0}, index : Nat])
    /\ {scan, crashed, amiss} \subseteq BOOLEAN
    /\ pending \in [Slave -> Count]
    /\ open \in [Slave -> Nat]
    /\ asked \in [Slave -> Nat]
    /\ faults \in 0 .. MaxFaults

Init ==
    /\ master = <<>>
    /\ handler = <<>>
    /\ scan = FALSE
    /\ pending = [a \in Slave |-> 0]
    /\ open = [a \in Slave |-> 0]
    /\ asked = [a \in Slave |-> 0]
    /\ crashed = FALSE
    /\ amiss = FALSE
    /\ faults = 0

Fault == faults < MaxFaults /\ faults' = faults + 1

-----------------------------------------------------------------------------
(* The list: Include.java                                                  *)

Has(a) == \E i \in DOMAIN master : master[i].addr = a
\* get_index: positions start from 1 here; a slave that is not in the list
\* has the one behind its end.
Index(a) ==
    IF Has(a) THEN CHOOSE i \in DOMAIN master : master[i].addr = a
    ELSE Len(master) + 1

\* get_index(gatt) reads the gatt of every entry it passes: one that has none
\* yet raises an exception.
Readable(a) == \A i \in DOMAIN master : i <= Index(a) => master[i].gatt

\* A list that is emptied instead (mutant).
EmpMaster(list) == <<>>

\* The entries of a list at the positions of S, in order.
Pick(list, S) ==
    LET among[i \in 0 .. Len(list)] ==      \* of the first i entries
            IF i = 0 THEN <<>>
            ELSE IF i \in S THEN Append(among[i - 1], list[i])
            ELSE among[i - 1]
    IN among[Len(list)]

\* del_master counts up while it removes: the entry behind each one it
\* removes is not looked at.
DelMaster(list) ==
    LET gone(i, skip) == ~skip /\ list[i].status \notin Live
        skips[i \in 0 .. Len(list)] == i > 0 /\ gone(i, skips[i - 1])
    IN Pick(list, {i \in DOMAIN list : ~gone(i, skips[i - 1])})

-----------------------------------------------------------------------------
(* The handler's thread: ServiceBle.java                                   *)

Post(do, a, index) ==
    handler' = Append(handler, [do |-> do, addr |-> a, index |-> index])

\* initial and the two posts of scan: nothing is changed before "start" runs,
\* so they are one step.  The handler is less than 14 s late, so the round of
\* 20 s ago has come to its connects, and of three clients connecting to a
\* slave the first has given up, which it does after 30 s.  The return at 261
\* leaves a round out: adv is true there (249), unless the server's callback
\* (902) clears it in between while MAX_MASTER slaves are connected.
Expire ==
    /\ ~scan
    /\ Len(handler) <= MaxLate
    /\ \A k \in DOMAIN handler : handler[k].do \notin {"start", "connect"}
    /\ \A a \in Slave : pending[a] < 2
    /\ Post("start", 0, 0)
    /\ UNCHANGED <<master, scan, clientVars, crashed, amiss>>

\* scan, its first runnable
Start ==
    /\ master' = DelMaster(master)
    /\ scan' = TRUE
    /\ UNCHANGED <<clientVars, crashed, amiss>>

\* onScanResult, add_master.  A slave takes one connection and does not
\* advertise while it has it.
ScanResult(a) ==
    /\ scan
    /\ open[a] = 0
    /\ ~Has(a)
    /\ master' = Append(master, [addr |-> a, status |-> "disconnect", gatt |-> FALSE])
    /\ UNCHANGED <<handler, scan, clientVars, crashed, amiss>>

\* onScanResult of an advertisement that came without manufacturer data
\* (ServiceBle.java:411-427): the null array raises an exception.
ScanNull ==
    /\ scan
    /\ Fault
    /\ crashed' = TRUE
    /\ UNCHANGED <<master, handler, scan, pending, open, asked, amiss>>

\* scan, its runnable of 6 s later
Stop ==
    /\ scan
    /\ scan' = FALSE
    /\ LET missing == Pick(master, {i \in DOMAIN master : master[i].status \notin Live})
       IN handler' = handler \o [i \in DOMAIN missing |->
                        [do |-> "connect", addr |-> missing[i].addr, index |-> 0]]
    /\ UNCHANGED <<master, clientVars, crashed, amiss>>

\* connect
Connect(a) ==
    /\ pending' = [pending EXCEPT ![a] = @ + 1]
    /\ crashed' = ~Has(a)
    /\ master' = IF Has(a) THEN [master EXCEPT ![Index(a)].gatt = TRUE] ELSE master
    /\ UNCHANGED <<scan, open, asked, amiss, faults>>

\* The runnables of onConnectionStateChange and onServicesDiscovered set the
\* status of the entry at their index.
SetUnlessLive(i, a, status) ==      \* mutant: a live entry keeps its status
    IF i \in DOMAIN master
    THEN /\ master' = IF master[i].status \in Live THEN master
                      ELSE [master EXCEPT ![i].status = status]
         /\ amiss' = (amiss \/ master[i].addr # a)
         /\ UNCHANGED crashed
    ELSE crashed' = TRUE /\ UNCHANGED <<master, amiss>>

Set(i, a, status) ==
    IF i \in DOMAIN master
    THEN /\ master' = [master EXCEPT ![i].status = status]
         /\ amiss' = (amiss \/ master[i].addr # a)
         /\ UNCHANGED crashed
    ELSE crashed' = TRUE /\ UNCHANGED <<master, amiss>>

Update(r) ==
    /\ \/ /\ r.do = "connected"
          /\ Set(r.index, r.addr, "connect")
          /\ asked' = IF open[r.addr] > 0 THEN [asked EXCEPT ![r.addr] = @ + 1]
                      ELSE asked
       \/ /\ r.do = "disconnected"
          /\ Set(r.index, r.addr, "disconnect")
          /\ UNCHANGED asked
       \/ /\ r.do = "services"
          /\ Set(r.index, r.addr, "services")
          /\ UNCHANGED asked
    /\ UNCHANGED <<scan, pending, open, faults>>

\* The first write to the slave, with the buffer and the characteristic of
\* the entry at the index.
Transfer(r) ==
    /\ r.do = "transfer"
    /\ IF r.index \in DOMAIN master
       THEN amiss' = (amiss \/ master[r.index].addr # r.addr) /\ UNCHANGED crashed
       ELSE crashed' = TRUE /\ UNCHANGED amiss
    /\ UNCHANGED <<master, scan, clientVars>>

Run ==
    /\ handler # <<>>
    /\ handler' = Tail(handler)
    /\ LET r == Head(handler)
       IN \/ r.do = "start" /\ Start
          \/ r.do = "connect" /\ Connect(r.addr)
          \/ Update(r)
          \/ Transfer(r)

-----------------------------------------------------------------------------
(* The callbacks on the binder thread                                      *)

\* The framework catches an exception of a callback: the event is lost.
Posts(do, a) ==
    IF Readable(a) THEN Post(do, a, Index(a)) /\ UNCHANGED amiss
    ELSE amiss' = TRUE /\ UNCHANGED handler

Connected(a) ==
    /\ pending[a] > 0
    /\ pending' = [pending EXCEPT ![a] = @ - 1]
    /\ open' = [open EXCEPT ![a] = @ + 1]
    /\ Posts("connected", a)
    /\ UNCHANGED <<master, scan, asked, crashed, faults>>

\* A client fails to connect, also while another one of the slave has a link.
TimesOut(a) ==
    /\ pending[a] > 0
    /\ Fault
    /\ pending' = [pending EXCEPT ![a] = @ - 1]
    /\ Posts("disconnected", a)
    /\ UNCHANGED <<master, scan, open, asked, crashed>>

\* The clients of a slave share one link: when it breaks each is told.
Disconnected(a) ==
    /\ open[a] > 0
    /\ Fault
    /\ open' = [open EXCEPT ![a] = 0]
    /\ asked' = [asked EXCEPT ![a] = 0]
    /\ IF Readable(a)
       THEN /\ handler' = handler \o [k \in 1 .. open[a] |->
                 [do |-> "disconnected", addr |-> a, index |-> Index(a)]]
            /\ UNCHANGED amiss
       ELSE amiss' = TRUE /\ UNCHANGED handler
    /\ UNCHANGED <<master, scan, pending, crashed>>

\* onServicesDiscovered uses the index at once as well.  A discovery that
\* failed found no service to ask for its characteristic: the exception comes
\* (584) before the status is looked at (586), and the failure is not reported.
Services(a) ==
    /\ asked[a] > 0
    /\ asked' = [asked EXCEPT ![a] = @ - 1]
    /\ \/ /\ Has(a) /\ Readable(a)
          /\ handler' = handler \o
                [k \in 1 .. 2 |-> [do |-> IF k = 1 THEN "services" ELSE "transfer",
                                   addr |-> a, index |-> Index(a)]]
          /\ UNCHANGED <<amiss, faults>>
       \/ /\ ~(Has(a) /\ Readable(a))
          /\ amiss' = TRUE
          /\ UNCHANGED <<handler, faults>>
       \/ Fault /\ UNCHANGED <<handler, amiss>>
    /\ UNCHANGED <<master, scan, pending, open, crashed>>

-----------------------------------------------------------------------------
Handler == ~crashed /\ (Run \/ Expire \/ Stop)
Scanned == ~crashed /\ (ScanNull \/ \E a \in Slave : ScanResult(a))
Binder ==
    /\ ~crashed
    /\ \E a \in Slave : Connected(a) \/ TimesOut(a) \/ Disconnected(a) \/ Services(a)

Next == Handler \/ Scanned \/ Binder

Spec == Init /\ [][Next]_vars

\* The handler runs what is posted and due; a slave in range that nobody is
\* connected to advertises and is found by one of the scans; a connection to
\* it is reported.
Fairness ==
    /\ WF_vars(~crashed /\ Run)
    /\ WF_vars(~crashed /\ Expire)
    /\ WF_vars(~crashed /\ Stop)
    /\ \A a \in Slave : /\ SF_vars(~crashed /\ ScanResult(a))
                        /\ WF_vars(~crashed /\ Connected(a))

FairSpec == Spec /\ Fairness

-----------------------------------------------------------------------------
(* Properties *)

Queued(do, a) == \E k \in DOMAIN handler : handler[k].do = do /\ handler[k].addr = a

\* A slave the list shows as connected is connected, or the runnable that
\* says otherwise waits: only a runnable that finds another slave at its
\* index (ServiceBle.java:505) can break this.
StatusTells ==
    ~amiss /\ ~crashed => \A i \in DOMAIN master :
        master[i].status \in Live =>
            \/ open[master[i].addr] > 0
            \/ Queued("disconnected", master[i].addr)

\* Every slave in range is connected again and again, however connections
\* fail and whatever del_master (Include.java:225) forgets meanwhile, unless
\* a late index breaks the list or the application.  When one of two clients
\* of a slave fails, the other keeps a link that the list shows as gone
\* (ServiceBle.java:514): the slave is forgotten, does not advertise, and
\* stays connected without being listed.
ConnectsAll ==
    \A a \in Slave :
        \/ []<>(\E i \in DOMAIN master : master[i].addr = a /\ master[i].status \in Live)
        \/ <>[](faults > 0 /\ open[a] > 0)
        \/ <>(amiss \/ crashed)
=============================================================================
