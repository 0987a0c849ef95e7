-------------------------------- MODULE Ble --------------------------------
(***************************************************************************)
(* The application of src/cc2540: a node that looks for slaves, connects   *)
(* to them, discovers their service, writes a command and hangs up, or     *)
(* advertises and waits for a master, or both in turn.  OSAL runs one      *)
(* handler at a time; the GAP role task comes before the application task, *)
(* so what the stack reports of the links is handled at once, while the    *)
(* GATT messages wait for the application.                                 *)
(***************************************************************************)
EXTENDS Naturals, Sequences, SequencesExt, FiniteSets

CONSTANTS
    Debug,          \* the settings of the DEBUG macro that are built
    Slave,          \* the slaves in range, all newer than Bluetooth 4.0
    Master,         \* a master that may connect to this node
    NoOne,          \* no peer
    Handle,         \* the connection handles of the stack, one per link
    NUM_CENTRAL,    \* the length of g_central
    SCAN_MAXNUM,    \* the length of g_scanlist
    MaxFaults       \* bound on lost links, refusals, errors and updates, per build

ASSUME BleAssumption ==
    /\ Debug \subseteq {"C", "P", "CP", "PC"}
    /\ NoOne \notin Slave \cup {Master} \cup Handle
    /\ Handle \subseteq Nat /\ 0 \in Handle
    /\ Master \notin Slave
    /\ NUM_CENTRAL \in Nat \ {0}
    /\ SCAN_MAXNUM \in Nat \ {0}
    /\ MaxFaults \in [Debug -> Nat]

\* The stack keeps no more links than g_central has entries.
ASSUME RoomAssumption ==
    /\ IsFiniteSet(Handle)
    /\ Cardinality(Handle) <= NUM_CENTRAL

VARIABLES
    debug,          \* the DEBUG macro
    g_adv,          \* whether the node is, or is to become, a peripheral
    g_turnover,     \* whether a role of the C and P builds is still to start
    timer,          \* the timer of the switch event: "off", "gap" or "wait"
    events,         \* the events set for the application task
    gatt,           \* its GATT messages
    g_scanlist,     \* addresses found
    g_central,      \* the links as a central: handle, address, status
    g_peripheral,   \* whether the link as a peripheral is connected
    handle_service, \* whether handle_service[0] # 0
    null,           \* a null pointer was dereferenced: anything may follow
    profile,        \* the role GAPRole was initialised for
    conn_handle,    \* gapRole_ConnectionHandle, the link as a peripheral
    starting,       \* the stack is to report that the device is initialised
    discovering,    \* a discovery is in progress
    connecting,     \* the slave a link is being established to
    link,           \* link[h]: the peer of an open link
    dying,          \* the handles whose link is being terminated
    req,            \* req[h]: the GATT request that is not answered yet
    faults          \* faults so far

appVars == <<debug, g_adv, g_turnover, timer, events, gatt, g_scanlist,
             g_central, g_peripheral, handle_service, null>>
roleVars == <<g_adv, g_turnover, g_scanlist>>
stackVars == <<profile, conn_handle, starting, discovering, connecting, link,
               dying, req, faults>>
vars == <<appVars, stackVars>>

Event == {"switch", "initial", "scan", "connect"}
Live == {"connected", "services", "characteristic"}
Request == {"none", "service", "complete", "char", "write"}
Message == [handle : Handle,
            method : {"found", "complete", "char", "error", "other"}]

BleTypeOK ==
    /\ debug \in Debug
    /\ {g_adv, g_turnover, g_peripheral, handle_service, null, starting,
        discovering} \subseteq BOOLEAN
    /\ timer \in {"off", "gap", "wait"}
    /\ events \subseteq Event
    /\ gatt \in Seq(Message)
    /\ g_scanlist \in BoundedSeq(Slave, SCAN_MAXNUM)
    /\ g_central \in Seq([handle : Handle, addr : Slave \cup {Master},
                          status : Live \cup {"idle"}])
    /\ profile \in {"none", "central", "peripheral"}
    /\ conn_handle \in Handle \cup {NoOne}
    /\ connecting \in Slave \cup {NoOne}
    /\ link \in [Handle -> Slave \cup {Master, NoOne}]
    /\ dying \subseteq Handle
    /\ req \in [Handle -> Request]
    /\ faults \in 0 .. MaxFaults[debug]

\* App_Init
Init ==
    /\ debug \in Debug
    /\ g_adv = (debug \in {"CP", "C"})
    /\ g_turnover = (debug \in {"C", "P"})
    /\ timer = "off"
    /\ events = {"switch"}
    /\ gatt = <<>>
    /\ g_scanlist = <<>>
    /\ g_central = <<>>
    /\ g_peripheral = FALSE
    /\ handle_service = FALSE
    /\ null = FALSE
    /\ profile = "none"
    /\ conn_handle = NoOne
    /\ starting = FALSE
    /\ discovering = FALSE
    /\ connecting = NoOne
    /\ link = [h \in Handle |-> NoOne]
    /\ dying = {}
    /\ req = [h \in Handle |-> "none"]
    /\ faults = 0

Fault == faults < MaxFaults[debug] /\ faults' = faults + 1
NullPointer == null' = TRUE

-----------------------------------------------------------------------------
(* The array of links: include.c                                           *)

multi_num == Cardinality({i \in DOMAIN g_central : g_central[i].status \in Live})
multi_check(a) ==
    \E i \in DOMAIN g_central :
        g_central[i].addr = a /\ g_central[i].status \in Live

\* The entries of a handle; multi_point is the first of them, if any.
Listed(h) == {i \in DOMAIN g_central : g_central[i].handle = h}
multi_point(h) == CHOOSE i \in Listed(h) : \A j \in Listed(h) : i <= j

\* A mutant of it: the array is shortened but not shifted.
DelLast(central) ==
    IF \E i \in DOMAIN central : central[i].status \notin Live
    THEN Front(central) ELSE central
\* multi_del runs the index of its scan to the end when it shifts the array:
\* it removes the first entry that is not live.
multi_del(central) ==
    LET dead == {i \in DOMAIN central : central[i].status \notin Live}
    IN IF dead = {} THEN central
       ELSE RemoveAt(central, CHOOSE i \in dead : \A j \in dead : i <= j)

-----------------------------------------------------------------------------
(* What the stack reports: gapRole_ProcessGAPMsg, which calls              *)
(* callback_event in the central profile and only there.                   *)

\* GAP_DEVICE_INIT_DONE_EVENT
InitDone ==
    /\ starting
    /\ starting' = FALSE
    /\ IF profile = "central"
       THEN events' = events \cup {"scan"} /\ UNCHANGED g_peripheral
       ELSE g_peripheral' = FALSE /\ UNCHANGED events
    /\ UNCHANGED <<debug, roleVars, timer, gatt, g_central, handle_service, null,
                   profile, conn_handle, discovering, connecting, link, dying,
                   req, faults>>

\* GAP_DEVICE_INFO_EVENT
DeviceInfo(a) ==
    /\ discovering
    /\ \A h \in Handle : link[h] # a
    /\ profile = "central"
    /\ Len(g_scanlist) < SCAN_MAXNUM
    /\ \A i \in DOMAIN g_scanlist : g_scanlist[i] # a
    /\ ~multi_check(a)
    /\ g_scanlist' = Append(g_scanlist, a)
    /\ UNCHANGED <<debug, g_adv, g_turnover, timer, events, gatt, g_central,
                   g_peripheral, handle_service, null, stackVars>>

\* GAP_DEVICE_DISCOVERY_EVENT
Discovered ==
    /\ discovering
    /\ discovering' = FALSE
    /\ events' = IF profile = "central" /\ g_scanlist # <<>>
                 THEN events \cup {"connect"} ELSE events
    /\ UNCHANGED <<debug, roleVars, timer, gatt, g_central, g_peripheral,
                   handle_service, null, profile, conn_handle, starting,
                   connecting, link, dying, req, faults>>

Full == Len(g_central) = NUM_CENTRAL

\* GAP_LINK_ESTABLISHED_EVENT with SUCCESS.  A node that has become a
\* peripheral in the meantime, or has no room, does not list the link.
Opened(h, a) ==
    /\ link[h] = NoOne
    /\ link' = [link EXCEPT ![h] = a]
    /\ IF profile = "central"
       THEN /\ req' = [req EXCEPT ![h] = "service"]
            /\ g_central' =
                 IF g_adv \/ Full THEN g_central
                 ELSE Append(g_central, [handle |-> h, addr |-> a,
                                         status |-> "connected"])
            /\ UNCHANGED <<g_peripheral, conn_handle>>
       ELSE /\ g_peripheral' = TRUE
            /\ conn_handle' = h
            /\ UNCHANGED <<req, g_central>>
    /\ UNCHANGED <<debug, roleVars, timer, events, gatt, handle_service, null,
                   profile, starting, discovering, dying, faults>>

Established(h) ==
    /\ connecting # NoOne
    /\ Opened(h, connecting)
    /\ connecting' = NoOne

\* Another master connects to this node while it advertises.
MasterConnects(h) ==
    /\ profile = "peripheral"
    /\ ~starting
    /\ \A g \in Handle : link[g] # Master
    /\ Opened(h, Master)
    /\ UNCHANGED connecting

\* The same event with an error.
Refused ==
    /\ connecting # NoOne
    /\ connecting' = NoOne
    /\ Fault
    /\ UNCHANGED <<appVars, profile, conn_handle, starting, discovering, link,
                   dying, req>>

\* GAP_LINK_TERMINATED_EVENT: a central marks the entry of the link and
\* removes it, a peripheral knows that it is free again.
Closed(h) ==
    /\ link[h] # NoOne
    /\ link' = [link EXCEPT ![h] = NoOne]
    /\ req' = [req EXCEPT ![h] = "none"]
    /\ dying' = dying \ {h}
    /\ IF profile # "central"
       THEN /\ g_peripheral' = FALSE
            /\ conn_handle' = NoOne
            /\ UNCHANGED <<g_central, null>>
       ELSE /\ IF g_adv THEN UNCHANGED <<g_central, null>>
               ELSE IF Listed(h) = {} THEN NullPointer /\ UNCHANGED g_central
               ELSE /\ g_central' = multi_del(
                          [g_central EXCEPT ![multi_point(h)].status = "idle"])
                    /\ UNCHANGED null
            /\ UNCHANGED <<g_peripheral, conn_handle>>
    /\ UNCHANGED <<debug, roleVars, timer, events, gatt, handle_service,
                   profile, starting, discovering, connecting>>

Terminated(h) == h \in dying /\ Closed(h) /\ UNCHANGED faults
Lost(h) == Closed(h) /\ Fault

\* GAP_LINK_PARAM_UPDATE_EVENT: the notification is enabled on handle 0,
\* whatever the link.
Updated(h) ==
    /\ link[h] # NoOne
    /\ profile = "central"
    /\ Fault
    /\ IF Listed(h) = {} THEN NullPointer /\ UNCHANGED req
       ELSE /\ req' = IF link[0] # NoOne /\ req[0] = "none"
                      THEN [req EXCEPT ![0] = "write"] ELSE req
            /\ UNCHANGED null
    /\ UNCHANGED <<debug, roleVars, timer, events, gatt, g_central, g_peripheral,
                   handle_service, profile, conn_handle, starting, discovering,
                   connecting, link, dying>>

\* The peer answers the request of link h; GATT posts it to the application.
Posted(h, method, next) ==
    /\ gatt' = Append(gatt, [handle |-> h, method |-> method])
    /\ req' = [req EXCEPT ![h] = next]
    /\ UNCHANGED <<debug, roleVars, timer, events, g_central, g_peripheral,
                   handle_service, null, profile, conn_handle, starting,
                   discovering, connecting, link, dying>>

Answer(h) ==
    /\ \/ req[h] = "service" /\ Posted(h, "found", "complete")
       \/ req[h] = "complete" /\ Posted(h, "complete", "none")
       \/ req[h] = "char" /\ Posted(h, "char", "none")
       \/ req[h] = "write" /\ Posted(h, "other", "none")
    /\ UNCHANGED faults

\* Or any request of it is refused with an ATT_ERROR_RSP.
AnswerError(h) ==
    /\ req[h] # "none"
    /\ Posted(h, "error", "none")
    /\ Fault

\* What is waiting is handled long before a timer of 0.5 s expires, and a
\* discovery of 4 s is over before the one of 10 s does.
Timer ==
    /\ timer # "off"
    /\ events = {} /\ gatt = <<>> /\ ~starting
    /\ timer = "wait" => ~discovering
    /\ timer' = "off"
    /\ events' = events \cup {"switch"}
    /\ UNCHANGED <<debug, roleVars, gatt, g_central, g_peripheral,
                   handle_service, null, stackVars>>

-----------------------------------------------------------------------------
(* App_ProcessEvent: messages first, then the events in this order.        *)

\* Sys_ProcessEvent for the status of the link: the service is discovered,
\* its characteristic is asked for, and then the switch event is near.
Progress(m, i) ==
    LET found == handle_service \/ m.method = "found"
        become(status) == g_central' = [g_central EXCEPT ![i].status = status]
    IN CASE g_central[i].status = "connected" ->
              /\ handle_service' = found
              /\ IF found /\ m.method \in {"complete", "error"}
                 THEN /\ become("services")
                      /\ req' = [req EXCEPT ![m.handle] =
                                   IF @ = "none" /\ link[m.handle] # NoOne
                                   THEN "char" ELSE @]
                 ELSE UNCHANGED <<g_central, req>>
              /\ UNCHANGED timer
         [] g_central[i].status = "services" /\ m.method = "char" ->
              /\ become("characteristic")
              /\ timer' = "gap"
              /\ UNCHANGED <<handle_service, req>>
         [] OTHER -> UNCHANGED <<g_central, handle_service, req, timer>>

Gatt ==
    /\ gatt # <<>>
    /\ gatt' = Tail(gatt)
    /\ LET m == Head(gatt)
       IN IF Listed(m.handle) = {}
          THEN NullPointer /\ UNCHANGED <<g_central, handle_service, req, timer>>
          ELSE Progress(m, multi_point(m.handle)) /\ UNCHANGED null
    /\ UNCHANGED <<debug, roleVars, events, g_peripheral, profile, conn_handle,
                   starting, discovering, connecting, link, dying, faults>>

\* The handler of event e: nothing that comes before it is waiting.
Handles(e, before) ==
    /\ gatt = <<>>
    /\ e \in events
    /\ events \cap before = {}

\* The links that have their characteristic get the command and are hung up.
\* As a peripheral GAPRole only ends the link it has as a peripheral.
HangUp ==
    LET ready == {g_central[i].handle :
                    i \in {j \in DOMAIN g_central :
                             g_central[j].status = "characteristic"}}
        open == {h \in ready : link[h] # NoOne}
    IN IF g_adv \/ ready = {} THEN UNCHANGED <<req, dying>>
       ELSE /\ req' = [h \in Handle |->
                         IF h \in open /\ req[h] = "none" THEN "write" ELSE req[h]]
            /\ dying' = dying \cup (IF profile = "central" THEN open
                                    ELSE {conn_handle} \ {NoOne})

\* A mutant of it: one link is enough.
ExceededOne == IF g_adv' THEN g_peripheral ELSE multi_num > 0
Exceeded == IF g_adv' THEN g_peripheral ELSE multi_num = NUM_CENTRAL

Switch ==
    /\ Handles("switch", {})
    /\ timer' = "wait"
    /\ HangUp
    /\ g_adv' = IF debug \in {"P", "C"} /\ ~g_turnover THEN g_adv ELSE ~g_adv
    /\ events' = (events \ {"switch"}) \cup (IF Exceeded THEN {} ELSE {"initial"})
    /\ UNCHANGED <<debug, g_turnover, gatt, g_scanlist, g_central, g_peripheral,
                   handle_service, null, profile, conn_handle, starting,
                   discovering, connecting, link, faults>>

\* The node takes its role: once in the builds that keep it, else every time.
Initial ==
    /\ Handles("initial", {"switch"})
    /\ g_turnover' = FALSE
    /\ IF debug \in {"P", "C"} /\ ~g_turnover
       THEN UNCHANGED <<profile, conn_handle, starting>>
       ELSE /\ profile' = IF g_adv THEN "peripheral" ELSE "central"
            /\ conn_handle' = NoOne
            /\ starting' = TRUE
    /\ events' = (events \ {"initial"}) \cup (IF g_adv THEN {} ELSE {"scan"})
    /\ UNCHANGED <<debug, g_adv, timer, gatt, g_scanlist, g_central,
                   g_peripheral, handle_service, null, discovering, connecting,
                   link, dying, req, faults>>

\* The stack may refuse a discovery while it is busy, and does when one is
\* in progress; the list is emptied in any case.
Scan ==
    /\ Handles("scan", {"switch", "initial"})
    /\ g_central' = multi_del(g_central)
    /\ g_scanlist' = <<>>
    /\ discovering' \in IF ~discovering /\ (starting \/ connecting # NoOne)
                        THEN BOOLEAN ELSE {TRUE}
    /\ events' = events \ {"scan"}
    /\ UNCHANGED <<debug, g_adv, g_turnover, timer, gatt, g_peripheral,
                   handle_service, null, profile, conn_handle, starting,
                   connecting, link, dying, req, faults>>

\* Every slave found is asked for; the stack takes one at a time, and only as
\* a central.
Connect ==
    /\ Handles("connect", {"switch", "initial", "scan"})
    /\ LET wanted == {i \in DOMAIN g_scanlist :
                        \A h \in Handle : link[h] # g_scanlist[i]}
           refused == \/ wanted = {} \/ profile # "central"
                      \/ connecting # NoOne \/ discovering \/ starting
                      \/ \A h \in Handle : link[h] # NoOne
       IN IF refused THEN UNCHANGED connecting
          ELSE \E i \in wanted : /\ \A j \in wanted : i <= j
                                 /\ connecting' = g_scanlist[i]
    /\ events' = events \ {"connect"}
    /\ UNCHANGED <<debug, roleVars, timer, gatt, g_central, g_peripheral,
                   handle_service, null, profile, conn_handle, starting,
                   discovering, link, dying, req, faults>>

-----------------------------------------------------------------------------
Application == ~null /\ (Gatt \/ Switch \/ Initial \/ Scan \/ Connect)
Reports == ~null /\ (InitDone \/ Discovered)
Found == ~null /\ \E a \in Slave : DeviceInfo(a)
Links == ~null /\ \E h \in Handle : Established(h) \/ Terminated(h)
Answers == ~null /\ \E h \in Handle : Answer(h)
Expires == ~null /\ Timer
Others ==
    /\ ~null
    /\ \/ Refused
       \/ \E h \in Handle : MasterConnects(h) \/ Lost(h) \/ Updated(h) \/ AnswerError(h)

Next == Application \/ Reports \/ Found \/ Links \/ Answers \/ Expires \/ Others

Spec == Init /\ [][Next]_vars

\* OSAL runs what is waiting, the timer expires, the stack ends what it
\* began, the peers answer; a slave that keeps advertising is found.
Fairness ==
    /\ WF_vars(Application)
    /\ WF_vars(Reports)
    /\ SF_vars(Found)
    /\ \A h \in Handle : WF_vars(~null /\ Terminated(h)) /\ WF_vars(~null /\ Answer(h))
    /\ WF_vars(~null /\ \E h \in Handle : Established(h))
    /\ WF_vars(Expires)

FairSpec == Spec /\ Fairness

-----------------------------------------------------------------------------
(* Properties *)

Open == {h \in Handle : link[h] # NoOne}

\* A node that keeps its role knows its links: as a central it lists exactly
\* the open ones, each once and with its peer (callback.c:200-268,
\* include.c:388); as a peripheral it knows whether it has one.
KnowsLinks ==
    ~null =>
    /\ debug = "C" =>
         /\ Open = {g_central[i].handle : i \in DOMAIN g_central}
         /\ Len(g_central) = Cardinality(Open)
         /\ \A i \in DOMAIN g_central : link[g_central[i].handle] = g_central[i].addr
    /\ debug = "P" => (g_peripheral <=> Open # {})

\* A central serves slaves again and again (cc2540.c:320-333), unless every
\* entry is taken by a link on which an answer of the discovery went wrong,
\* which nothing ends: the timeout is commented out (cc2540.c:485-493).  It
\* also ends with a null pointer, which a message handled after its link was
\* lost dereferences (cc2540.c:32-33).
Clogged ==
    /\ Full
    /\ \A i \in DOMAIN g_central : g_central[i].status # "characteristic"
Serves == Switch /\ dying' # dying
ServesAgain == []<><<Serves>>_vars \/ <>[]Clogged \/ <>null \/ debug # "C"

\* cc2540.c:33 "In case a GATT message came after a connection has dropped,
\* ignore the message".
LateIgnored == debug = "C" => ~null

\* include.h:31 "central-peripheral-central-peripheral-...": such a node
\* becomes a central again and again.
CentralAgain == debug = "CP" => <>null \/ []<>(profile = "central")
=============================================================================
