-------------------------- MODULE LayerMainchain --------------------------
(***************************************************************************)
(* The mainchain thread: process_mainchain and the handlers it dispatches  *)
(* to (layer_mainchain.cpp).  It groups the devices into dags              *)
(* (STEP_CONNECT), attaches deals to the list of tips and confirms the two *)
(* tips each of them approves (STEP_TRANSACTION), and is meant to retry    *)
(* notices it could not deliver (STEP_LEDGER).                             *)
(***************************************************************************)
EXTENDS Layer

MainRuns(s) == fault = "none" /\ g_cs = Main /\ at = s
MainLeaves == g_cs' = Nobody /\ at' = "none" /\ cursor' = 0

\* process_mainchain: the head of the queue selects the handler.
ProcessMainchain ==
    /\ booted
    /\ fault = "none"
    /\ g_cs = Nobody
    /\ queue[Main] # <<>>
    /\ g_cs' = Main
    /\ at' = Head(queue[Main]).step
    /\ cursor' = 1
    /\ UNCHANGED <<envVars, g_index, fault, done, queue, routeVars,
                   accountVars, flag, chainVars>>

-----------------------------------------------------------------------------
(* STEP_CONNECT *)

\* Whose uninitialised dag_index equals dag_number+1 = 1 when the first
\* CONNECT of all is applied.  Later numbers are always unused ones.
FirstStray == IF \A d \in Device : ~listed[d] THEN Stray ELSE {}

\* connect_recv, the first CONNECT of the queue: its sender and the devices
\* it names leave their old dags and form a new one.  Renumbering the dags
\* does not change who shares one.  The other CONNECTs of its sender, which
\* are older, are to be deleted with it, but the loop compares their sender
\* with index.device_index[0] in the block it has just freed (83, 88-94).
\* Either the block still holds the sender, and they are, or the allocator
\* has written a link or its debug pattern there, no number of a device, and
\* they are applied in their turn, over the newer one.
MainConnectRecv ==
    /\ MainRuns("CONNECT")
    /\ \E i \in DOMAIN queue[Main] :
        LET m == queue[Main][i]
            new == m.index \cup FirstStray
        IN  /\ IsNext(queue[Main], 1, i, "CONNECT")
            /\ IF m.from \in done
               THEN UNCHANGED <<group, listed, done>>
               ELSE /\ group' = [d \in Device |-> IF d \in new THEN new
                                                 ELSE group[d] \ new]
                    /\ listed' = [d \in Device |->
                                     listed[d] \/ d \in m.index]
                    /\ done' \in {done, done \cup {m.from}}
            /\ queue' = QueueDelete(queue, Main, i)
    /\ UNCHANGED <<envVars, g_index, fault, g_cs, at, cursor, routeVars,
                   accountVars, flag, balance, dag>>

\* connect_recv, "update queue".
MainConnectSend ==
    /\ MainRuns("CONNECT")
    /\ NoneLeft(queue[Main], 1, "CONNECT")
    /\ queue' = QueueInsert(queue, Main, NullTransaction)
    /\ done' = {}
    /\ MainLeaves
    /\ UNCHANGED <<envVars, g_index, fault, routeVars, accountVars, flag,
                   chainVars>>

-----------------------------------------------------------------------------
(* STEP_TRANSACTION *)

\* transaction_device: whom to write to about device x: itself when it is a
\* heavy device the mainchain has heard of, else the first such device of
\* its dag.  Main when there is none (the code returns 1).
HeavyOf(x) ==
    LET heavies == {h \in Heavy : listed[h] /\ h \in group[x]}
    IN  IF x \in Heavy /\ listed[x] THEN x
        ELSE IF heavies = {} THEN Main
        ELSE Min(heavies)

\* A mutant of Verify: a source may not spend its last token.
VerifyStrict(n) ==
    CASE ~listed[Src(n)] -> "DEVICE"
      [] listed[Src(n)] /\ Price(n) >= balance[Src(n)] -> "LEDGER"
      [] OTHER -> "DONE"

\* transaction_verify: the key of a device that was never listed is
\* uninitialised memory and matches no signature.
Verify(n) ==
    CASE ~listed[Src(n)] -> "DEVICE"
      [] listed[Src(n)] /\ Price(n) > balance[Src(n)] -> "LEDGER"
      [] OTHER -> "DONE"

Tips == {x \in dag : ~x.failed}
Tip(n) == [tx |-> n, confirmed |-> FALSE, failed |-> FALSE]

\* The message the loop of transaction_recv stands at.
MainTakes(i, s) ==
    /\ MainRuns(s)
    /\ i \in DOMAIN queue[Main]
    /\ IsNext(queue[Main], cursor, i, s)

\* transaction_seek: two tips picked at random, distinct if there are two.
Picked(trunk, branch) ==
    /\ {trunk, branch} \subseteq Tips
    /\ trunk = branch => Tips = {trunk}

\* A mutant of Taken: "goto loop" where the code says "goto next".
TakenLoop(i) == queue' = queue /\ cursor' = i + 1

\* transaction_recv, "next": the message is unlinked, the loop goes on with
\* the one behind it.
Taken(i) == queue' = QueueDelete(queue, Main, i) /\ cursor' = i

\* transaction_recv, an empty message.
MainTransactionDrop ==
    /\ \E i \in DOMAIN queue[Main] :
        /\ MainTakes(i, "TRANSACTION")
        /\ queue[Main][i].tx = 0
        /\ Taken(i)
    /\ UNCHANGED <<envVars, g_index, fault, g_cs, at, done, routeVars,
                   accountVars, flag, chainVars>>

\* transaction_recv, "search error tip": the new transaction takes over the
\* node of a failed tip, without approving any other.
MainTransactionReuse ==
    /\ \E i \in DOMAIN queue[Main], x \in dag :
        /\ MainTakes(i, "TRANSACTION")
        /\ queue[Main][i].tx # 0
        /\ x.failed
        /\ dag' = (dag \ {x}) \cup {Tip(queue[Main][i].tx)}
        /\ Taken(i)
    /\ UNCHANGED <<envVars, g_index, fault, g_cs, at, done, routeVars,
                   accountVars, flag, group, listed, balance>>

\* A mutant of Purge: one tip too late.
PurgeLate(d) ==
    IF Cardinality({x \in d : ~x.failed}) > TIP_NUM
    THEN {x \in d : ~x.confirmed}
    ELSE d

\* "add into dag if width enough".
Purge(d) ==
    IF Cardinality({x \in d : ~x.failed}) = TIP_NUM
    THEN {x \in d : ~x.confirmed}
    ELSE d

\* transaction_recv, "no genesis": the list of tips is empty.
MainTransactionGenesis ==
    /\ \E i \in DOMAIN queue[Main] :
        /\ MainTakes(i, "TRANSACTION")
        /\ queue[Main][i].tx # 0
        /\ dag = {}
        /\ dag' = Purge({Tip(queue[Main][i].tx)})
        /\ Taken(i)
    /\ UNCHANGED <<envVars, g_index, fault, g_cs, at, done, routeVars,
                   accountVars, flag, group, listed, balance>>

\* transaction_recv, the loop picks its two tips for data message i.
MainApproves(i, trunk, branch) ==
    /\ MainTakes(i, "TRANSACTION")
    /\ queue[Main][i].tx # 0
    /\ \A x \in dag : ~x.failed
    /\ Picked(trunk, branch)

\* "not find heavy node": the message stays and the loop goes on behind it.
MainTransactionDefer ==
    /\ \E i \in DOMAIN queue[Main], trunk, branch \in dag :
        /\ MainApproves(i, trunk, branch)
        /\ \/ HeavyOf(Src(trunk.tx)) = Main
           \/ /\ Verify(trunk.tx) = "DONE"
              /\ HeavyOf(Src(branch.tx)) = Main
        /\ cursor' = i + 1
    /\ UNCHANGED <<envVars, g_index, fault, g_cs, at, done, queue, routeVars,
                   accountVars, flag, chainVars>>

\* A picked tip does not verify: it is marked, the heavy device of its
\* source is told, and the message that picked it is deleted all the same.
MainTransactionFail ==
    /\ \E i \in DOMAIN queue[Main], trunk, branch \in dag :
        /\ MainApproves(i, trunk, branch)
        /\ HeavyOf(Src(trunk.tx)) # Main
        /\ \E bad \in {trunk, branch} :
            /\ bad # trunk => /\ Verify(trunk.tx) = "DONE"
                              /\ HeavyOf(Src(branch.tx)) # Main
            /\ Verify(bad.tx) # "DONE"
            /\ dag' = (dag \ {bad}) \cup {[bad EXCEPT !.failed = TRUE]}
            /\ queue' = QueueInsert(QueueDelete(queue, Main, i),
                            HeavyOf(Src(bad.tx)),
                            Ledger(Verify(bad.tx), bad.tx, Src(bad.tx)))
        /\ cursor' = i
    /\ UNCHANGED <<envVars, g_index, fault, g_cs, at, done, routeVars,
                   accountVars, flag, group, listed, balance>>

\* A mutant of Transfer: the destination is not credited.
TransferDebit(b, n) == [b EXCEPT ![Src(n)] = Sub(@, Price(n))]

\* "update ledger" of a tip that becomes part of the dag.
Transfer(b, n) ==
    LET debited == [b EXCEPT ![Src(n)] = Sub(@, Price(n))]
    IN  [debited EXCEPT ![Dst(n)] = Add(@, Price(n))]

\* "notify device": source and destination; a notice that finds no heavy
\* device is queued at the mainchain itself.
Notify(q, n) ==
    QueueInsert(QueueInsert(q, HeavyOf(Src(n)), Ledger("SRC", n, Src(n))),
                HeavyOf(Dst(n)), Ledger("DST", n, Dst(n)))

\* A mutant of Unconfirmed: every pick counts as the first.
UnconfirmedAlways(x) == TRUE
\* The tip is not yet part of the dag ("transaction!=TRANSACTION_DAG").
Unconfirmed(x) == ~x.confirmed

\* Both tips verify: the transaction becomes a tip, the tips it approves
\* are confirmed unless they already were, and confirmed nodes leave the
\* list when it is TIP_NUM wide.
MainTransactionAttach ==
    /\ \E i \in DOMAIN queue[Main], trunk, branch \in dag :
        LET n == queue[Main][i].tx
            first == Unconfirmed(trunk)
            second == Unconfirmed(branch) /\ trunk # branch
            rest == QueueDelete(queue, Main, i)
            b1 == IF first THEN Transfer(balance, trunk.tx) ELSE balance
            q1 == IF first THEN Notify(rest, trunk.tx) ELSE rest
        IN  /\ MainApproves(i, trunk, branch)
            /\ \A x \in {trunk, branch} : /\ HeavyOf(Src(x.tx)) # Main
                                          /\ Verify(x.tx) = "DONE"
            /\ balance' = IF second THEN Transfer(b1, branch.tx) ELSE b1
            /\ queue' = IF second THEN Notify(q1, branch.tx) ELSE q1
            /\ dag' = Purge({Tip(n)} \cup (dag \ {trunk, branch})
                        \cup {[x EXCEPT !.confirmed = TRUE]
                                 : x \in {trunk, branch}})
            /\ cursor' = i
    /\ UNCHANGED <<envVars, g_index, fault, g_cs, at, done, routeVars,
                   accountVars, flag, group, listed>>

\* transaction_send: the mainchain keeps itself awake.
MainTransactionSend ==
    /\ MainRuns("TRANSACTION")
    /\ NoneLeft(queue[Main], cursor, "TRANSACTION")
    /\ queue' = QueueInsert(queue, Main, NullTransaction)
    /\ MainLeaves
    /\ UNCHANGED <<envVars, g_index, fault, done, routeVars, accountVars,
                   flag, chainVars>>

-----------------------------------------------------------------------------
(* STEP_LEDGER *)

\* ledger_recv looks for the device whose index is the TRANSACTION index of
\* the notice.  Without a heavy device for it the notice stays queued.
MainLedgerSkip ==
    /\ \E i \in DOMAIN queue[Main] :
        /\ MainTakes(i, "LEDGER")
        /\ queue[Main][i].tx \in Device
        /\ HeavyOf(queue[Main][i].tx) = Main
        /\ cursor' = i + 1
    /\ UNCHANGED <<envVars, g_index, fault, g_cs, at, done, queue, routeVars,
                   accountVars, flag, chainVars>>

\* With one, the notice itself (not its copy) is linked into the device's
\* queue, which cuts the mainchain's queue behind it, and is then freed in
\* both: "dangling".  An index beyond the list reads past it: "list".
MainLedgerFault ==
    /\ \E i \in DOMAIN queue[Main] :
        LET x == queue[Main][i].tx
        IN  /\ MainTakes(i, "LEDGER")
            /\ x \in Device => HeavyOf(x) # Main
            /\ fault' = IF x \in Device THEN "dangling" ELSE "list"
    /\ UNCHANGED <<envVars, g_index, callVars, queue, routeVars, accountVars,
                   flag, chainVars>>

MainLedgerEnd ==
    /\ MainRuns("LEDGER")
    /\ NoneLeft(queue[Main], cursor, "LEDGER")
    /\ MainLeaves
    /\ UNCHANGED <<envVars, g_index, fault, done, queue, routeVars,
                   accountVars, flag, chainVars>>

MainCall ==
    \/ MainConnectRecv \/ MainConnectSend
    \/ MainTransactionDrop \/ MainTransactionReuse \/ MainTransactionGenesis
    \/ MainTransactionDefer \/ MainTransactionFail \/ MainTransactionAttach
    \/ MainTransactionSend
    \/ MainLedgerSkip \/ MainLedgerFault \/ MainLedgerEnd
=============================================================================
