# Verification of the programs in this repository

This directory holds TLA+ models of the repository's own programs, the TLC
configurations that check them, and TLAPS proofs about them. Four programs are
modelled:

* `src/blockchain`, a multi-threaded simulation of an IoT ledger: devices
  discover each other, gossip their routes, issue deals, and a mainchain thread
  approves the deals in a tangle ("dag") and moves the tokens;
* `src/stm32l431`, an NB-IoT node: boot path with firmware update, and the task
  that talks to the modem;
* `src/cc2540`, a Bluetooth node that is a central, a peripheral, or both in turn;
* `src/app`, the Android application that is master of such nodes.

Check a run with `tlc -config <run>.cfg <module>`, a proof with
`tlapm <module>.tla`; `PROJECT.json` names the module of each run.

## 1. Inventory

| component | state | operations | talks to | status |
|---|---|---|---|---|
| device layer, `blockchain/layer_device.cpp` | queue, route (with quoted balances), two token counters, thread-local `flag` | `process_device`: connect (recv, seek, send, resend), transaction (recv, verify, generate, send), ledger (recv, send) | other devices' queues, the mainchain's queue | modelled |
| mainchain layer, `blockchain/layer_mainchain.cpp` | queue, account list with dag numbers, list of tips | `process_mainchain`: connect, transaction (seek, verify, attach, purge), ledger | devices' queues | modelled, but for proof-of-work and trunk/branch pointers |
| program, `blockchain/blockchain.cpp` | `g_device`, `g_mainchain`, `g_cs`, `g_flag`, `g_index` | creation of threads, late start of the mainchain, timer | shared memory, one critical section | modelled |
| shared structures, `blockchain/layer.h`, `layer.cpp` | queues, routes, tip list | `queue_insert`, `route_node`, `transaction_insert`, `dag_tipnum`; `dag_copy`, `dag_num` for the viewer | - | first group modelled |
| `stm32l431` update, `ota.c` | flash: normal area, ota area, store page | check, download, move, reset | boot path, update server | modelled |
| `stm32l431` modem, `AT/at.c`, `los_dev_st_uart.c`, and `stm32l431.c` | driver buffers, answer buffer | AT commands with timeouts, transfer task | UART, modem | transfer task and what it calls modelled |
| `cc2540` firmware | link array `g_central`, scan list, role flags, events, `g_npi` | event loop, GAP and GATT callbacks, `multi_*`, `npi_parse` | BLE stack, OSAL, UART | modelled, but for the commands of the serial port and the peripheral's values |
| `app` (Android) | list of BLE slaves with a status each | scan, connect, GATT callbacks, cleaning of the list | binder thread and handler thread | master side modelled |
| simulator cryptography, `crypt_*.cpp` | - | RSA, big numbers, SHA-256 | called by verify and generate | abstracted |
| `BlockchainMfc` viewer | a copy of the layers, `g_check`, views | start and stop of a case, timer that refreshes the views | layers, partly without `g_cs` | not modelled |
| `stm32l431/crypto` | - | ECC, hashes, AES, random numbers | boot path | abstracted |
| LiteOS, lwIP, mbedTLS, LwM2M, CMSIS, TI BLE stack | | | | third-party |

What makes each program hard, and what makes it correct:

* **simulator**. One thread per device and one for the mainchain take turns in
  whatever order they get the critical section; messages of three kinds share a
  queue, and connects overtake the others; a decision of the mainchain reaches
  two accounts through relays at any later time; the mainchain is initialised
  after the device threads have started; the timer only reaches threads that
  have something queued. Routes must know whoever a message is about, each deal
  is in one place and decided once, the accounts on both sides agree up to the
  notices in flight, and traffic ends.
* **update**. The power may fail between any two writes of the flash, a write
  may fail, and the page that says what is where is itself erased and
  programmed field by field. The only whole copy of an image must never be
  erased, and the offered image must arrive.
* **modem**. Nothing ties an answer to its command. Late and lost answers must
  not stop the task for ever.
* **Bluetooth node**. Links are reported at once while the messages about them
  wait; links end while their discovery is under way; a role switch overtakes
  the end of links. The array of links must match the links of the stack.
* **application**. The index of a slave is computed on one thread and used on
  another after the list may have changed. The list must show as connected
  what is connected, and every slave must get connected.

Each hazard is in `PROJECT.json` with its line and the properties about it.

## 2. Modules

| module | models | extends |
|---|---|---|
| `Layer` | constants, messages, state, queue operations, type invariant | community modules |
| `LayerDevice` | the device thread, `layer_device.cpp` | `Layer` |
| `LayerMainchain` | the mainchain thread, `layer_mainchain.cpp` | `Layer` |
| `Blockchain` | `main()`: initial state, late start, timer; composition, fairness, properties, refinement | both |
| `Payments` | abstract specification: what the simulator does to the tokens | - |
| `Ota` | boot path and update, `ota.c`, `ecc_gen`, `main()` | - |
| `Modem` | `data_transfer_task`, `at.c`, the UART driver | community modules |
| `Stm32` | composition: tasks run once the boot path is through, power cuts hit both | `Ota`, `Modem` |
| `Ble` | the application of `cc2540` between OSAL and the BLE stack | community modules |
| `App` | the master side of the Android service | - |
| `MCBlockchain`, `MCStm32`, `MCBle`, `MCApp` | instances for TLC | |
| `LayerLemmas` | what `Enqueue`, `QueueInsert`, `QueueDelete` and the loops do to a queue | `Layer` |
| `BlockchainProofs` | type correctness | `Blockchain`, `LayerLemmas` |
| `GossipProofs` | the gossip invariant; a device with a route stays awake | `BlockchainProofs` |
| `DealProofs` | a deal is in one place, has one decision, pays once; the width of the dag | `BlockchainProofs` |
| `AccountProofs` | accounts agree, frozen tokens cover, confirmed deals stand | `DealProofs` |
| `Stm32Proofs` | the update survives power failures | `Stm32` |
| `BleProofs` | the array of links matches the links | `Ble` |
| `AppProofs` | the list of slaves shows as connected what is connected | `App` |

### The simulator

| variable | in the code |
|---|---|
| `queue[t]` | `device->queue`, `mainchain->queue` (index `Main`) |
| `route[d]`, `fresh[d]` | the devices in `device->route`; those with `route->flag` 0 |
| `copy[d][l]` | `route->token[0]` of light device `l` at `d`; read only in `transaction_verify` |
| `gate[l]` | the first heavy device in the route of light device `l` |
| `token`, `frozen` | `device->token[0]`, `device->token[1]` |
| `group[d]` | the devices whose `dag_index` equals that of `d`; `{}` for 0 |
| `listed[d]`, `balance[d]` | whether `list[d].node` and `key` are set; `list[d].token` |
| `dag` | the list `mainchain->dag`: transaction, confirmed (`TRANSACTION_DAG`), failed (`flag`) |
| `g_cs`, `at`, `cursor`, `done` | who is inside the critical section, in which handler, where its loop stands, whose older CONNECTs this call deletes |
| `near`, `ticks`, `g_flag` | who is within `MAX_METRIC`; the timer |
| `booted`, `fault` | whether `main()` has started the mainchain; undefined behaviour reached |

Granularity. All handlers run between `EnterCriticalSection` and
`LeaveCriticalSection`. A step of the model is one turn of a handler's loop,
and no other thread moves until the call leaves, with one exception that the
code makes: `main()` initialises the mainchain outside the critical section, so
`StartMainchain` may fall between any two turns. (Between the pointer writes of
one `queue_insert` it may not: that finer race is left out.)

Abstractions.

* Keys, signatures and hashes: the key of a device never changes and every
  copy is equal, so a signature verifies; the key of a never-listed device is
  uninitialised and does not.
* A route is a set; the one thing its order decides, which heavy device a
  light one uses, is `gate`. The order of the newcomers of one CONNECT is left
  open. `route->token[1]` is never read.
* The tip list is a set: picks are random, and at most one node has failed.
  `trunk`, `branch` and `pow` are only read by the viewer and by
  `transaction_pow`.
* `dag_index` values are replaced by who shares one. `main()` allocates the
  list with `new list_t[]` and never sets `dag_index`, although `layer.h:88`
  calls 0 its default: `Stray` is the set of devices whose uninitialised value
  equals the first number given out.
* "delete all queues with same device_index" is `done`: the older CONNECTs of a
  sender are dropped instead of applied. The loop compares them with a number in
  the block that its first turn has freed (`layer_mainchain.cpp:83-94`), so
  whether they are is a free choice of the model: the number is still there, or
  the allocator has put something else in its place.
* Counters wrap at `Word`, 2^32 in the code and 64 in the runs, more than all
  tokens of an instance.
* A NULL dereference (`"route_node"`), a read past the list (`"list"`) and the
  double free in the mainchain's retry (`"dangling"`) stop the model.
* `initial.ini` and `random.ini` are the constants; the release code at the
  end of `main()` is unreachable; the length read past a buffer at
  `layer_device.cpp:453` is memory layout; a heavy device cannot refuse its
  own deal (`transaction_verify` compares only light sources), so
  `layer_device.cpp:368-373` is unreachable and absent.

`Payments` forgets threads, queues, routes and dags. Its tokens leave the purse
of a deal's source once, when the deal is taken up, and arrive at most once, at
its destination or back at its source. Under the mapping in `Blockchain`
(`Ledgers`: `purse` is `token`, `paying` the deals whose decision has not
arrived) every step of every handler is a step of `Payments` or a stutter. The
refinement holds as long as no confirmed deal is failed afterwards, which
`confirmed_fails` shows to happen when accounts are scarce; run `accounts` is
an instance where every account can pay.

### The STM32 node

| variable | in the code |
|---|---|
| `page` | the `store_t` in the store area; `Erased` is 0xff.. |
| `normal`, `ota` | the two areas: an image, erased (`Blank`), or other words (`Part`) |
| `g_store` | `g_store` |
| `pc`, `after` | the position in `main()`, and where the writing of the page returns to |
| `remote` | what the server offers |
| `cmd`, `reading`, `ret` | the position in `data_transfer_task`, inside `los_dev_uart_read`, the result of `at_unit` |
| `rbuf`, `uart` | `at_rbuf`; the unread burst in the driver (`interrbuf`, `readcnt`) |
| `owed` | the answers the modem has still to give |

* One flash operation is one step: the erase of an area or of the page, each
  group of doublewords of the page. `PowerLoss` can come between any two
  steps. A failed write leaves what was erased.
* Images are told apart by their hash; the hash of anything else, or of the
  wrong length, is no image's. `Key` may contain the server's key: only then
  can `ota_checkremote` answer OTA_LATEST and the tasks start (see
  `needless_update`).
* `stm32l431.sct` links `ota.c`, the start code of LiteOS and the HAL's flash
  objects at 0x08030000, so `ota_move` itself survives the erase of the normal
  area. The vectors, `main()`, `ecc_check`, `ecc_gen` and the hashes are in the
  normal area: a chip whose normal area is erased does not start (`dead`), and
  one whose normal area holds other words may start or not (a free choice of
  `Boot`). Every image is assumed to contain this same boot path.
* The server offers another image only while the board resets, and an image it
  has announced stays available. The download itself is a stub in the code; it
  is modelled as the image announced.
* The driver keeps one unread burst: the next one replaces it. An answer is
  read whole: that the rest of a burst longer than `maxlen` stays in the driver
  is left out.
* The tasks other than `data_transfer_task` do not touch its state.

### The Bluetooth node

| variable | in the code |
|---|---|
| `debug` | the macro `DEBUG` (`"C"`, `"P"`, `"CP"`, `"PC"`; the repository builds `DEBUG_P`) |
| `g_adv`, `g_turnover`, `g_scanlist` | the same; `g_scannum` is the length of the list |
| `g_central` | the array, `g_multi` its length; `g_peripheral` whether its status is connected |
| `handle_service` | the static array of `Sys_ProcessEvent`, zero or not |
| `events`, `timer`, `gatt` | events, timer and messages of the application task |
| `profile`, `conn_handle` | `gapRole_profileRole`, `gapRole_ConnectionHandle` |
| `starting`, `discovering`, `connecting`, `link`, `dying`, `req` | the BLE stack |
| `null` | a null pointer was dereferenced; nothing is modelled after it |

* OSAL runs one handler at a time, by priority: `GAPRole` (task 8) comes before
  the application (task 11), so what the stack reports of links is one step
  with its callback, while GATT messages wait in the queue.
* The BLE stack is outside the sources. From how it is used: one link per
  handle, one establishment at a time, one request per link; it may refuse a
  discovery while it starts or connects. `RoomAssumption`: it keeps no more
  links than `g_central` has entries.
* The 0.5 s and 10 s timers expire when nothing else waits, and not during a
  discovery of 4 s.
* Any request may be answered by an error, writes included, which
  `cc2540.c:65` takes for the end of the discovery of a link.
* Nobody types commands on the serial port. Three of them would change this
  state: `AT+SCAN` and `AT+CONNECT` do what the events do, at any other time, and
  after `AT+NPI0` the node only echoes and never scans again.

### The Android application

`master` is the list in `Include.java`; `handler` the runnables posted and not
yet run; `scan` that a scan is running; `pending`, `open` and `asked` count the
GATT clients of a slave that are connecting, connected, and waiting for its
services; `crashed` that a runnable threw; `amiss` that an index met another
slave or an event was lost.

* A runnable is one step of the handler's thread, the part of a callback up to
  its `post` one step of a binder thread. An exception on the handler's thread
  ends the application, one in a callback is caught by the framework.
* Several clients of one slave share its link: when it breaks each is told.
  The framework reports only CONNECTED and DISCONNECTED.
* `ServiceBle.java:328` says "delete not connected item"; `del_master` skips the
  entry after each one that it removes, and is modelled so.
* `initial` and the two posts of `scan` are one step (`Expire`); nothing is
  changed between them. The return at `ServiceBle.java:261`, taken only when the
  server's callback clears `adv` meanwhile, is left out. A client gives up after
  30 s; with a scan every 20 s, and a handler less than 14 s late, at most two
  are connecting to a slave (guard of `Expire`).
* What fails, within `MaxFaults`: a connection, also a second one while the first
  has its link (`TimesOut`); an open link; the discovery of services, whose
  failure ends in an exception before the status is read (`Services`); and an
  advertisement without manufacturer data, whose null array ends the application
  (`ScanNull`, `ServiceBle.java:411-427`).
* A successful discovery posts the status and then the first write
  (`transfer`), which is one step of the callback. No slave is "attached to the
  net" (427), and a connected slave does not advertise.

## 3. Runs

`2H1L` is two heavy devices and a light one.

| run | instance | shows |
|---|---|---|
| `accounts` | 2H1L, all in range or device 2 alone with a stray dag index; a light device is paid and overspends its old quote, 4 deals | `AccountsAgree`, `FrozenCovers`, `OneDecision`, `Awake`; refines `Payments` (`PaysOnce`) |
| `chain` | 1H2L in a chain, 4 deals | `GossipInv`, `OneCopy`, `AccountsAgree`, `FrozenCovers`, `ConfirmedStands` with a light device that has no heavy one at first, deferred messages and notices queued at the mainchain |
| `live` | 2H, 5 deals, one beyond any account, `TIP_NUM` 3, one timer tick, fair | `TypeOK`, `OneCopy`, `TipWidth` when tips fail, are reused, and the list is purged; `AllListed`, `Quiesces` |
| `stm32` | 3 images, 2 keys, 2 power failures, 1 failed write, fair | `MoveSource`, `Recoverable`, `StartsAgain`, `UpdateArrives`, `SendsAgain` |
| `ble` | builds C, P and CP, 2 slaves, 2 handles, 2 faults (none in CP), fair | `KnowsLinks`, `ServesAgain` |
| `app` | 2 slaves, 1 fault, fair | `StatusTells`, `ConnectsAll` |
| `confirmed_fails` | 2H, scarce accounts | violates `ConfirmedStands` |
| `must_find` | 2H1L hub | violates `MustFind` |
| `needless_update` | as `stm32`, no power failure | violates `NoNeedlessUpdate` |
| `late_answer` | as `stm32`, no power failure | violates `OkIsMine` |
| `late_gatt` | build C, no faults | violates `LateIgnored` |
| `alternates` | build CP, no faults, fair | violates `CentralAgain` |

The six violations are disagreements between the code and its own comments.

* `confirmed_fails`: `layer.h:74` gives the fail flag to tips, but a
  transaction that is already part of the dag is verified again when it is
  picked again, against a balance that its own transfer has reduced. If it
  does not verify it is marked failed and its source gets its tokens back,
  which the destination has received already.
* `must_find`: the retry of a notice looks up the transaction index in the
  device list, where `layer_mainchain.cpp:234` says it "must find it".
* `needless_update`: `ota_checkremote` ("OTA_LATEST-already latest") verifies
  the server's signature with the board's own key, so a board whose key is not
  the server's downloads and moves the image it already runs at every start,
  and never reaches its tasks.
* `late_answer`: `at.c` promises "0-ok" per command; the OK of a command that
  timed out is taken for that of the next one.
* `late_gatt`: `cc2540.c:33` says that a GATT message that comes after its
  connection has dropped is ignored; its entry is gone by then and the null
  pointer returned by `multi_point` is dereferenced.
* `alternates`: `include.h:31` says "central-peripheral-central-peripheral-...";
  the end of the links is reported to the peripheral that the node has just
  become, their entries stay live, and once they fill the array the node never
  becomes a central again.

**Bounds.** Simulator: three devices are the least with a heavy device, a light
device and a third one that may be unknown to either, which is where relaying
and gossip differ from talking to a neighbour. Four deals let a deal be issued,
attached, approved by the next ones and announced; `live` has five and a
`TIP_NUM` of 3 (5 in the code, with the same tests for equality), enough to
reach it, purge, fail and reuse. `MaxTick` bounds the timer: one tick triggers
a re-send. STM32: three images, two of equal length, so that neither length nor
hash alone tells them apart; two power failures, since the second can hit the
repair of the first; one failed write; `MaxOwed` = 1 answer under way. Bluetooth:
two links are the least of which one can end while another waits; `NUM_CENTRAL`
and `SCAN_MAXNUM` are 2 (3 in the code) so that the array fills; two faults, so that both
entries can be hit. Application: two slaves, so that an index can meet the
wrong one; one fault; `MaxLate` = 1, so that the timer can expire while a late
runnable waits. No other bound cuts behaviours.

**Deadlock** is checked in `live` and `confirmed_fails`. In the others the
program really can stop: a fault was reached (`"dangling"` in `accounts` and
`chain`, `"list"` in `must_find`), every thread sleeps on an empty queue, the
board does not start (`dead`, `halt`), a null pointer was dereferenced, or the
application has crashed.

**Fairness.**

* `Blockchain`: a call in progress goes on (weak fairness of `Call`), since
  handlers do not block. The threads poll for the critical section for ever and
  the simulator gives no thread priority, so each one with work gets in again
  and again (strong fairness: the lock is taken and released infinitely often).
  `main()` reaches the start of the mainchain, and its message loop gets the
  critical section for its timer.
* `Stm32`: the processor goes on; a read ends by its timeout; the modem hears a
  command that is sent again and again, gives the answers it owes, and an
  answer that comes again and again is read in time. Power failures are not
  fair, they stop after `MaxCuts`.
* `Ble`: OSAL runs what is waiting, the timer expires, the stack ends what it
  began and the peers answer (weak fairness); a slave that keeps advertising is
  found (strong fairness, discoveries start and end).
* `App`: the handler's thread runs what is due; a slave in range is found by one
  of the scans, and a connection to it is reported.

Three liveness properties name what the code cannot recover from, so they do not
catch it.

* `UpdateArrives` excuses `Torn`, a store page without lengths, on which the chip
  faults at every start, or without a hash, which it moves and resets on for
  ever; `Bricked`, a normal area that is not whole because the power, or a write,
  failed during `ota_move`, which no store page can help; and `Halted`, after
  the random number generator failed. Each needs a power failure or a fault.
* `ServesAgain` excuses `Clogged`, where links whose discovery went wrong fill the
  array and nothing ends them (the timeout is commented out), and `null`, the
  crash of `late_gatt`.
* `ConnectsAll` excuses a slave with a link that the list does not show: of two
  clients one failed after the other got the link, and what it posts marks the
  slave as not connected. `StatusTells` and `ConnectsAll` both end at a late or
  lost index (`amiss`) or a crash, which happen in the model.

No property says that frozen tokens are released in the end: a deal whose picked
tip fails (`layer_mainchain.cpp:306`), or that a light device sends to nobody
(`layer_device.cpp:494`), keeps them frozen for ever, and nothing in the code
promises otherwise.

## 4. Proofs

They hold for every value of the constants, under the named assumptions of each
module.

**Simulator** (every number of heavy and light devices, list of deals, initial
token, word size, tip width and family of topologies, under `LayerAssumption`;
`TipWidthHolds` under `TipAssumption` as well: `TIP_NUM` is at least 2). Two
kinds of hypothesis appear in statements.

* Stray dag indexes. The gossip theorems assume `Stray = {}`: with stray indexes
  the claim is false. Those about money assume `LightStray`, that they are found
  at light devices only. `AccountsAgree` needs it: let heavy device 1 start with
  the index that device 0 is given. The mainchain then takes 1, not yet listed,
  for a member of 0's dag and sends a notice for it to 0; 0 learns of 1 by a
  CONNECT that overtakes the notice, and settles it on its own account. TLC finds
  this with two heavy devices, a light one and three deals (37 steps).
* `[]ConfirmedStands`. Run `confirmed_fails` shows that it can be false; a deal
  that is confirmed and failed afterwards is paid twice, so nothing about its
  decision survives. It is a hypothesis on the behaviour, and `Rich` discharges
  it: every source can pay all its deals, and one of them again, out of its
  initial tokens, and no account overflows. The deals of
  `blockchain/initial.ini` are such a case (100 tokens, prices of at most 12).

* `TypeCorrect` (`BlockchainProofs`): `Spec => []TypeOK`. `TypeOK` is
  inductive; one lemma per action. The work is in the queues: what
  `QueueInsert` and `QueueDelete` return is a queue again (`LayerLemmas`).
* `GossipCorrect` (`GossipProofs`): `Spec => []GossipInv`, whose first part is
  that `route_node` never dereferences NULL. "The route knows the device" is not
  inductive:
  knowledge travels in messages. The invariant says that `h` *hears of* `x`
  (`Hears`) when it knows `x` or a CONNECT naming `x` waits in its queue; that
  CONNECTs are a prefix of every queue and the other handlers run only when
  none is left (`ConnectsOvertake`), so hearing has become knowing by the time
  a deal or notice is read; that whoever is in a route has been told the whole
  route (`RouteShared`), that new entries exist only inside the CONNECT call
  that passes them on (`FreshOnlyInCall`), that a light device's heavy device
  is in its route (`GateInRoute`); that what waits at a heavy device is about
  devices it hears of (`AddresseeHears`); and that a heavy device hears of
  every device of its dag and of every index under way that names it
  (`DagHears`). Preservation goes by action: a step that only adds messages or
  route entries keeps `Hears` (`Delivers` and its lemmas), a CONNECT that is
  read moves names from the queue to the route.
* `StaysAwake` (`GossipProofs`): `Spec => []Awake`, also with stray indexes.
  `Awake` is silent about a device inside its own call; the invariant
  `AwakeInv` adds that only its TRANSACTION handler may take its last
  TRANSACTION (which it replaces before it leaves), and that new route entries
  do not outlive the CONNECT call that leaves one for them. All other threads
  only add to a device's queue (`Grows`).

* The theorems about deals (`DealProofs`) rest on one lemma for each handler
  that says what it does to deals and notices in *numbers of messages*
  (`Effect`: a deal is issued, dropped, refused, placed in the dag, failed or
  settled, a notice moves, ...), whatever their places in the queues. Each
  invariant is then preserved by each effect, not by each handler.
  * `OneCopyHolds`: `Spec => []OneCopy`, also with stray indexes. `OneCopyInv`
    counts the copies of a deal in all queues and in the dag, and says that
    there are none of a deal not yet taken from `g_deal`.
  * `TipWidthHolds`: `Spec => []TipWidth`. A turn that brings the list to
    `TIP_NUM` nodes purges it before it leaves.
  * `OneDecisionHolds`: `Spec /\ []ConfirmedStands => []OneDecision`. `OnceInv`
    says that there is no notice about a deal that can still be decided, and
    later at most one to its source and at most one that pays.
  * `PaysOnceHolds`: the refinement, `LightStray => (Spec /\
    []ConfirmedStands => PaysOnce)`: initial states map to initial states, each
    effect to a step of `Payments` or a stutter. It needs `AddressedInv`: a
    notice is for the source or the destination of its deal, and waits at that
    device or at the heavy one of a light device, which holds because a heavy
    device enters a dag only when it is listed.
* The theorems about accounts (`AccountProofs`) relate sums of prices to the
  tokens modulo `Word`. `PriceSum` is a recursive function; what the proofs need
  of it (it exists, it changes by the price of the deal that enters or leaves)
  is derived from its partial sums by the least-number principle, since the
  induction theorems of the library cannot be instantiated here.
  * `AccountsAgreeHolds`: `LightStray => (Spec => []AccountsAgree)`, for
    every balance, overflowing or not, and even if a confirmed deal fails.
    `PairInv` says that the notices of a confirmation are sent once, and only
    when the deal is confirmed; `AgreeInv` is the equation up to a multiple of
    `Word`.
  * `ConfirmedStandsHolds`: `Rich => (Spec => []ConfirmedStands)`. `StandsInv`
    bounds every account of the mainchain by the initial tokens and the deals
    that may be confirmed, so that a tip that is picked again verifies again.
  * `FrozenCoversHolds`: `LightStray /\ Roomy => (Spec /\ []ConfirmedStands =>
    []FrozenCovers)`. `CoverInv` bounds what a device has frozen from below by
    the deals it waits for, and its tokens from above by what can still come,
    which is where `Roomy` (no account overflows) is needed.
  * `RichSettles` puts them together: under `Rich` and `LightStray`, `Spec`
    alone implies `OneDecision`, `FrozenCovers` and `PaysOnce`.

**Update** (`Stm32Proofs`; every set of images with any lengths, any keys, any
number of power failures and failed writes, under `OtaAssumption`).
`MoveSourceHolds`, `RecoverableHolds` and `StartsAgainHolds` follow from
`OtaInvariant`: `Spec => []OtaInv`. What must be remembered is what a torn page
can meet in the two areas. `PageOK` says that the two lengths are programmed
together and that an image the page names is in one of the two areas; `LocalOK`
that from `ota_checklocal` until the page is written again it is right about the
normal area; `Announced` that what is downloaded is what was announced; `MoveOK`
that during a move the page is `g_store` and the OTA area holds what is moved;
`StoreOK` that what is written to the page is true before it is written, and
that a page being written is erased or already `g_store`'s; `Remembers` that as
long as no write fails a board whose normal area is damaged knows it has a move
to finish; `Intact` that what `ota_checklocal` found stays. The modem only stutters in it.

**Bluetooth node** (`BleProofs`; any number of slaves, handles, faults, every
build, under `BleAssumption` and `RoomAssumption`). `KnowsLinksHolds` follows
from `BleInvariant`. In the build that stays central no link may come up
before the role is taken, which is the invariant of the first two events
(`Turnover`, `Settled`); after that a link is listed exactly when it is open,
once, with its peer (`CentralLinks`): `multi_del` removes the single entry that
has just been marked, because all others are live. `PeripheralLinks` is the
same for the build that stays peripheral.

**Application** (`AppProofs`; any number of slaves and faults, under
`AppAssumption`). `StatusTellsHolds` follows from `AppInvariant`. The list
changes before, after and between the runnables that set a status, so what must
be remembered is their order: a runnable that will show a slave as connected
has an open client or, behind it, the runnable that says otherwise
(`Corrected`), because the callbacks post in the order of their events; and a
slave is listed once (`ListedOnce`), so that the entry a runnable corrects is
the one that was wrong. `RoundInv` is the order of "start", scan and "connect"
that keeps the clients of a slave at two. That what `del_master` leaves is part
of the list (`Part`) is proved of the recursive function `Pick`.

Every safety property of a passing run is stated by a theorem. Only
model-checked are the liveness properties (`AllListed`, `Quiesces`,
`UpdateArrives`, `SendsAgain`, `ServesAgain`, `ConnectsAll`): they need fairness
and `ENABLED`, which the prover does not handle. That `Rich` holds of an
instance is a fact about its numbers. What `PriceSum` and `Pick` return is
proved only as far as the invariants need it.

## 5. Not modelled

* `BlockchainMfc`: a user interface over a second copy of the layers. Its own
  state is what it draws; it only reads what it races on.
* The cryptography on both sides, `dag_copy` and the other traversals that only
  feed the viewer, `move_location` (replaced by any topology): data without
  control.
* The serial commands of the `cc2540`, bonding, the
  values behind the peripheral's characteristics, the display; the sensors and
  the collection task of the `stm32l431`; the AT commands no task uses; the
  advertiser, GATT server and activities of the application, and the other
  values of its `DEBUG`, which is a constant.
* Third-party code. By far the most lines of the repository are vendored
  (LiteOS, CMSIS, HAL, lwIP, mbedTLS, LwM2M, the TI stack, their tables and
  headers), so the share of lines the models cover stays small although the
  programs above are covered.
