# TuyaOpen device SDK: TLA+ models, checks and proofs

This directory models the concurrent core of the SDK: the run-time services of
`src/src/tal_system`, and of `src/src/tuya_cloud_service` the cloud client with its
MQTT and MATOP services, the WiFi connection and the receiving half of the Bluetooth
manager. Modules are checked with TLC on small instances. Every invariant and action property that
a passing run checks, and the two refinements, are also proved with TLAPS for every value of
the constants; what is only model-checked is liveness.
`PROJECT.json` lists components, runs, mutated definitions, the source lines of every
definition, the hazards of the code, the findings and the theorems.

## 1. Inventory

The SDK is a library linked into the firmware of a device. An application creates a
`tuya_iot_client_t`, and calls `tuya_iot_yield` in an endless loop; everything else
happens on threads of the run-time services and in callbacks.

| Component | State | Operations | Interacts with | Hard about it |
|---|---|---|---|---|
| Software timers (`tal_sw_timer.c`) | sorted list of running timers, standby list, counts, semaphore | create, start, stop, trigger, delete; dispatch loop of `sys_timer` | callbacks run on `sys_timer`; delayed works | clock read before the lock, callback after the unlock, sleep computed before sleeping |
| Thread manager (`tal_thread.c`) | node per thread with a run state, list of all, list to delete | create, delete, wrapper around each function, deferred freeing | the work queue's release polls the state | a node is freed by whichever thread runs next, itself included |
| Work queue (`tal_workqueue.c`) | bounded queue, semaphore, worker; delayed works | schedule (tail or head), cancel, release, delayed init/start/stop/cancel | thread manager, timers | cancellation in place, release against the worker, late timer callbacks |
| Event bus (`tal_event.c`) | events with subscriber lists and a mutex each, list of subscribers without event | subscribe, unsubscribe, publish | used by the client, network and pairing code | unlocked look-up, one-time subscribers, mutex held over callbacks |
| IoT client (`tuya_iot.c`) | `state`, `nextstate`, activation, binding, token semaphore, MQTT flags, two stored keys | `tuya_iot_yield`, start, stop, reset, reconnect, token event | store, HTTP requests, MQTT service, event bus | unlocked requests, power cuts between writes, stale wake-ups |
| MQTT service (`mqtt_service.c`, `mqtt_client_wrapper.c`) | flags, handler lists, list of publishes waiting for a PUBACK | init, start, stop, loop, destroy, publish, register | client (main thread), application threads, broker | unlocked list, lost PUBACKs, expiry during the walk |
| MATOP (`matop_service.c`) | request list with ids and timeouts | request, answer, expiry, destroy | MQTT service, timer | answer before the request is listed, id reuse |
| Network manager (`netmgr/`) | status and active connection | connection events, get, set | event bus, client | callbacks of several drivers, no lock |
| Pairing (`netcfg/`, `mqtt_bind.c`, `ble/`) | state of each provider of a token | start, stop, token received | client's token event | several providers at once, late stop |
| LAN (`lan/`) | sessions, sequence numbers, sockets | accept, read, report, expire | data points | session limit, faults during a walk |
| BLE (`ble/`) | connection, pairing, reassembly of frames | connect, receive, send, pair | data points, pairing | lost or repeated subpackages |
| Data points (`schema/`) | values, report and sync flags | parse, report, acknowledge | MQTT, LAN and BLE | a value that changes while its report is under way |
| OTA, health (`tuya_ota.c`, `tuya_health.c`) | one upgrade context; watch list | start, progress, end; periodic checks | client, timers | a second start; callbacks on the timer thread |
| Key-value store (`tal_kv`) | littlefs files under one mutex | get, set, delete | activation data | power cuts (vendored file system) |

Requests over HTTP, endpoint discovery, protocol framing, TLS, security, log, command
line, drivers and radio adapters keep no concurrent state of their own or are thin
layers over the platform (`tkl_*`, not in the repository). coreHTTP, coreMQTT, lwIP,
mbedTLS, NimBLE, cJSON, littlefs and the examples and tools are not the SDK's own logic.

What makes each part correct: a due timer is dispatched and lists and counts agree; an
item of the queue is run exactly once unless cancelled, and nothing is used after the
release; a publish reaches every subscriber once, in order; the client and its stored
activation agree over power cuts, and requests are served; a publish is reported once
and does not wait for ever; a request over MQTT has one outcome and is given its own
answer; a wanted network connection is never given up and its status is true; the
Bluetooth sessions see whole frames in order, and the device can be found again.

## 2. Modules

Each module says at its top which file it models; definitions keep the names of the
source where there is one, and `PROJECT.json` gives the lines of each. Definitions that
stand directly in front of another, with the same parameters and a name that says what
went wrong (`AttachAtTail`, `SemPostForgotten`), are mutated forms: replacing the real
definition by one must break a property.

* **SwTimer**: one step per section under the mutex; reading the clock, posting the
  semaphore, and entering and leaving a callback are steps of their own. Callbacks use the
  API like any thread. `OwnedByCallback` are timers that no other thread deletes.
  A timer is not used after its deletion began (the code keeps no protection for that).
  Any interval may be given, 0 included, to a cyclic timer too.
  Taking a timer off the list takes out its first occurrence, as `tuya_list_del` takes out one
  node; that there is only one is proved, not built in.
* **TalThread**: a node's life from creation to freeing; `__free_all_del_thrd_node` with
  the flag `is_self` that the loop overwrites. `Kept` walks the deletion list as the loop does.
* **WorkQueue** extends TalThread with the queue: the worker's thread really is a thread
  of the manager, and the release polls its node. A schedule is two steps (input, post).
  `tuya_queue_*` is external: a bounded queue with its own lock. The timer of a delayed
  work is abstract: it fires at any time while it is armed. Cancelling a delayed work is two
  steps, the deletion of its timer and the cancellation of its items. Nothing makes the
  release wait for callers: one between its input and its post, or a timer callback, goes on
  in the freed queue (`stray`), and its post is lost or counts in a later queue (`extra`).
  The freed memory read by a late callback, or by the release's poll, is a choice over what
  may be found there.
* **TalEvent**: look-up, then the locked part; a dispatch is one step per callback.
  `Adopted` walks the free subscribers once, as `_event_node_create_init` does, and moves the
  new event's own to the head or the tail of its list. Callbacks do not call the bus.
* **IotClient**: `tuya_iot_yield` is the copy of `nextstate` and then one or more steps of
  the state's handler; each write to the store is a step, so that `PowerCut` can come
  between any two, and each write and each deletion may fail. In `STATE_TOKEN_PENDING` the
  end of the wait, the read of the result and the freeing of the binding are steps, and so are
  the three assignments of the token event, which runs on another thread; the API calls are
  split between their test and their write. The event's callback and the subscription
  exclude each other (the event's mutex). NULL accesses that the code can reach
  (`TokenEventNull`, `TokenUseNull`, `StopFaults`) are hard faults, after which the device
  boots again. The MQTT client is reduced to its flags, the outcomes of network and cloud are
  alternatives. A stored key is readable or not; whose activation it holds is not kept. The
  event structure that threads share is data and left out.
* **MqttService**: the publish list is a real linked list (`publish_list`, `next`, `mem`),
  because appends are not atomic: reading the end and writing it are two steps, and the
  walk advances one entry per step. `Entries`, what the list holds, is the least set that
  contains the head and is closed under `next`; it needs no recursion. The two dispatch lists
  count the handlers of each topic and protocol. A handle is allocated once, so that use after
  free is visible. A dereference of NULL stops the device (`pc = "fault"`).
* **Matop**: the request list of `matop_service.c`, again a real linked list. Taking a
  number, sending and appending are separate steps of whichever thread makes the request:
  the main thread, a callback that the main thread runs, or another thread. Answers come
  early, late, twice or never; a connection that ends is destroyed with its list and the
  numbering restarts (`era` is the history of those restarts, a number that wraps at
  `IdMod` included). An expired request is told, unlinked and freed in separate steps,
  because its callback may make the next request. `raced` and `torn` record the stores of
  two threads that hid each other and the number that two threads took.
* **RequestBook** is what Matop promises: each request is open, and then answered, timed
  out or closed, once and for ever.
* **NetConnWifi**: `netconn_wifi.c`. The worker of the system work queue, the driver's
  callback, the timer's callback and the application share `conn.stat`, `conn.count`, the
  timer and the status without a lock, so each read and write is a step; only the driver's
  callback makes the state LINKUP, so that its own test for it and the message that follows
  are one. The driver is external: an attempt succeeds, fails or is never answered, an up
  station can be lost, and leaving one is always reported. The callback of a timer does not run within the
  rest of the handler that started it (the shortest pause is 1 s). `want` is the last
  request the code took: a connect in LINKUP is ignored, so that a close followed at once
  by a connect leaves the device disconnected, and a reset does not cancel a connect that
  is already queued. `count` may run one past the table of pauses, when the two callbacks
  both compare it before either increments it.
* **BleMgr**: connections, advertising, the event queue and its worker, the pairing timer,
  the monitor timer, and on the receiving side `ble_trsmitr.c` (pieces of a frame to a
  frame), decryption as readable or not, the check of the serial number, and the session
  requests that change the manager's state. An event of the stack is queued by copying its
  structure: of a write that is a pointer into the stack's buffer, which is released when the
  stack's callback returns, so that the worker finds any piece of any frame there
  (`TakesWrite`). An event that finds the queue full is lost, the initialisation and
  advertising may fail (`lost`); a cloud connection that came and went between two ticks of
  the monitor is `unseen`. A request without data, and a piece that comes while the renewed
  receive buffer could not be allocated, are accesses through NULL, after which nothing
  happens any more (`wk = "fault"`).
* **FrameLink** is what the sessions are promised of the pieces that the worker finds: a frame
  is heard when its pieces come one after the other, and is passed on when it can be read and
  is newer than all before it on the connection. That these pieces are the ones the peer wrote
  cannot be promised of this code.
* **SwTimerProof, WorkQueueProof, TalEventProof, IotClientProof, MqttServiceProof, MatopProof,
  BleMgrProof, NetConnWifiProof**: theorems about the modules they are named after.
* **MC\*** modules instantiate each module for TLC; only MCTalEvent (which event and which
  type each subscriber has) and MCBleMgr (length, number and kind of each frame) add
  definitions.

## 3. Runs

| Run | Instance | Distinct states | Shows |
|---|---|---|---|
| `sw_timer` | 2 timers (one deleted only by callbacks), 1 application thread, intervals 0 and 1, clock to 2, 3 calls | 286 948 | order of the active list, lists and counts agree, no lost wake-up, callback arguments are live, overdue timers are dispatched |
| `work_queue` | capacity 2, one delayed work, one other callback, 5 items, one worker | 283 824 | items and semaphore agree, memory outlives the worker, a cancelled work runs late once at most, the queue drains; no deadlock |
| `tal_event` | 2 threads, 1 event, a subscriber of each type, 6 calls | 80 141 | emergency first, one-time once, dispatch complete, calls return |
| `iot_client` | 3 API calls, 1 power cut | 345 438 | store and client agree, an activation has its binding, requests in the steady state are served, a started client makes progress |
| `mqtt_service` | 2 publishing threads, 2 handles, timeout 1, clock to 2 | 179 888 | list entries are live, callback at most once, one handler each, a listed publish is told of its PUBACK or its timeout |
| `matop` | main thread and one other, 2 handles, numbers modulo 3, 2 connections | 375 836 | list entries are live, none is forgotten, an answer reaches its own request, requests get their outcome, RequestBook is implemented |
| `ble_mgr` | a pairing request of 1 piece and a sealed frame of 3 pieces with the same number, queue of 2, 2 connections, at most 3 pieces collected | 2 416 760 | FrameLink is implemented, an unpaired connection is timed, the device does not rest without advertising |
| `net_wifi` | table of 2 pauses, 1 message, 1 event | 3 678 126 | a wanted connection is not stranded, the status is true; no deadlock |
| `thread_free` | 2 threads | violation | a deleted thread is not freed |
| `event_free_list` | as `tal_event`, 3 calls | violation | a subscriber is stranded |
| `iot_reset_lost` | 2 API calls, no power cut | violation | a reset is lost |
| `mqtt_timeout_unit` | 1 thread, 1 handle, 2 ms per second | violation | milliseconds are added to seconds |

**Bounds.** `MaxOps` bounds the calls of the environment, `MaxTime` the clock (which stops
there, meaning "then or later"), `MaxBoots` the power cuts. They are enough for every
action of every module to be taken, for two callers to overlap in every pair of steps, for
the queue and both semaphores to be at their limits, for a timer to be restarted, triggered
and deleted around its dispatch, for a publish to expire, be acknowledged late, or be lost
with a connection, and for a power cut between any two writes, followed by a new activation.
`MaxConnects` lets a number be used again after a reconnection; `MaxRaw` bounds the pieces collected since the
last first piece and lets the longest frame be completed, and `QueueLen` lets events meet a
full queue; with `WorkqLen` and `MaxEvents` of 1 every later message or event meets a full
queue, and with `TableSize` of 2 the pauses run to the end of the table. Larger instances
were explored by hand: the invariants of `mqtt_service` with three handles (10 million
states, incomplete); `matop` with three handles and the main thread only, for numbers modulo
3 and modulo 2, where an answer meets a number used again after a wrap (1.9 and 2.1 million,
complete), and its invariants with three handles and two threads (14 million, incomplete);
`iot_client` with two power cuts (518 157); `ble_mgr` with a third frame, a request without data
(3.6 million), and with three connections on a queue of 1 (3.7 million). None found a violation. The invariants and the action property of the passing runs are
proved without bounds on the constants (section 5), so that for them the runs only show that the
statements are not vacuous.

**Deadlock** is checked for the work queue and the WiFi connection. Elsewhere the modelled system may come to rest:
the bounds on calls and time are used up, the client waits for a user's token, or a fault
stopped the device.

**Fairness.** `sys_timer` has the highest priority and its callbacks return; a thread inside
a call is scheduled until it returns; the worker is scheduled; the application calls
`tuya_iot_yield` in an endless loop; the clock runs. Strong fairness is assumed only of what
the code retries for ever: memory for the binding, the network check, the endpoint update,
the request of an activation and the connection together (`Succeeds`), and the store of the
activation's record. In Matop the main thread runs, comes back to
`matop_serice_yield` whatever else it does (strong fairness: the loop is left only through
the other handlers of the same yield), and the clock runs. Nothing is assumed of
users, tokens, PUBACKs, answers, peers, power cuts, or of a release that polls freed memory.

**Liveness.** `DueIsDispatched`, `QueueDrains`, `CallsReturn`, `SteadyRequestServed`,
`StartedMakesProgress`, `PublishResolved` and `RequestResolved` are checked by TLC only. These
and some invariants name their exceptions, each of which the models reach:

* a failed `tuya_mqtt_init` leaves the client in `STATE_MQTT_CONNECT_START`, and nothing is
  promised of a client that waits for a token (`StartedMakesProgress`);
* a release drops the queue's items (`QueueDrains`);
* two publishing threads can cut each other's entries out of the publish list, which are then
  never told of: `PublishResolved` is promised from when no thread is about to link to an end
  that is no longer one, until two threads are about to link; it excepts a walk that meets an
  expired last entry and faults;
* `RequestResolved` and `NoneForgotten` except stores of two threads that hid each other
  (`raced`), and `OwnAnswer` a numbering that restarted or gave one number twice;
* `UnpairedIsTimed` is about connections that the manager was told of, and does not forbid that
  the late timeout of an earlier connection ends a later one;
* `Discoverable` excepts lost events, failed starts of advertising and an unseen cloud
  connection, and `NotStranded` refused messages and two races.

`DueIsDispatched` holds beside a cyclic timer of interval 0: the dispatch then never sleeps, but
that timer is re-armed at the time just read, and any timer that has become overdue by a later
reading comes before it. It needs the clock to advance between two readings at some point.

For Bluetooth the invariants stand for liveness: `UnpairedIsTimed` says that the timer, its
callback or the stack has yet to act, and `Discoverable` that the device is not at rest, so that
with the worker, the timers and the stack running the connection ends and advertising starts.

**Refinement.** `OneOutcome` (Matop implements RequestBook) and `ImplementsFrameLink` (BleMgr
implements FrameLink) are checked by TLC and proved. FrameLink speaks of the pieces as the
worker finds them. Both abstract specifications are safety
only.

## 4. Findings

1. `thread_free`: in `__free_all_del_thrd_node` (`tal_thread.c:146`) `is_self` holds the
   answer for the last node visited. A thread whose own node is followed by another one is
   unlinked, but never freed nor released; `tal_thread.h:110` promises "stop and free".
2. `event_free_list`: `tal_event_subscribe` (`tal_event.c:435`) can put a subscriber on the
   free list after its event was created; that list is only read at an event's creation.
3. `iot_reset_lost`: `tuya_iot_reset` (`tuya_iot.c:699`) writes `nextstate` while a handler
   is about to assign it: the reset is lost. `SteadyRequestServed` shows that in
   `STATE_MQTT_YIELD`, whose handler leaves `nextstate` alone, requests are safe.
4. `mqtt_timeout_unit`: `mqtt_service.c:662` adds `timeout_ms` to a time in seconds.

Met while modelling, and without a run of their own: `tuya_iot_activated_data_remove`
(`tuya_iot.c:1021`) looks at no result of `tal_kv_del` and returns success, which its comment
(1009) reserves to a removal, so that the activation may still be stored and is read back at
the next boot (`ResetDelSchema`, `ResetDelRecord`); and `tal_workqueue.c:386` documents an
interval of 0 as "immediate execution", but `tal_sw_timer_start` (`tal_sw_timer.c:410`) takes 0
as "the earlier interval".

Two faults that the models reach have no run either, because nothing in the repository
states the contrary: a token event between the read of a failed result and the freeing of the
binding (`tuya_iot.c:753`, `823`) leaves a stale OK, after which `STATE_TOKEN_PENDING` reads
through NULL (`TokenUseNull`); and a device information request that finds no memory
(`ble_mgr.c:815`) leaves the receiver without a buffer (`WriteFaults`).

## 5. Proofs

Every theorem below is about the specification that TLC checks, with its constants unbounded;
each inductive invariant was first checked by TLC as an invariant of the same instance.

**SwTimerProof**, for any timers, threads, intervals and clock, from `SwTimerAssumption`.
The properties are about the lists, and what threatens them are calls that are part-way: a
start has read the clock before it takes the mutex, a deletion has unlinked its timer before it
frees it, a callback runs after the unlock. `SwInv` therefore adds `CallInv` to them (a timer
used by a call exists; one being deleted is in use by that call only; the timer thread calls
nothing outside of a callback) and `ListInv` (no timer is twice on the active list, the two lists are
disjoint and together are the timers that exist and are not being deleted, `is_running` and
both counters follow). `AttachIs` and `UnlinkedIs` say what insertion and removal do to a sorted
list without duplicates. `NoOversleep` is inductive beside these, because every section that
changes the list leaves a post to come; the counters need the cardinality of a finite set that
gains or loses one member.

**WorkQueueProof**, for every capacity, set of threads, callbacks, data and delayed works, from
`WorkQueueAssumption` (the capacity is positive, the worker is a thread, `NULL` is neither
callback nor data). `TokensMatchItems` and `FreedAfterLoop` are not inductive alone. `IInv`
adds to them the types, `WorkerLinked` (the worker is in its loop only while its thread is in
its function, and a node in state DELETE or freed belongs to a thread that is past it) and
`ClosedIsQuiet` (no caller is between input and post of the queue at hand while there is none;
those left in an earlier one are counted apart). One lemma per
group of actions shows that it is kept; the work is in `CancelledKeepsPlaces` (a cancelled
item keeps its place), in the counting of `SemPost` at its maximum, and in `FreedIsDeletable`
(only nodes in state DELETE are freed). `AtMostOneLateTheorem` then needs what a cancellation
does to the live items of a work (`CancelledLive`): one item at most is left for the worker to
take, beside the one it may have in hand. `LateRunTheorem` is the action property that goes with
it: while the work stays cancelled nothing makes it late again, and the worker's taking of the
late item uses it up. And `WorkQueueTypes` what the walk over the
deletion list leaves on it (`KeptType`).

**TalEventProof**, for any threads, events, subscribers and number of calls, from
`TalEventAssumption`. `EventInv` is `EmergencyAhead` with the types and four parts. `Owners`: an
event's mutex is held by exactly the thread that dispatches under it, so that a list
changes only under its walker's own hand. `ListsDistinct`: no list holds a subscriber twice,
which makes "the entry after this one" well defined. `EnteredForEach`: for a one-time subscriber
the calls made and the lists it is on are together no more than the times it was entered;
`OneTimeOnce` alone is not inductive, since two nodes of one name may each hold the
subscriber. `WalksGood`: what a publisher has called is the beginning of what it found, what is
left is the end of the list as it is now, and `p` and `n` are the next two. `WalkGoesOn` shows
that this survives the removal of the entry just called. `AdoptedIs` says that at an event's
creation no free subscriber is lost and none is on both lists, and that emergency ones come
to lie in front.

**MqttServiceProof**, for any threads, handles, timeout and clock, from `MqttServiceAssumption` and
`PointersAssumption` (`NULL` and the head of the list are not handles). The list is shared
memory, so that `ListIsLive` and `ToldOnce` need a shape invariant: no live link leads to freed
memory or to an entry that its thread has yet to link (`LinksLive`), an entry hangs on one live
link (`LinksOne`), and every nonempty set of entries has one whose link leaves the set
(`Acyclic`, the form of "no cycle" that needs no recursion). `MineFresh` and `LastLinked` are
what an appending thread holds between its reads and its store; that the end it read may be
freed by then is what the code leaves open, and the reason that a store into freed memory must not
spoil the list. `Told` ties the callback to the freeing. An invariant about all entries is shown
by giving a closed set that contains them.

**MatopProof**, for any threads, entries, width of the numbers and connections, from
`MatopAssumption`. The same shape (`HeapInv`), and what makes it harder: the main thread
holds a link, the entry it tells and the entry's successor over several steps, during
which the callback it runs, and other threads, append. `WalkInv` says that what it holds stays
allocated and told at most once (`Stages`, `RootsGood`), that the links as it saw them make no
cycle whatever was written to them since (`Seen`, `SeenAcyclic`), that with a link in hand no
other leads to the entry (`HeldOne`), and that what the walk for the told entry left behind does
not lead to it (`UnlinkSkips`). `IdInv`: within one numbering the numbers given are at most
`id_cnt` and different, which `OwnAnswer` needs. All this holds until a fault; `TypeOK` and
`OwnAnswer` also after it. The refinement `MatopOneOutcome` takes the actions one by one: only
telling an entry and destroying the list change an outcome, and only an open one.

**IotClientProof**, for any number of API calls and power cuts, from `IotClientAssumption` (the
bounds are naturals). `IotInv` adds to the properties `HandlerLinked` (a handler part-way
belongs to its state, and until it ends `nextstate` is that state or a request of another
thread) and `WayLinked`: the states on the way to an activation are ahead only of a client
that is not activated, those after the token only of one with a binding. A stale wake-up can
find no binding in `STATE_TOKEN_PENDING`; it faults there, so that the states after it keep
theirs, and `BindingIsThere`, which is about `STATE_ACTIVATING`, follows.

**BleMgrProof**, for all frames, lengths, numbers and bounds, from `BleAssumption`. `BleInv`
is the types, `SubpkgOK` (what the transmitter holds as its last subpackage is the one its
number says, or the fresh buffer) and `Assembled` (when the pieces collected are the
beginning of one frame, the transmitter's counters and length are those of that frame; when
they are all of it, the counters say complete). FrameLink's `run` is mapped to the pieces
collected, its `input` to the piece that the worker found. `WriteRefines` is the core: a write that goes on with the run, begins a new one,
spoils it, repeats a piece after a complete frame, or faults is one of FrameLink's alternatives.
`OtherSteps` shows that every other action only offers an input, resets the numbers at a
connection, or stutters. `UnpairedIsTimed` needs `ConnsMade` (a new connection has a number that
is neither known nor queued). `Discoverable` needs `AdvertInv`, about the queue while no event
is lost: the stack's first event comes before any connection (`InitFirst`), without a
connection the end of every one that is queued or known is queued behind it (`BeginsEnd`,
`PeerEnds`), and there is always an advertisement, somebody who will look, or a monitor that
knows of the cloud connection it waits for (`Watched`). `PostedOrder` and `TakenOrder` say what
posting and taking do to that order.

**NetConnWifiProof**, for every table, queue length and number of events, from
`WifiAssumption` (all are positive). `WifiInv` is the types and four parts: `Counting` (which
of the callbacks has compared `count` and not yet incremented it, so that it passes the
table by one at most), `News` (the driver's unreported events end in the state of the
station), `Requests` (in REDAY and STOP a wanted connection has a message to connect, or a
thread about to post or to serve one) and `Guarded` (somebody other than the worker is about
to act, also at the points where the worker has not yet written CHECK). `NotStranded` is
not inductive without the last two, and `StatusTrue` follows from `News`. One lemma per part
of the invariant takes the actions one by one.

Two walks over a list are recursive functions (`Adopted`, `Kept`). The library's induction
theorems cannot be instantiated by the installed provers, so facts about them are proved by
least counterexample: the set of the lengths for which the claim fails, if not empty, has a
least member (`HasMin`, `LeastExists`, from the well-foundedness of `<`), and the claim at the
length before it gives a contradiction. The existence of the function is proved the same way.

Out of the prover's reach, and left to TLC: liveness under fairness and `ENABLED`, that is the
seven properties listed under "Liveness" in section 3. The four runs that expect a violation show
counterexamples and have nothing to prove.

## 6. Not modelled, and plan

By lines almost all of the repository is vendored: mbedTLS, NimBLE, lwIP, coreMQTT, coreHTTP,
cJSON and littlefs make up most of some 444 000 lines and are not the SDK's own logic, so
the share that these models map is small whatever is added. What is left of the SDK itself,
in order of worth:

1. **The network manager** (`netmgr.c`) and the wired connection: which connection is active
   and which status is published, by callbacks of several drivers that hold no lock. The
   property to check is that the published status follows the active connection. Its product
   with NetConnWifi is too large for one run; it needs an abstract connection that
   NetConnWifi implements.
2. **Unbinding over Bluetooth** as a second writer of `is_activated` in IotClient, and
   activations with an identity, so that a mixture of two can be told from one.
   **Providers of the token** (`mqtt_bind.c`, `netcfg.c`, `ble_netcfg.c`) in place of
   `TokenEvent`: a COMPLETE that another thread overwrites, a start callback after the
   provider was freed.
3. **Bluetooth, sending half and channels**: the sending number is incremented without a
   lock, the pieces of two threads' frames interleave, and the number does not wrap.
4. **Data points and LAN**: when a changed value is reported and where; sessions and their
   limits. **OTA and health**, and the work queue service as two instances of WorkQueue.
5. **Abstract specifications**: a bounded queue with cancellation that WorkQueue implements; a
   clock-ordered set of timers that SwTimer implements; a device that is bound or not, which
   IotClient implements.
6. **Proofs** of what the points above add; the thread manager alone, with any number of threads
   (which nodes are freed, and by whom, beside the finding of section 4); the client as an
   implementation of the abstract device of point 5.

Callbacks of the event bus that call the bus, the content of messages, and the parts that are
thin layers over the platform stay out.
