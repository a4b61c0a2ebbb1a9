# Verification of the communication library for critical autonomous systems

TLA+ models, TLC runs and TLAPS proofs for the C++ library and kernel module under
`src/`. Paths below are relative to the repository's library directory `src/src/`
unless they start with `src/`.

## 1. The system

A **vehicle** is a Linux node on which one gateway process and several component
processes (sensors and actuators) run. They share a System V **shared-memory ring**;
only the gateway owns a **raw-socket NIC**, bridges data frames between the ring and
the radio, and runs the clock synchronisation **SPTP**. An **RSU** is a node whose
gateway is the master of SPTP and, as a broker, tracks which units of data the
vehicles in its quadrant are interested in. A kernel module emulates a **GPS** that
moves a vehicle between four quadrants; frames from another quadrant are dropped.
Components exchange data by **interest and response**: a consumer broadcasts its
interest in a unit and a period, producers answer periodically while the interest
has a lease.

```
 application      SmartData (producer | consumer)      Interest_Tracker (RSU)
                        |  Message*                        |        ^ on_presence
 Communicator           +---------- Communicator ----------+        |
                        |  Buffer*                                  |
 Protocol               +-- Protocol::update / send ----------- SPTP_Protocol
                        |                   |                       ^ request_resync
 NIC                 NIC<SHM>           NIC<raw> -- detect_quadrant_change
                        |                   |  \
 engines        SharedMemoryEngine   RawSocketEngine -- GPS (ioctl, kernel module)
                 (ring, semaphores)    (radio, SIGIO)
```

Calls upwards are made on the receiving thread of an engine, through observers
(`notify` calls `update`); calls downwards on whichever thread sends.

### 1.1 Inventory

| Component | State | Operations | What makes it correct |
|---|---|---|---|
| `SharedMemoryEngine` (`network/engine/shared_memory_engine.*`, `shm_region.h`) | region: `next_write_seq`, `read_seq` per process, slots; semaphores `MUTEX`, `EMPTY`, one `PENDING` per process | `create`, `engine_init`, `engine_send`/`write_slot`, `read_slot`, reader loop, `engine_close` | no slot lost, overwritten unread or read unwritten; a bounded ordered broadcast; every write and close returns |
| `Clock` (`core/clock.h`) | the last stamp, an atomic | `now_ns`, `monotonic_stamp` | stamps are unique and increase, also when SPTP sets the clock back |
| `SPTP_Protocol` (`channel/sptp_protocol.h`) | `_pending_t2_ns`, `_pending_seq`, `_next_seq`, `_first_sync_done`, time of the last sync | `start` and its watchdog, `request_resync`, `send_sync_request`, `on_receive`, `adjust_clock_jump`, `stop` | a measurement pairs the timestamps of one exchange; the slave keeps synchronising |
| `Binding_Cache`, `Periodic_Thread` (`communication/smart_data/binding_cache.h`, `core/periodic_thread.h`) | bindings with expiry, one thread per unit, the reaper | `on_interest`, `on_disinterest`, `clear`, `reap_loop`, `resync_threads`; `loop`, `stop`, `set_period` | a responding thread exists exactly while somebody is bound, at the shortest period; leases end, and not early |
| `SmartData` (`smart_data.h`) | role, last quadrant seen, last value, time of the last response | `update`, `respond`, `send_interest`, `reactive_tick`, `unsubscribe`, `abandon`, destructor | every `Message` is deleted or queued once; a consumer is served while it lives |
| `Interest_Tracker` (`interest_tracker.h`) | `_presence`, `_interests`, `_active_units` | `on_presence`, `update`, `broker_tick` | announces what is wanted, withdraws what no longer is, once; forgets who left, and only them |
| `NIC` (`network/nic.h`) | pool of buffers with a free list, `_last_quadrant`, hooks | `alloc`, `send`, `free`, receive handler, `detect_quadrant_change`, `attach` | one owner per buffer; each change of quadrant is noticed |
| `Protocol` (`channel/protocol.h`) | `_instance`, the two NICs, `_sptp`, presence handler | constructor, `send`, `update`, `receive`, `free_buffer`, `enable_sync`, `disable_sync` | bridges every frame once and without a loop; buffers go back to their own NIC |
| `Communicator` (`communication/communicator.h`) | observers | `send`, `receive`, `update` | a frame becomes one message or waits for `receive` |
| Observers (`core/observers/*`) | vector of observers, queue of data | `attach`, `detach`, `notify`, `update`, `updated` | no observer is called after it is gone |
| `RawSocketEngine` (`network/engine/raw_socket_engine.*`) | socket, receiving thread | `engine_send`, spatial filter, SIGIO loop, `engine_close` | no frame stays unread; frames from elsewhere are dropped |
| GPS (`src/kernel/gps_module/gps.c`, `network/gps.*`) | quadrant, time of the last change, fixed | two ioctls | moves to a neighbour, at most every 3 s; a station does not move |
| Application (`application/*`) | processes of a node | fork, attach, run, wait, stop | processes start attached and stop in order |
| Sensors, actuators, data types, Ethernet framing, `RT_Priority`, tests | — | — | no shared state of their own |

### 1.2 What is hard

`PROJECT.json` lists 40 hazards, each at its line. The main groups:

* **Interleavings.** All processes of a vehicle meet in the ring; three threads meet in
  the binding cache, three in the tracker; both receiving threads of a gateway call the
  same `Protocol::update` and send on each other's NIC; two atomics of SPTP are stored
  and loaded one after the other.
* **Re-entrance.** `NIC::send` may call `request_resync`, which sends, in the middle of
  any send, SPTP's own request included.
* **Start and stop.** NICs receive before `_instance` and their hooks are set; processes
  attach to the ring one by one; `engine_close` and the periodic thread are joined by
  threads that others wait for; observers go while a frame is on its way to them; a
  component may die anywhere, inside the ring's critical section too.
* **Loss, delay, silence.** Requests and SYNCs get lost, come late or answer an earlier
  request; leases stand for consumers that never say goodbye.
* **Time.** SPTP steps `CLOCK_REALTIME`, on which leases, stamps and its own timestamps
  are taken.
* **Limits.** A ring of `SLOT_COUNT` slots and pools of buffers that block or drop.

## 2. Modules

| Module | Models | State and actions |
|---|---|---|
| `ShmRing` | `SharedMemoryEngine` | The region and semaphores variable by variable; a control state per writer (`wpc`) and reader thread (`rpc`). Every semaphore operation is an action (`AcquireEmpty`, `WriterLocks`, `WriterUnlocks`, `AwaitPending`, `ReaderLocks`, `ReaderUnlocks`, `PostEmpty`), what happens between P and V of the mutex is one more (`WriteSlot`, `ReadSlot`). `EngineInit`, `StartReceiving`, `StopReceiving`, `WakeReader` and `Detach` are the life cycle. |
| `FrameChannel` | the abstract specification of the ring | A log that everybody reads in order, each reader its own frames, at most `SlotCount` ahead of the slowest reader. `ShmRing` implements it (`OrderedBroadcast`). |
| `MonotonicStamp`, `StampHistory` | `Clock` | One action per access to the atomic and to the clock; the weak compare-exchange may fail for no reason. `StampHistory` holds the stamps handed out and what is said of them. |
| `Sptp` | `SPTP_Protocol`, slave and master | `calls[t]` is the stack of `send_sync_request` calls of thread *t*; one action for each store, load, send and check in the order of the code, on the sending threads and on the receiving one. |
| `BindingCache` | producer side of `SmartData`, `Binding_Cache`, `Periodic_Thread` | `Rx` (receiving thread), `Reaper`, `Thread` and the environment. Joining under the mutex is a state of its own; the ring is a bounded queue, which is what `FrameChannel` promises. |
| `InterestTracker` | the broker of an RSU | `RawUpdate` and `EchoUpdate` are `update` on the two receiving threads; `BrokerTick` is the critical section of `broker_tick`, `SendStop` and `SendRepeat` what it sends after unlocking. |
| `Quadrants` | GPS module, `NIC::send`/`detect_quadrant_change`, the filter, the start of the gateway | `Advance` is the ioctl's effect; a send asks the GPS (`Ask`) and exchanges `_last_quadrant` (`Detect`) in two steps. |
| `Service` | consumer, producer and broker together, for one unit | One step per message: what `Binding_Cache` (`ProducerHears`, `Resync`), `Interest_Tracker` (`BrokerHears`, `BrokerTick`) and a consumer (`Subscribe`, `ReactiveTick`, `Leave`, `Abandon`) do upon it, with the losses each receiver may suffer; `Tick` is the passing of time in all of them. |
| `NodeLife` | `Vehicle`, `Gateway`, `~Protocol`, `~NIC`, the SIGIO loop of `RawSocketEngine`, `notify` against `detach`, the ring in counters | `pc[t]` for the main and receiving threads of all processes; the gateway's `Fork` to `Stop`, `DetachRaw`, `CloseRaw`, `JoinRaw`, `CloseShm`, `JoinShm`, the raw thread's `Prepare`, `AwaitSignal`, `Drain`, kills by `Die` and `Terminate`. |
| `FrameBuffers` | who owns a buffer or message, from the NICs to the application | `rx[n]` is what each receiving thread does with which frame and buffer; `out[t]` the nested sends of a thread; one action per hand-over. |

`MC*` modules give the model values and sets for TLC. Modules compose through
their abstractions: `FrameChannel` is proved of `ShmRing` and assumed, as a bounded
queue, by `BindingCache` and `FrameBuffers`; that a change of quadrant leads to a request,
checked in `Quadrants`, is one atomic step in `Sptp`, which looks at the request
instead. `Service` takes from `BindingCache` that bindings, thread and period agree
whenever a handler is done, and from `InterestTracker` that a vehicle which stays is never
taken for gone (its `RequestSync` only has to refresh the presence). `NodeLife` takes
from `ShmRing` that its counters say what the ring holds, and adds what `ShmRing` leaves
out: kills, the threads beyond the ring, and the order in which a vehicle is taken down.

Data is abstracted to what properties distinguish: a frame is the thread that wrote it
and a number, a timestamp is the request it was taken for and the epoch of the clock
(`Sptp`), a lease is the ticks it has left. `PROJECT.json` (`map`) names for every
definition the lines it stands for.

## 3. Runs

| Run | Instance | States | What it shows |
|---|---|---|---|
| `ring` | gateway and one component, a writing thread each, 2 slots, 2 frames per writer, everybody may close | 52 k | slot accounting, integrity of unread slots, exact counters, mutual exclusion, refinement of `FrameChannel`, delivery, closing; a writer waits for ever only for a reader that left |
| `stamps` | 3 threads, 2 readings, 3 stamps | 44 k | unique increasing stamps, never behind the clock read, lock-freedom |
| `sptp` | watchdog and one forwarder, two quadrants with an RSU each, one move, outliers at any exchange, loss, delay | 570 k | silence is bounded; a parked vehicle pairs right and in one epoch; it synchronises infinitely often, unless outliers never end |
| `cache` | two consumers, two periods, a ring of one slot, three frames, a move, a clock step | 1.35 M | the thread follows the bindings; leases; silence after the last interest; handlers return, except in one jam |
| `tracker` | two vehicles, two units, a loss, two moves, two messages | 1.9 M | presence and interests agree; announcements and withdrawals agree with what is active |
| `quadrants` | two senders, three moves, five frames | 118 k | no missed change, no lasting confusion, bounded requests |
| `service` | two consumers that want a response every tick and every fourth, quadrant with or without an RSU, one loss or move | 2.3 M | bounded waiting, fresh values, an end to responses nobody wants |
| `life` | two components, a ring of one slot, two frames, one failed fork or kill | 1.0 M | no lost wake-up of the raw thread, one late update at most, ring removed last, shutdown ends |
| `buffers` | one frame of each kind, pools of two, a ring of one slot, vehicle gateway, RSU and component process | 140 k | ownership of buffers and messages, bridging without loop, no blocking |

Three more runs end in a counterexample; section 6 explains them. `TypeOK` is listed in
`ring`; the other modules' types are part of what section 4 proves.

**Bounds.** Two slots and two frames per writer make four frames on two slots: every
slot is reused, with a writer waiting and one just woken; one more process only
repeats the role of a component, which the proofs cover for any number. Pools of two
buffers are exhausted by receive, forward and nested request together. A request with
one nested in it needs one move; crossing exchanges need two senders and two moves.
In `tracker` the lease is three ticks, the repeater's period two, requests come every
one or two ticks, so that each order of lease end, tick and request occurs; two moves
let a vehicle leave and come back while a message of its first stay is still queued. The
bound `SeqMod` of sequence numbers exceeds the number of requests on their way; one of
`MaxMoves` is enough for a request nested in another, and outliers have no bound. In `cache`
a ring of one slot is full with the first frame: an interest starts the periodic thread, the
next message is handled while a third frame fills the ring before the thread sends, so that
both the handler and the reaper meet a thread that waits for a slot. In `service`
a tick is half a second and refresh, repeat, leases and reaper have the code's values (1 s,
1.5 s, 3.5 s and 4 s, 1 s), so that the fast consumer's lease runs out while it is served,
and the slow one's long after; `MaxFaults` 1 loses a message to the
producer, the broker or a consumer, or moves one. In `life` a ring of one slot is full
with the first frame, and two frames make one arrive during or after the drain of
another; a single kill reaches every place of a component, its critical section
included. Where a run says `CHECK_DEADLOCK FALSE`, the system really stops: senders have
finite work (`ring`, after everybody closed; `buffers`), the vehicle has ended (`life`), or
the component is jammed in a join (`cache`, section 6).

**Three premises on timing.** `Sptp` lets a request and its SYNC take `MaxDelay` ticks,
less than `Poll`, the second between two polls: an answer that takes longer than a poll
can meet the early `t2` of the next request before its `seq`, a window the code leaves
open (section 6). `InterestTracker` counts a presence period of `SyncPeriod` plus one
`Poll` per lost request, as `max_silence` and the poll of the watchdog give it. In
`Service` a message is handled in the tick in which it is sent, and a vehicle that leaves
does so `Ages` ticks after its last request.

**Fairness.** Threads that can run do run (weak fairness): the service threads have
real-time priority and never wait for lower ones except through the modelled locks.
System V semaphores wake waiters in order, and two threads alternate on `_mtx`, hence
strong fairness for an action that waits for a semaphore or for `_mtx` (`ring`,
`cache`, `buffers`). In `life` every thread is weakly fair, waits included; nothing makes a
component leave or fail, a fork fail or a frame arrive. `sptp` assumes that a network that gets requests and
SYNCs through again and again does so for those of the slave (strong fairness of
`MasterReplies` and `RxSync`) and that the pool has a buffer for the request now and
then (strong fairness of `StampFrame`), and `LockFree` that the weak compare-exchange does not
fail spuriously for ever; no run assumes that frames are not lost, that the vehicle stays
or that outliers end. The liveness properties that the code keeps only up to a case say
so in their formula: `KeepsSynchronised` (outliers for ever) and `HandlerReturns`, with
`EventuallySilent` (`Jammed`).

**Why these properties.** Each has a mutant in `PROJECT.json`: a plausible slip in one
operation (a `<` for a `<=`, a missing wake-up, a mutex released before the join, a
store left out), upon which TLC finds the property violated.

## 4. Proofs

Checked by `tlapm` for every value of the constants that satisfies the modules' named
assumptions, which TLC evaluates in every run: finitely many processes, writers and
senders (the watchdog among the senders), at least one slot, at least one
consumer and finitely many, none of them the RSU, positive periods, pools that
share no buffer, and threads that either receive or only send. A theorem that needs more
names it as a premise. Bounds (`Max...`, `SeqMod`, `EpochMod`, `Horizon`) are arbitrary.

**`ShmRingProofs`**

* `TypeAndMutex`: `TypeOK` and `MutualExclusion`. `TypedInv` strengthens types by
  `MutualExclusion` (the mutex semaphore and the threads inside the region add up to one)
  and by `SendBound` (a thread that is sending has not used up its bound). No assumption
  on the start.
* `RingSafety`: `SlotsConserved` and `UnreadIntact`, if nobody sends before everybody is
  attached (`StartupBarrier`). The accounting (free slots, slots claimed by writers,
  frames not read by all, slots whose reader still owes V(EMPTY) are `SlotCount` together)
  is inductive only with `ControlInv`, which relates control states, history and the
  region: the attaching order (`StartInv`), the log against `nextWriteSeq` (`HistoryInv`),
  which reader owes V(EMPTY) (`OweInv`), and that a process without a thread reads nothing
  (`ThreadInv`). From it follows that at most `SlotCount` frames are unread, hence two
  unread ones never share a slot (`IndexDistinct`).
* `RingImplementsChannel`: `OrderedBroadcast`, the refinement of `FrameChannel`, and
  `PendingCounts`: `PendingExact`, under the same premise. Both add `ReaderInv`: the
  pending counter, with the wake-up a reader has just consumed, is what is published and
  not yet read, and a thread holds a copied frame only between reading it and handing it
  over. Each step maps to `Publish`, `Take` or a stutter.
* `BarrierSuffices`: `ReadsPublished`, which the run `ring_lap` refutes without a barrier.
  The barrier, which the code lacks although the repository's README describes one, would
  be enough.

**`SptpProofs`**

* `WatchdogAsks`: `SilenceBound`, for any timing, forwarders and quadrants. `Silenced`
  makes it inductive with the ticks left to the next poll: since the last request no more
  than what is gone of the poll, or a synchronisation so recent that `Silence` is not
  exceeded before the next poll looks at it.
* `ParkedMeasuresRight`: `RightWhileParked`, if `MaxDelay < Poll`. While no move has
  happened only the watchdog sends (`OnlyWatchdog`), so one frame at most is on its way,
  and its age and the rest of the poll are `Poll` together (`OneFrame`): at the next poll
  nothing is left that could meet the early `t2`. `Prepares` and `Measures` say at which
  step of the two threads `t2`, `tx_ts` and `seq` belong to the pending request and the
  present epoch. The premise cannot be dropped: with `MaxDelay = Poll` TLC finds a late
  SYNC between the two stores of the next request.
* `StampsUnique`, for the clock that SPTP and all others read (`MonotonicStamp`): stamps
  strictly increase in the order of the exchanges and are never behind the clock reading
  they were made from, for any threads and integer readings, forward or back. `StampInv`
  adds that the atomic holds the largest stamp so far.

**`BindingCacheProofs`**

* `CacheConsistent`: `ThreadFollowsBindings`. The inductive `IInv` adds what holds while
  the mutex is taken: who holds it is at a join (`Holder`, `Joining`), and the thread
  being joined was told to stop and the bindings are empty (`Ending`); `Messages` types
  the frames on the ring.
* `LeasesEnd`: `LeaseBounded`. `Aged` says that age and rest of a lease are its lifetime
  together, and that a lease that ran out is at most as long over as the reaper has slept.
* `InterestsLast`: `InterestKept`, for consumers on other vehicles (`Local = {}`): the
  quadrant of a local frame is one nobody has set and may clear the cache (section 6).

**`InterestTrackerProofs`**

* `InterestsHaveLeases`: types and `RegisteredArePresent`; inductive as they stand,
  because each update sets presence before interests, under one lock.
* `BrokerTellsTheActive`: `ToldWhatIsActive`, with the repeats still to be sent a part of
  what is active.
* `GoneAreForgotten` and `OnlySilentAreDropped`: `ForgottenInTime`, `DropsOnlySilent`.
  `Timed` compares the tracker's age of a presence with the true silence: they differ
  only while a message of the vehicle waits for a receiving thread, and an age beyond the
  lease is at most what the repeater has slept.
* `NobodyTakenForGone`: `NeverTakenForGone`, if requests come within the lease
  (`SyncPeriod <= Lease`, `Poll <= Lease`; in the code 3 s, a silence of two and a poll, against 4 s).
  `Staying`: age and time to the next request stay within the lease.

The attempt to prove `DropsOnlySilent` showed that it was too strong: with two moves a
vehicle can be dropped while an interest of it waits for the second receiving thread, which
the smaller instance did not reach. The property now names that case, and `tracker` has the
second move.

**`QuadrantsProofs`**

* `EveryChangeAnswered`: `NoMissedChange`; `LatestCompared`: `LastIsLatest`. `Answered`
  looks at the quadrants in use, `_last_quadrant` and those the sends in progress hold:
  the last sample is among them or a request is on its way, and while a change is due two
  of them differ, so that one of the exchanges to come must notice it.
* `RequestsEnd`: `ResyncsBounded`, with the potential `Owed`: two requests for each stale
  send and one if `_last_quadrant` is stale, except when all are. No step raises the
  requests made plus `Owed` but a move, by at most `PerMove`.

**`FrameBuffersProofs`**

* `BuffersHaveOneOwner`: `BuffersOwned`, and `LossesEnd`: `LostOnlyEarly`. `Sole`: a buffer
  is free once, or with one thread, one send or one place of the queue, or lost; every
  step takes, hands on, frees or leaves alone each buffer.
* `MessagesHaveOneOwner`: `MessagesOwned`, and `NoFrameLoops`: `BridgedOnce`. `Placed`: a
  frame comes to each receiving thread at most once, counting media, ring and echo
  (`Media`); what a thread forwards it has taken and not forwarded before (`Work`); the
  live messages are those in hands and in the inbox, each of its own frame (`Messages`).

**`NodeLifeProofs`**

* `RingRemovedLast`: `RingOutlivesUsers`. `Joined` says what the place of each main thread
  implies for its receiving threads, and the gateway's for the components.
* `AtMostOneLateUpdate`: `OneLateUpdate`; `Once`: whoever is attached or about to be called
  has had no late update.
* `RawThreadIsWoken`: `NoLostWakeup`; `Awake` adds that nothing counts as arrived behind
  the blocked signal before it is blocked.

**`ServiceProofs`**, for any finite set of consumers with any positive periods, any
timers and leases, with or without an RSU. All three start from `Basis`: timers are within
their bounds, a lease is for a period somebody asks for, and a response is due exactly
while there is a lease. For each handler a lemma says what it does to leases and clocks
(`Hearing`, `Sending`, `Reaping`, `Ticking`, `Broadcasting`, `Responding`); the invariants
only use those.

* `ResponsesEnd`: `StopsInTime`, without premises. Three timers follow each other, and
  one conjunct bounds each: of a vehicle outside that the broker still has, presence and
  rest of the broker's period are within lease and period (`Gone`), so a lease is granted
  no later than that after the last need and `unwanted` plus what is left of it is bounded
  (`Ending`); and no lease is over for longer than the reaper's round.
* `SilencesEnd`: `SilenceBounded`, if `Refresh <= LifetimeMin` (in the code 1 s and 3.5 s):
  a consumer that asks is then served until its `reactive_tick` looks again. `Wakes`: its
  silence, or the time since it came or lost a message, plus the time to that look is less
  than two refreshes, or its own lease lasts until then. `Answered`: the next response, if
  one is due, comes within the limit. A response thread that starts anew responds at once.
* `AnnouncedStaysFresh`: `StaysFresh`, if a lease outlasts one announcement more than may
  be lost (`Outlasting`) and `TtlFactor` is at least 1 (3 in the code). Of the faults still
  to come each is worth an announcement's time (`Spare`). `Fresh`: either the announcement
  that gets through is still to come within that time, or a lease with a period no longer
  than the consumer's lasts beyond it (`Covered`) and the response thread's present sleep
  ends in time. `Outlasting` bounds the losses: with leases of 3.5 s and the 1.5 s of the
  run, one announcement may be lost, with 1 s two; the RSU's period is a kernel argument
  (`rsu.cpp:17`). It cannot be dropped: with two announcements in a row longer than the
  shortest lease (`LifetimeMin` 4, `Repeat` 3, one loss) TLC finds a value that expires.

The proof corrected the property: `Settling` allowed for one announcement, which is enough
for the one loss of the run, but each loss costs an announcement. It is now
`MaxFaults * Repeat + LongestPeriod`, the same number in the run.

**Only model-checked.** Liveness (`EverythingDelivered`, `WedgedOnlyByLeavers`,
`CloseReturns`, `LockFree`, `KeepsSynchronised`, `EventuallySilent`, `HandlerReturns`,
`ReceiversReturn`, `ShutsDown`), which needs fairness and ENABLED, out of TLAPS's reach.
Every safety property that a passing run checks is proved.

## 5. What is not modelled

* Contents of frames, serialisation, statistics, printing; `RT_Priority`; sensors and
  actuators. Failing system calls other than `fork`.
* Offset arithmetic and smoothing of SPTP: a measurement is right or mixed.
* What is undefined behaviour as soon as it happens, so that no property of the code could
  hold: `disable_sync` while the receiving thread is about to call `on_receive`
  (`protocol.h:195`, `:309`), `set_presence_handler` while it calls the old one
  (`protocol.h:188`, `:400`), an update of an observer that has been destroyed. `NodeLife`
  counts the updates that begin after a `detach` and takes `disable_sync` as part of `Stop`.
* `Binding_Cache`'s destructor, and a `Communicator`'s, which run after their `SmartData`
  has detached itself; the outer process of a vehicle, which waits for the gateway's.
* `Service`: a consumer without automatic refresh (three interests and no more), the
  clearing of the cache upon a change of quadrant (in `BindingCache`), a producer that
  moves, more than one producer.
* `NodeLife`: the critical sections of `engine_init` and `engine_close` are one step each,
  and a gateway that is killed is not awaited by anybody. As in `ShmRing` under its premise,
  nobody writes before all have attached.
* `BindingCache`: more than one unit (units share only the mutex); the reaper reads the
  clock in the step in which it takes the mutex; at most one response per tick.
* `FrameBuffers`: at most one send nested in another; one observer per port. Two
  `SmartData` on one `Communicator` would both delete the same message and two
  `Communicator`s would both free the same buffer; the programs of the repository
  create one of each per process.

## 6. Divergences found

Runs that end in a counterexample (`findings` in `PROJECT.json`):

* `ring_lap` — a process that attaches after frames were written sets `read_seq` to
  `next_write_seq` but keeps the pending counts of the frames it skips; from then on it
  reads slots ahead of the writers.
* `sptp_nested` — the request nested in the send of another leaves the `t2` of the outer
  with the sequence number of the inner.
* `station_moves` — an RSU's GPS may move it between the start of reception and
  `enable_sync`.

Seen while modelling and without a run of their own:

* Slots of frames written before a reader attached have no last reader and are never
  freed; `README.md:112` of the repository speaks of a startup barrier that the code
  does not have.
* With a full ring the receiving thread, which alone can free a slot, waits in the handler
  of a disinterest or of a change of quadrant for the periodic thread, which waits for a slot
  (`binding_cache.h:125`), or for the mutex under which the reaper waits for it. There
  `stop()` does not return quickly, contrary to `periodic_thread.h:14` ("stop() retorna
  rapido"), and the component handles nothing any more. `Jammed`
  is this state; `cache` reaches it from both sides, and `HandlerReturns` shows that it
  is the only case in which a handler does not return.
* An offset of `MAX_OFFSET_NS` (`traits.h:65`) or more is discarded without correction
  (`sptp_protocol.h:175`), so it is met again at every exchange: a slave whose clock is
  that far away asks at every poll and never synchronises. `KeepsSynchronised` names this
  case.
* The ring stops for good once a process that has closed is the one with most frames to
  read, and then the gateway's shutdown waits too (`Wedged` in `NodeLife`); a kill in the
  critical section does the same at once. No fault is needed for the first: a component
  that ends earlier than the others is enough.
* A frame between `F_SETOWN_EX` and the signal's being ignored (`raw_socket_engine.cpp:102`)
  ends the gateway, SIGIO's default action; `Arrive` has it. A frame between `O_ASYNC` and
  `F_SETOWN_EX` waits in the socket for the next one.
* `detach` does not wait for a notification that has copied the list before, contrary to
  `smart_data.h:79` ("para de receber primeiro"): one update may follow, upon a `_cache`
  or a `_socket_nic` that is gone (`OneLateUpdate`).
* `set_period` takes effect after the sleep that is under way (`periodic_thread.h:51`), so
  a fast consumer that joins a slow one waits for the slow one's period once.
* A consumer that hears responses does not repeat its interest, so its lease at the producer
  ends while it is served; without an RSU it falls silent for a refresh and is bound anew.
  The gap is bounded (`SilenceBounded`).
* A consumer that ends without a disinterest while its vehicle stays in the quadrant is
  never forgotten by the broker, whose leases are those of vehicles (`interest_tracker.h:107`):
  the unit is then produced for nobody. `StopsInTime` speaks of what is neither wanted nor
  registered. Likewise the last disinterest of a component may still be on the ring when
  the gateway stops.
* The gateway writes as `GATEWAY_WRITER` but compares with its slot 0, so it reads its
  own frames back (`shared_memory_engine.cpp:349`), and the broker handles every radio
  frame twice; `BridgedOnce`, `MessagesOwned` and `RegisteredArePresent` hold
  nevertheless. The model has these echoes.
* A SYNC handled before `send_sync_request` returns is followed by the late store of
  `t2`, which arms the answered request again (`sptp_protocol.h:253`); the request's
  own `seq` protects a parked vehicle. A SYNC later than the next poll can be measured
  with the next request's `t2`. After a move with a forwarding thread, a measurement
  may contain a step of the clock.
* `INITIAL_RETRY_MS` is not used: before the first synchronisation the watchdog asks
  every second, not every 250 ms (`README.md:123`).
* Leases run on `CLOCK_REALTIME`; a step by SPTP lengthens or shortens them.
* The quadrant byte of a local frame is not written by the shared-memory NIC, and a
  producer that reads a new value clears all bindings (`smart_data.h:98`).
* Buffers that arrive between the construction of a `Communicator` and the attachment
  of its `SmartData` stay queued, and a component that never calls `receive` keeps all.

## 7. Plan

1. *Done.* The models, complete but for section 5, and the proof of every safety property
   that a passing run checks.
2. *Next, proofs.* That a request of `Quadrants` is the one `Sptp` enters, which is a step
   of one and an action of the other without a common state so far.
3. *Runs.* A second instance of `ring` with two components, if it adds a behaviour.
