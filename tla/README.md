# SpaceShield in TLA+

A TLA+ development of the concurrent core of SpaceShield: models of its data
plane, TLC configurations that check them on small instances, and TLAPS proofs of
what matters most for instances of every size. Paths are relative to the
repository; `core/` stands for `src/backend/src/satcom_core/`. `PROJECT.json`
maps each definition to the lines it models, and lists runs, hazards and
theorems.

* `tlc -config X.cfg M` checks module `M` under `X.cfg`.
* `tlapm M_proofs.tla` checks the proofs of a proof module.

## 1. The system

SpaceShield receives antenna samples, decides whether they are jammed or spoofed,
and streams the verdict to an operator. Samples go through a chain of numeric
stages (covariance, MVDR nulling, correlators, tracking loops, classifier); worker
threads run the stages in lockstep; the results go through shared memory and ring
buffers to a web gateway, whose clients are the consoles. Beside it run a process
supervisor, a small cluster (configuration mesh, vote collection, failover) and
a ledger of incidents. The numeric stages are floating-point and sequential; what
is hard to test is what lies between them, and that is what is modelled.

    samples -> worker threads --HybridBarrier--> layer -> layer -> frame boundary
                   |  SubsystemSyncCoordinator       (swap, energy mode, hooks)
                   |                                          |
        FusionRingBuffer <- ingest_compute_stride      SharedTelemetryBus
                   |                                     |            |
        dispatch_pending_telemetry                 pop_telemetry   read_latest
                   |                                (consumers)     (viewers)
        client queues <- broadcast <- telemetry_queue <- display_loop <- harness
                   |
             WebSocket send loops -> consoles

    harness: source -> iq_queue -> workers -> log_queue -> logger -> incident file
    bench:   sweep -> judgement -> filter -> command ring -> registers -> read-back
    ledger:  deployers, rotator, compactor (one file, no lock)

### Inventory

| Component | State | Operations | What is hard | What makes it correct |
|---|---|---|---|---|
| Shared telemetry bus, `core/ipc_shared_bus.py` | ring of entries, `write_index`, `read_index` in shared memory | `write_telemetry`, `pop_telemetry`, `read_latest` | no lock; copy after the claim; no full check | records whole, popped once, in order, all popped |
| Hybrid barrier, `core/subsystem_sync_coordinator.py` | arrival count, generation, condition | `wait` | spin without the lock, then sleep; reuse | nobody overtakes, is lapped, or sleeps through a release |
| Sync coordinator, same file | arrival times, pending swap, frame counter, mode, hooks | `exit_layer`, `register_buffer_swap`, boundary, stop event | boundary after the release; unlocked fields; leaving at the head of a frame | lockstep, nobody past the next frame's first layer during the boundary, swaps in order, nobody stranded but in the frame others left |
| Energy orchestrator, `core/energy_aware_orchestrator.py` | mode, configuration | polling daemon, shutdown | stale charge, thresholds | one shift per swing of the charge |
| Fusion state machine, `core/phase58_fusion_supervisor.py` and its detectors | state, four persistence counters | `process_stride` | counters not reset together | the state changes after enough strides in a row, and only then |
| Delivery plane, `core/phase59_...supervisor.py`, `fusion_ring_buffer.py`, `telemetry_dispatcher.py`, `hardened_websocket_runtime.py`, `telemetry_backpressure_guard.py` | ring, pointers, client queues, counters | ingest, dispatch, broadcast, register, unregister, pop, shutdown | overflow in two places, clients that come and go | losses counted once, order kept, alerts survive |
| Lock-free fusion ring, `core/lockfree_fusion_ring_buffer.py` | ring, per-slot flag, sequence counter, `read_ptr` | `push` by many threads, `pop_batch` | stalled writer, two writers of `read_ptr` | none popped twice, a loss is counted, all drained |
| Hardware harness, `core/spatial_hardware_harness.py`, `parallel_hardware_harness.py` | two queues with task counts, running flag | source, workers, logger, `execute`, stop, interrupt | joins at shutdown, exceptions that skip `task_done` | the run ends, and its last line is true |
| Gateway and console, `core/dashboard_api.py`, `src/frontend/app.py` | queue, client table, connections, last frame | display loop, broadcaster, handlers, send loops, reconnection | freshest-only drain, pop before send, identifiers that come back | verdicts in order, no queue left behind, the console ends up live |
| Ledger, `src/scripts/secure_ledger_rotator.py`, `compact_worm_ledger.py`, `secure_model_deployer.py` | active file, files set aside, archives | append, rotate, compact | three processes without a lock, crash or failure between steps | no incident lost, one chain |
| Mitigation loop, `core/live_bench_rf_validation.py`, `mitigation_hysteresis_filter.py`, `sdr_register_actuator.py`, `sdr_register_feedback_monitor.py` | action history, command ring, registers, pending write | a stride; the operator's push and clear; acknowledgement | windows in a ring, a queue at its limit, announcements that restart the clock | hysteresis, a decided reduction is written unless called off, a pending one is cleared or reported |
| DMA ring, `core/dma_descriptor_ring.py` | two planes and their flags | push, pull | plane freed before it is used | not modelled |
| Configuration mesh, votes, failover, `core/cluster_*.py` | log, term, role, ack counts, heartbeats | propose, append, timeout, collect, switch | lost and late messages | not modelled, see section 5 |
| Supervisor, `core/space_shield_supervisor.py` | children, restart counts | spawn, monitor, teardown | signal during a spawn | not modelled, see section 5 |

`PROJECT.json` lists every component with what is left out of it and why, and 40
hazards at the line where each bites: 30 are covered by a property of a run, and
the others say why none covers them.

## 2. The modules

| Module | Models |
|---|---|
| `RecordQueue` | what the bus promises: a FIFO queue shared by its consumers |
| `TelemetryBus` | the bus, each call split at every access to shared memory |
| `PhaseBarrier` | what the barrier promises: nobody leaves a phase before all have entered it |
| `HybridBarrier` | `HybridBarrier.wait`, spin, sleep and all |
| `EnergyOrchestrator` | the governance daemon and the battery it watches |
| `SyncCoordinator` | worker threads, master, swaps, hooks; extends `EnergyOrchestrator` and runs beside it |
| `Debounce` | what a debounced output promises: it follows what was asked for often enough in a row |
| `FusionSupervisor` | one stride of the fusion state machine, as functions |
| `ClientQueue` | the bounded priority queue, as operators on one client's queue |
| `TelemetryDelivery` | fusion ring, dispatch, broadcast, clients; extends `ClientQueue` and `FusionSupervisor` |
| `FusionRing` | the lock-free ring, each unlocked access a step |
| `SampleHarness` | both hardware harnesses: source, workers, logger, `execute` |
| `Gateway` | from the harness's display loop through the gateway to the console; extends `ClientQueue` |
| `Ledger` | deployers, rotator and compactor over one file |
| `MitigationLoop` | a bench stride, the filter, the command ring, the monitor |
| `CommonLemmas` | lemmas about positions modulo a ring's size, least numbers, sequences put together, folds |
| `*_proofs` | the theorems about the module of that name; `BarrierRing_proofs` those about `HybridBarrier` and `FusionRing`, `GatewayLedger_proofs` those about `Gateway` and `Ledger` |
| `MC_*` | instances for TLC |

### TelemetryBus

One producer, a set of `Consumers` and a set of `Viewers`. `write_telemetry` is
`WriteFirst`, `WriteLast`, `Publish`; `pop_telemetry` is `LoadReadIndex`,
`FindEmpty` or `FindEntry`, `Claim` or `LoseClaim`, `CopyFirst`, `ReturnRecord`;
`read_latest` is `LoadLatest`, `CopyFirst`, `ReturnLatest`. An entry has a first
and a last part, so a copy that mixes two records is visible; both carry the
record's number. Stores become visible in program order, as on x86, and
compare-and-swap is atomic. A consumer may die at any point of its polling
(`Crash`), with a claim it will never return or without one. `written`, `taken` and
`pos` count without wrapping; no guard of `Next` reads them but the bound.

The code never compares `write_index` with `read_index` before it writes, so what
the bus delivers depends on how fast the producer is. Two assumptions are named,
and neither is in the code:

* `NeverFull`: fewer than `RingSize - 1` unread records. This is what one expects
  to be enough; run `bus_lapped` shows that it is not, because a consumer
  claims before it copies.
* `Paced`: also no call in progress is older than one turn of the ring. Under it
  everything holds. `DeepRingDelivers` shows that a ring deeper than the whole
  recording needs neither: `src/tests/ipc_sync_verifier.py:144` uses 8192 slots
  for that reason.

### HybridBarrier

One `pc` per thread: outside, spinning, drowsy (the spin has expired, the lock is
not taken yet), asleep, woken, and the last arrival's way through the lock
(`ArriveLast`, `Open`, `NotifyAll`). The spin's length is a real-time matter: a
spinner may give up at any time (`SpinExpires`). `MaxWaits` bounds the number of
uses. `ledBy` records which generations have had their master.

### SyncCoordinator and EnergyOrchestrator

Every worker of `Threads` runs `NumFrames` frames of `NumLayers` layers. The
barrier is abstracted here to what `HybridBarrier` is shown to implement: count,
generation, and a leave action (`ArriveEarly`, `ArriveAsMaster`, `Leave`). The
last arrival is the master; it does its bookkeeping after it has released the
others: `Measure`, whose result only the closing report reads, and at the last layer
one action per unlocked access: the pending swap, its application, its clearing, the
flip of the registry, the mode, the hooks, the counter. `RegisterSwap` is another
thread's call at any time. `Stop` sets the event that the loop of
`dsp_pipeline_worker` tests at the head of a frame; a worker that finds it set leaves
(`Quit`), and the barriers still count it. The daemon's actions and the moves of the
battery interleave with all of it.

### TelemetryDelivery, ClientQueue and FusionSupervisor

`Ingest`, `Dispatch`, `Broadcast`, `Register`, `Unregister`, `ClientPops` and
`Shutdown` are one action each, since the ring has a lock and the rest runs on one
event loop without an await in between. `Push` is the whole overflow policy as a
function on a queue with its counters. `Dispatch` offers each record of a batch to
each client and counts congestion; `Broadcast` also moves the queue's counters
into the totals. `offered`, `delivered` and `folded` are history and start anew
with each registration.

A stride goes through `FusionSupervisor` before it is ingested: what the
floating-point detectors say of it (`Sights`) is chosen, and what
`process_stride` makes of that, and of its persistence counters, is not. A stride's
frame is critical when the state machine is in its critical state.

### FusionRing

`push` is a claim under the sequence's lock, a look at `read_ptr`, perhaps a load
and a store of the drop counter and a move of `read_ptr`, then the mark and the copy;
`pop_batch` is a load of `read_ptr`, one copy, and a load and a store of `read_ptr`.
`read_ptr += count` and `drop_counter += 1` are two steps each, so updates can be
lost. The two compiled routines are one step each: they run with the
interpreter's lock held. A consumer never waits for a slot that is being written,
it just stops there.

### SampleHarness

The two harnesses differ in who stops whom, where `task_done` is called and who may
be missed by the joins; `setup` chooses the harness and its source at the start.
A queue is its length and its unfinished tasks, which is what `Queue.join` waits
for. A block is quiet, raises an incident or fails. `Returns` names every way in
which `execute` does not come back:

* parallel: a block that fails keeps its task for ever, so `iq_queue.join` hangs;
* spatial: the producer is not joined, so its last block may arrive when all workers
  have left;
* spatial: `write_certin_compliance_log` reads `in_ratio_db`, which the features of
  that harness lack. The `KeyError` is swallowed together with `task_done`: no incident
  is ever written, and `log_queue.join` never returns once one was queued;
* both: the logger may leave before a worker has queued its last incident.

`EndAccounts` says what the closing report is worth when `execute` does return.

### Gateway

A coroutine's step runs from one await to the next. A connection has a handler, a
send loop that keeps the queue object it found when it started, and a wire; an
identifier, host and port of the peer, may come back while its predecessor's
handler has not yet finished. That handler then unregisters its successor's queue,
and the successor starves until the console gives it up. Frames of `/stream` have no
`threat_state`, so to the client queues none is critical, and a full queue refuses the
newest.

### Ledger

A file keeps its identity when its name changes, so a process can write to a ledger
that has been set aside. Each call of the operating system that changes a name or a
file is a step, and after each a keeper may crash or fail; the compactor then
renames what it set aside back over the ledger, and the rotator may fail to read the
last hash and goes on from the all-zero one (`MissHash`). Emptying the ledger and
writing its first entry are one step, an entry is written whole, and the names of what
is set aside are taken to be unique.

`overlapped` and `undisturbed` are history: which appends met a keeper, and whether
anybody met anybody. `NothingLost` and `ChainUnbroken` are about crashes, failures and
later runs. They excuse what three processes without a lock do to each other, two
deployers that fork the chain or an append to a file just set aside: the code does
lose incidents there, and the model shows only that it loses them nowhere else.

### Debounce and MitigationLoop

`Sweep` is a whole stride: it judges, filters, pushes the rate's command, drains the
command ring into the registers under the interlock and the minimal interval, and
looks at the acknowledgement. Time is kept as ages and passes between strides. The
ring has no full check: when its write index meets the read index it is empty. The
interlock is read once for each batch, so a command queued behind the one that locks
is still written. `FusionSupervisor` and the filter implement the same `Debounce`.

A command can be swallowed, by a ring that comes round or by the interlock.
`ReductionSettles` says that a decided reduction is written all the same, since the loop
pushes it anew in each stride (`ReductionIsWritten`), and that a row of the monitor does
not stay pending for ever, although each stride restarts its clock
(`PendingIsReported`). It does not say that a swallowed command is noticed: the monitor
is meant "to confirm command completion" and "Check if readback matches requested value"
(`core/sdr_register_feedback_monitor.py:5`, `:50`), but line 51 compares the register
with its acknowledgement and knows no requested value. When the hardware has acknowledged
the old rate, a command that was never written is reported clean in the stride that
announced it.

## 3. The runs

Bounds are the CONSTANTS of each cfg. State counts are distinct states.

| Run | Instance | States | Shows |
|---|---|---|---|
| `bus_paced` | 3 slots, 5 records, 2 consumers, 1 viewer | 439 902 | whole records, newest, each once; implements `RecordQueue`; all popped but what a dead consumer held |
| `bus_lapped` | same, never full but not paced | - | `PoppedOnce` is violated |
| `barrier` | 3 threads, 3 uses | 877 | no lapping; implements `PhaseBarrier`; everyone leaves |
| `coordinator` | 3 threads, 2 layers, 2 frames, 2 swaps, levels 19, 22, 26, 2 swings | 1 333 308 | lockstep, nobody past the next frame's first layer during the boundary, swaps in order, no flapping, workers finish, leave or are left behind in a named place |
| `coordinator_swap` | 2 threads, one charge level | - | `LastSwapHonoured` is violated |
| `delivery` | hysteresis of 2, ring of 2, batches of 2, queue of 2, 4 strides, 2 broadcasts | 319 791 | accounts, order, criticals kept, drops counted, fusion implements `Debounce`, strides dispatched |
| `delivery_oldest` | same, 3 strides, no broadcasts | - | `OldestRoutineFirst` is violated |
| `fusion_ring` | 2 producers, ring of 2, batches of 2, 4 pushes | 52 533 | none popped twice, no loss without a drop, everything drained |
| `harness` | 2 workers, queues of 2 and 1, 4 blocks, three setups | 508 539 | the closing report, and `execute` returns but for the named hangs |
| `gateway` | queues of 2, a wire of 1, 1 change of verdict, 3 connections, 1 loss, 1 reuse | 866 862 | no queue left behind, verdicts in order, the console ends up live |
| `ledger` | 2 deployers, rotator and compactor, limit of 2, 6 entries, 5 files, 1 crash | 3 203 498 | nothing lost but in the named meetings, one chain when undisturbed |
| `mitigation` | windows of 2 and 3 in a history of 4, ring of 3, 3 operator calls | 115 936 | the filter implements `Debounce`; a decided reduction is written or called off, and no row of the monitor stays pending unreported |

Why these bounds are enough to be interesting:

* Five records in three slots go more than once round the ring, so an index can
  be reused by a second turn while a call still holds it from the first; two
  consumers race for one claim, either may die holding one, and the viewer meets both
  a blank ring and the wrap.
* Three threads are the least in which one spins, one sleeps and one opens; three
  uses let a late thread meet the generation after the next.
* Two layers separate the last layer from the others; two frames let the workers
  of the second meet the boundary of the first; two swaps let one arrive during
  the other. Charge levels below, inside and above the band of 20 and 25 are all
  the daemon tells apart. `NoFlapping` needs two swings.
* A ring, a batch and a queue of 2 overflow with 4 strides, and a hysteresis of 2 lets
  the state turn critical and back in them: both kinds of frame reach every branch
  of `Push`. Clients do not affect each other, so one client that comes and goes
  represents all.
* Four pushes into two slots are two turns of the lock-free ring: a producer stalled
  before its mark is lapped by the other, and both move `read_ptr` under the consumer.
* A queue of two that four blocks can fill, and an incident queue of one: blocks are
  dropped, incidents lost, and two workers compete for the last block.
* Two connections meet over one identifier, a third recovers. One change of the
  verdict is enough to tell an old frame from a new one.
* Six entries, the first of each new ledger among them, let a ledger of two be set
  aside, fail, be put back and be set aside by the other keeper.
* A history of four holds a window of three across its wrap; a ring of three is empty
  again after three pushes, which an operator's and the loop's own reach; strides
  follow each other within the write interval and the timeout, or beyond both.

Deadlock is checked wherever the system never stops: the paced bus, the delivery plane,
the lock-free ring, the gateway and the mitigation loop. The barrier, the
coordinator, the harness and the ledger do stop, when their threads or entries are
used up, and there liveness properties say that they get that far (the ledger has
none: nothing obliges a process to append or to rotate).

Each property is known to be sensitive: for each there is a slip (a definition
marked "A slip" just before the one it distorts) that TLC finds to break it.

### Where the code departs from what is said of it

* `bus_lapped`: two consumers can pop the same record from a ring that was never
  full. The harness asserts that `duplicate_count == 0`
  (`core/ipc_shared_bus.py:509`) and the method says "Safe for concurrent
  Multi-Consumer calls." (line 334). The slot is copied after the claim.
* `coordinator_swap`: a swap registered while the previous one is applied is
  discarded with it (`core/subsystem_sync_coordinator.py:208`), against "Swaps are
  deferred until the next 4096-sample frame boundary." (line 189).
* `delivery_oldest`: "when a client's queue is full, the oldest routine
  (non-critical) frame is dropped first" (`core/telemetry_dispatcher.py:12`); the
  code drops the incoming routine frame (line 68).

The properties that hold also record what one would not guess: the four hangs of
`execute` (`Returns`), an incident lost when its append meets a rotation
(`NothingLost`), a successor's queue unregistered by its predecessor's handler
(`Gateway`), a command ring that is empty when full and a swallowed command that is
reported clean (`MitigationLoop`), workers left
at the first barrier of a frame that one worker did not begin (`WorkersFinish`).

### Fairness

* Bus: weak fairness of each consumer's and viewer's call and of a write that has
  begun. The operating system schedules every process and `consumer_process_task`
  polls in a loop. Nothing obliges the producer to begin a write, and a consumer
  may lose claims to the other for ever; the property is that somebody pops while
  a consumer lives. Nothing obliges one to die.
* Barrier: weak fairness of each thread inside `wait`. Arriving is not fair:
  `EveryoneLeaves` is about those that arrived when everybody has.
* Coordinator: weak fairness of each worker, whose loop never blocks but in the
  barrier. The daemon, the battery and the caller of swaps need none.
* Delivery: weak fairness of `Dispatch`, the polling task its docstring describes
  ("running in background or async loop"). Producers and clients need none.
* Lock-free ring: weak fairness of `pop_batch`, which a loop calls, and of a producer
  inside `push`. Nothing obliges a producer to begin one.
* Harness: weak fairness of every worker, of the logger, of a source with a block in
  its hands and of `execute` once running is reset; a source may go on as long as it
  is fed, and whether an interrupt comes is left open.
* Gateway: weak fairness of the display loop, the broadcaster, each handler and send
  loop, and the console's thread: all are loops with a bounded sleep or timeout.
  Nothing makes a verdict change or a connection break.
* Mitigation loop: weak fairness of the stride, which the bench repeats. The operator
  and the hardware need do nothing. `MaxPushes` is more than a bound here: an operator
  who fills the ring before every stride for ever keeps a reduction from being written.
* Ledger: none; its properties are safety properties.

## 4. The proofs

Constants are arbitrary: any ring, queue, batch and window sizes in the ranges the
modules' named assumptions give (a bus of at least two slots), any finite nonempty
set of threads or workers, any number of records, frames, blocks and uses. Each
component's theorems are in `<Module>_proofs`, those of the two lock-free structures of
threads together in `BarrierRing_proofs`, those of gateway and ledger in
`GatewayLedger_proofs`, whence the prefixes of `BarrierSpec`, `LedgerTypeOK` and the
like; `CommonLemmas` holds what several of them need: positions modulo a ring's size,
least and greatest numbers, that `FlattenSeq` of one sequence more is the same with
that at its end, and that a fold over the first n numbers has a table of its values
(`FoldLeftExists`), with which a property of a fold is shown for every batch: the least
prefix that lacks it follows one that has it.

`TelemetryBus_proofs`
* `TypeCorrect`: `Spec => []TypeOK`, for the bus as the code has it.
* `BusInvariant`: `PacedSpec => []BusInv`. `PoppedOnce` is not inductive: it says
  nothing of a consumer that still holds an index. `BusInv` adds that both header
  indices are the unwrapped counters modulo the ring (`Indices`); that the
  published and unread records, and the positions calls work from, lie in the
  window the producer will not enter (`Window`, `Positions`); that each slot of
  the window holds the record its position calls for (`Contents`, with
  `HalfCopied` for a copy under way); and that two consumers never hold the same
  claim and hold only claims later than what they have returned (`ClaimsDiffer`).
  The arithmetic lemma behind it: two positions less than a turn apart that have the
  same slot are equal. That is what makes a successful compare-and-swap mean that
  `read_index` has not moved.
* `PacedBusDelivers`, `PacedRecordsAreWhole`, `PacedLatestIsNewest`: whole, newest,
  once, in order follow from `BusInv`.
* `PacedBusIsQueue`: each step maps to a step of `RecordQueue` or a stutter; `Claim`
  is the step that hands a record over, the copying stutters.
* `DeepRingDelivers`: if `NumRecords < RingSize - 1`, every behaviour of `Spec` is
  paced, so the above holds of the code with no assumption on rates.

`BarrierRing_proofs`, on `HybridBarrier`
* `BarrierInvariant`: `Spec => []BarrierInv`. The invariant relates the counter to
  the set of threads that have arrived in the open generation (`Counted`, by the
  cardinality lemmas of `FiniteSetTheorems`), each thread's progress to the
  generation it saw (`Progress`), the lock to its holder's place (`LockHeld`), and
  says that only generations that are over have had a master (`Led`).
* `BarrierTypeCorrect` and `BarrierIsSafe`: types, `NoOvertaking`, `NeverLapped` and
  `NoLostWakeup` from it.
* `BarrierIsPhaseBarrier`: each step is a step of `PhaseBarrier` or a stutter, which
  is what allows `SyncCoordinator` to use the abstraction.

`SyncCoordinator_proofs`
* `CoordinatorInvariant`: `Spec => []CoordinatorInv`. `LayersInLockstep` compares two
  threads' progress and says nothing of the barriers. The invariant adds that one
  layer is active: its barrier has counted exactly those that wait in it, every other
  barrier is at rest, and each thread is in that layer or has yet to leave the one
  before (`IsActive`); that there is one master (`OneMaster`), that the frame counter
  is behind only while that master has the boundary before it (`FramesCounted`), and
  that a pending swap is later than all that were applied unless it is being cleared
  (`SwapInv`). When the last thread arrives everybody waits, because the count is a
  cardinality: that step hands activity on to the next layer.
* `CoordinatorTypeCorrect`, `LayersStayInLockstep`, `BoundaryIsIsolated`,
  `SwapsStayInOrder` from it.
* `DaemonDoesNotFlap`: `Spec => []NoFlapping`, for any thresholds in order and any
  charges. `NoFlapping` compares two counters and says nothing of the reading the
  daemon still holds. `BandInv` adds that an unanswered swing is owed a shift, and
  that when the charge has swung back while the daemon was about to shift, two
  swings have been counted for the shift under way and the one it will bring.
  `CoordinatorKeepsApart` shows that no step of the workers touches the daemon.

`TelemetryDelivery_proofs`
* `RingLosesNothingUnnoticed`: `Spec => []RingAccounts`, by the invariant that what
  was dispatched and what was dropped is exactly what lies behind the read pointer
  (`RingInv`).
* `FusionDebounces`: each stride of `FusionSupervisor` is a step of `Debounce` or a
  stutter. `CountsInv` says that no state but the one asked for last has been counted,
  that as often as it was asked for in a row, and the current state never: the
  counter the code does not reset with the others is zero when it is left alone.
* `PushKeepsOrCounts`: about the operator `Push` for every queue: the capacity holds,
  each push gains a frame or counts a drop, a routine frame displaces nothing, and
  a critical one displaces a critical one only if no routine frame is left.
* `DeliveryInvariant`: `Spec => [](DeliveryInv /\ CountsInv)`. The ring holds the records
  between its pointers, each in its slot, so that a dispatch hands on what was pushed
  in the order it was pushed (`RingHolds`). For each client, what it has taken followed by
  its queue is the offers with some left out (`Thinned`), what is left out is what was
  counted as dropped, every critical frame is there or has been followed by a queue's
  length of later critical ones (`Retained`), and the offers are increasing and
  behind the numbers the feeds gave last (`Served`). `TakenKept` covers the ways in
  which a queue takes a frame, `DisplacedIsFollowed` the critical frame that goes, and
  `BatchPushed` and `ServedBatch` carry this over the frames of a dispatch.
* `DeliveryTypeCorrect`, `FramesStayInOrder`, `CriticalsAreRetained`, `DropsAreCounted`
  from it.

`BarrierRing_proofs`, on `FusionRing`
* `RingInvariant`: `Spec => []RingInv`. `PoppedOnce` speaks of the popped records only.
  `OnePlace` adds that a claimed number is with the producer that pushes it, in a
  ready slot or among the popped, and in one of these only; it is what survives both
  a lapped producer and a lost update of `read_ptr`. For the witness, a producer
  that overflows has counted a drop before it moves the pointer (`CountedFirst`), and
  as long as none was counted the pointer is the consumer's alone
  (`NothingOverwritten`).
* `RingTypeCorrect`, `RingPopsOnce`, `RingWitnessIsSound` from it.

`SampleHarness_proofs`
* `HarnessInvariant`: `Spec => []HarnessInv`. `EndAccounts` is about the last state
  only. The invariant counts the workers by place (the lemmas `NumberMoves` and
  `NumberGrows`): every block made is in the source's hands, queued, with a worker or
  in the tally (`BlocksKept`); an unfinished count covers what is queued and held
  (`TasksKept`, `IncidentsKept`); and once a join has returned, what is still to
  come is at most what the source holds (`Closing`).
* `HarnessTypeCorrect`, `HarnessAccountsAtTheEnd` from it.

`GatewayLedger_proofs`, on `Gateway`
* `QueuesAreNotAbandoned`: `Spec => []NoAbandonedQueue`. The property names the
  handler of a registered queue; the invariant (`LoopsSound`) adds whose identifier that
  handler and each send loop go by, which is what survives a predecessor that
  unregisters its successor's queue.
* `ConsoleNeverGoesBack`: `Spec => InOrder`. `GatewayOrder` follows the verdicts along
  the whole way: the harness's queue is in order and behind what was broadcast
  (`UpstreamOrder`), each client's queue is (`QueueOrder`), and what the console shows,
  what is on its wire, in its send loop's hand, in the queue the loop serves, and still
  to be broadcast follow each other (`LinkOrder`). A full queue that refuses or drops a
  frame keeps the order of the others.
* `GatewayTypeCorrect`: types; the queues, the wire and the harness's pipe stay within
  their capacities.

`GatewayLedger_proofs`, on `Ledger`
* `NothingIsLost`: `LedgerSpec => []NothingLost`. The property looks at the
  files only; `LossInv` adds where the processes are. With no keeper at work what is
  at no risk is stored under a name (`StoredAtRest`); with one at work it is set aside or
  archived (`StoredAtWork`), and when that keeper is about to remove its file, without
  it (`StoredAtRemoval`). An append that met nobody has the ledger open
  (`AppendsFound`), one that met a keeper is at risk (`AppendsMet`), and so is
  everything once two keepers have met (`KeepersApart`).
* `ChainStaysUnbroken`: `LedgerSpec => []ChainUnbroken`. `ChainInv` follows the chain through
  the steps of a keeper: what it has set aside goes on from the archives, the first
  entry of the new ledger goes on from that, and archiving moves one behind the other
  (`KeeperLinked`); a deployer carries the last hash of the ledger it is about to write
  (`DeployerLinked`).
* `LedgerTypeCorrect`: no file has two names. Whoever is at work has an entry, and past
  `open` a file (`Jobs`); a fresh file is nobody's (`OpenedIs`).

`MitigationLoop_proofs`
* `FilterDebounces`: `Spec => FilterIsDebounced`, for any windows that fit the history.
  `FilterInv` says what the last entries of the ring are in terms of what was asked
  for last and how often in a row; the entry before them differs as long as the
  window is not full.
* `LoopInvariant`: `Spec => []LoopInv`. The types rest on the filter's invariant, which
  bounds `times`, and on the commands in the ring being of their registers' values and,
  between strides, just pushed: so an age that a stride writes is at most the longest
  time between two of them. A stride folds over the ring; `ProcessedKeeps` says that what
  no single command breaks (`Keeps`) is true when the batch has been processed.
* `LoopTypeCorrect`: types; the ring never holds `QueueLength` commands.
* `InterlockIsObeyed`: `Spec => InterlockHolds`: while the interlock is set, only
  `ClearInterlock` changes another register, whatever waits in the ring.
* `RegistersArePaced`: `Spec => WritesArePaced`: a register other than the interlock
  changes only when the pushes of its last write and of this one are `MinInterval` apart,
  also for two commands of one batch. No run checks these two properties; they are
  stated in the proof module, as the same fold serves them.

Every invariant, action property and refinement of the passing runs is proved, those of the
bus beyond its types under the pacing that `PacedSpec` states or a deep ring implies. Only
model-checked: the liveness properties, since weak fairness and `ENABLED` are beyond
the prover.

## 5. Not modelled

* Bus: restart of the host, a process that dies with the named lock, the fallback to
  private memory, mixed ways of compare-and-swap; weakly ordered memory.
* Coordinator: the fallback for unregistered threads; clocks, and the skew of the
  arrivals, which the report prints and nothing else reads.
* Delivery: dispatch from a background thread, two poppers of one ring.
* Gateway: the route that sets the configuration calls a method no harness has; the
  resumption protocol is not used by the send loop; `stop` of the console's client has
  no caller.
* Ledger: `disaster_recovery_restore.py` looks for archives in
  `compliance/archives` while the keepers write to `compliance/archive`, and parses the
  ledger as one JSON document although it is one per line, so a healthy ledger counts
  as corrupted. Two archives of one second share a name. The failover broker, the
  handshake interceptor and the supervisor append to files of their own.
* Configuration mesh (`core/cluster_raft_consensus.py`): a follower whose timeout passes
  makes itself leader without votes, and a leader drops the reader of each peer's
  connection, so acknowledgements are never read and each commit times out while the
  followers apply it. There is no agreement whose preservation a model could show.
  The vote collector is one window over a datagram socket; the failover broker's
  switch is never undone.
* Supervisor: the commands it starts are named relative to the repository, the
  directory it starts them in is `backend/src`, so none is found. A signal between the
  start of a child and the assignment of its handle leaves that child running.
* DMA ring: used by its own demonstration and `src/tests/hil_throughput_verifier.py` only.
* The bench does not use `LoopbackMitigationController` or the anomaly tagging.

Each hazard among these is in `PROJECT.json` with its reason. Left aside for good:
numeric kernels (floating-point), vendor receivers, presentation, training and
release scripts, cryptographic and access policy code, codecs, thread placement.
These are most of the repository by lines: the directory `core/` is mainly filters,
estimators, trackers and simulators, each a sequential computation on arrays, and
`src/frontend/app.py` is mainly pages. The share of lines the map covers is low for that
reason; of the code that has concurrency, failure or protocol in it, what is not
covered is listed above.

## 6. What comes next

1. A restart of the bus's host while consumers stay attached to the old segment.
2. `DmaRing`: two planes, a reader that uses a view after freeing it.
