--------------------------- MODULE TelemetryDelivery ---------------------------
(***************************************************************************)
(* The delivery plane of Phase59RuntimeHardeningSupervisor (src/backend/   *)
(* src/satcom_core/phase59_runtime_hardening_supervisor.py): the compute   *)
(* thread fuses what the detectors say of a stride (FusionSupervisor) and  *)
(* pushes one record per stride into a FusionRingBuffer, which overwrites  *)
(* its oldest records; a control-plane task takes batches out of the ring  *)
(* and offers every record to the queue of each client of a                *)
(* TelemetryDispatcher; other frames are broadcast to the same clients;    *)
(* clients come, pop and go.                                               *)
(*                                                                         *)
(* push and pop_batch run under the lock of the ring, and the rest of a    *)
(* dispatch, a broadcast or a registration is not suspended halfway by the *)
(* event loop: each call is one step.  The batch is serialized after the   *)
(* lock is released, from arrays only the next pop_batch overwrites, and   *)
(* there is one dispatching task.                                          *)
(*                                                                         *)
(* Records and broadcast frames are numbered from 1, each on their own.    *)
(* offered and delivered are history; they start anew with a registration. *)
(* total_processed_strides and total_critical_alerts_routed are left out:  *)
(* they count the strides and those in the critical state.                 *)
(***************************************************************************)
EXTENDS ClientQueue, FusionSupervisor

CONSTANTS
  Clients,        \* client ids
  RingCapacity,   \* ring_capacity
  BatchSize,      \* max_count of pop_batch
  NumStrides,     \* bound: calls of ingest_compute_stride
  NumBroadcasts   \* bound: calls of broadcast

ASSUME RingCapacityAssumption == RingCapacity \in Nat \ {0}
ASSUME BatchSizeAssumption == BatchSize \in Nat \ {0}
ASSUME BoundsAssumption == NumStrides \in Nat /\ NumBroadcasts \in Nat

VARIABLES
  fusion,      \* fusion_supervisor: current_state and persistence_counters
  asked,       \* history: the state the last stride aimed at
  times,       \* history: how many strides in a row did, up to Hysteresis
  slots,       \* the ring's buffers: slot -> record
  writePtr,    \* write_ptr
  readPtr,     \* read_ptr
  ringDrops,   \* drop_counter
  dispatched,  \* history: how many records were taken out of the ring
  broadcasts,  \* total_broadcasts
  registered,  \* the keys of clients
  box,         \* each client's queue and counters
  totalDrops,  \* total_dropped_frames and total_critical_drops together
  congested,   \* total_dropped_telemetry_frames
  offered,     \* offered[c]: frames pushed at c's queue
  delivered,   \* delivered[c]: frames c has popped
  folded       \* folded[c]: drops of c's queue moved into totalDrops

fusionVars == <<fusion, asked, times>>
ringVars == <<slots, writePtr, readPtr, ringDrops>>
computeVars == <<fusionVars, ringVars>>
clientVars == <<registered, box, offered, delivered, folded>>
vars == <<fusionVars, ringVars, dispatched, broadcasts, clientVars, totalDrops, congested>>

Slots == 0 .. RingCapacity - 1
Feeds == {"fusion", "broadcast"}
Frame == [feed : Feeds, number : 1 .. NumStrides + NumBroadcasts, critical : BOOLEAN]
ZeroRecord == [feed |-> "fusion", number |-> 0, critical |-> FALSE]

Init ==
  /\ fusion = FirstMachine
  /\ asked = Nominal
  /\ times = 0
  /\ slots = [s \in Slots |-> ZeroRecord]
  /\ writePtr = 0
  /\ readPtr = 0
  /\ ringDrops = 0
  /\ dispatched = 0
  /\ broadcasts = 0
  /\ registered = {}
  /\ box = [c \in Clients |-> EmptyBox]
  /\ totalDrops = 0
  /\ congested = 0
  /\ offered = [c \in Clients |-> <<>>]
  /\ delivered = [c \in Clients |-> <<>>]
  /\ folded = [c \in Clients |-> 0]

-----------------------------------------------------------------------------
\* A slip: the read pointer is left behind when the ring overflows.
OverflowLeftBehind(newWritePtr) == UNCHANGED <<readPtr, ringDrops>>

\* The check of _push_ring_record_jit after the record is in its slot.
Overflow(newWritePtr) ==
  IF newWritePtr - readPtr > RingCapacity
    THEN /\ readPtr' = newWritePtr - RingCapacity
         /\ ringDrops' = ringDrops + 1
    ELSE UNCHANGED <<readPtr, ringDrops>>

\* What a debounced state machine promises, of the fusion's.
Windows == [s \in States |-> Hysteresis]
Debounced == INSTANCE Debounce WITH
  Values <- States, First <- Nominal, Window <- Windows, settled <- fusion.state

\* ingest_compute_stride: process_stride, and push of the state it comes to.
Ingest(sight) ==
  LET target == Target(sight)
      after == Update(fusion, target)
  IN /\ writePtr < NumStrides
     /\ fusion' = after
     /\ asked' = target
     /\ times' = Debounced!InARow(target)
     /\ slots' = [slots EXCEPT ![writePtr % RingCapacity] =
                   [feed |-> "fusion", number |-> writePtr + 1,
                    critical |-> after.state = Critical]]
     /\ writePtr' = writePtr + 1
     /\ Overflow(writePtr + 1)
     /\ UNCHANGED <<dispatched, broadcasts, clientVars, totalDrops, congested>>

Available == writePtr - readPtr

\* Slips: the task waits for a full batch, or takes one whatever there is.
HasFullBatch == Available >= BatchSize
FullBatch == [i \in 1 .. BatchSize |-> slots[(readPtr + i - 1) % RingCapacity]]

HasRecords == Available > 0

\* The records _pop_batch_jit copies out.
Batch ==
  [i \in 1 .. Min({Available, BatchSize}) |-> slots[(readPtr + i - 1) % RingCapacity]]

\* get_pressure_state is CRITICAL_CONGESTION: nine tenths of the queue or more.
IsCongested(b) == 10 * Len(b.queue) >= 9 * Capacity

\* The pushes of a batch at one client, and how many found it congested.
AfterBatch(b) == FoldLeft(Push, b, Batch)
CongestedBy(b) ==
  Cardinality({i \in DOMAIN Batch :
                 IsCongested(FoldLeft(Push, b, SubSeq(Batch, 1, i - 1)))})

\* dispatch_pending_telemetry.
Dispatch ==
  /\ HasRecords
  /\ readPtr' = readPtr + Len(Batch)
  /\ dispatched' = dispatched + Len(Batch)
  /\ box' = [c \in Clients |-> IF c \in registered THEN AfterBatch(box[c]) ELSE box[c]]
  /\ offered' = [c \in Clients |-> IF c \in registered THEN offered[c] \o Batch
                                                       ELSE offered[c]]
  /\ congested' = congested + MapThenSumSet(LAMBDA c : CongestedBy(box[c]), registered)
  /\ UNCHANGED <<fusionVars, slots, writePtr, ringDrops, broadcasts, registered,
                 delivered, folded, totalDrops>>

-----------------------------------------------------------------------------
\* broadcast: push, then move the client's counters into the totals.
DropsOf(b) == b.drops + b.criticalDrops

\* A slip: the moved counters are not reset.
KeepCounters(b) == b

ResetCounters(b) == [b EXCEPT !.drops = 0, !.criticalDrops = 0]

Broadcast(critical) ==
  LET frame == [feed |-> "broadcast", number |-> broadcasts + 1, critical |-> critical]
      pushed == [c \in registered |-> Push(box[c], frame)]
  IN /\ broadcasts < NumBroadcasts
     /\ broadcasts' = broadcasts + 1
     /\ box' = [c \in Clients |-> IF c \in registered THEN ResetCounters(pushed[c])
                                                      ELSE box[c]]
     /\ offered' = [c \in Clients |-> IF c \in registered THEN Append(offered[c], frame)
                                                          ELSE offered[c]]
     /\ folded' = [c \in Clients |-> IF c \in registered
                                       THEN folded[c] + DropsOf(pushed[c])
                                       ELSE folded[c]]
     /\ totalDrops' = totalDrops + MapThenSumSet(LAMBDA c : DropsOf(pushed[c]), registered)
     /\ UNCHANGED <<computeVars, dispatched, registered, delivered, congested>>

-----------------------------------------------------------------------------
\* What is known of a client that has just registered.
Fresh(c) ==
  /\ box' = [box EXCEPT ![c] = EmptyBox]
  /\ offered' = [offered EXCEPT ![c] = <<>>]
  /\ delivered' = [delivered EXCEPT ![c] = <<>>]
  /\ folded' = [folded EXCEPT ![c] = 0]

\* register_client, which replaces the queue of a client that is registered.
Register(c) ==
  /\ registered' = registered \cup {c}
  /\ Fresh(c)
  /\ UNCHANGED <<computeVars, dispatched, broadcasts, totalDrops, congested>>

\* unregister_client; the queue and its counters go.
Unregister(c) ==
  /\ c \in registered
  /\ registered' = registered \ {c}
  /\ Fresh(c)
  /\ UNCHANGED <<computeVars, dispatched, broadcasts, totalDrops, congested>>

\* shutdown clears the clients.
Shutdown ==
  /\ registered # {}
  /\ registered' = {}
  /\ box' = [c \in Clients |-> EmptyBox]
  /\ offered' = [c \in Clients |-> <<>>]
  /\ delivered' = [c \in Clients |-> <<>>]
  /\ folded' = [c \in Clients |-> 0]
  /\ UNCHANGED <<computeVars, dispatched, broadcasts, totalDrops, congested>>

ClientPops(c) ==
  /\ c \in registered
  /\ box[c].queue # <<>>
  /\ delivered' = [delivered EXCEPT ![c] = Append(@, Head(box[c].queue))]
  /\ box' = [box EXCEPT ![c] = Popped(@)]
  /\ UNCHANGED <<computeVars, dispatched, broadcasts, registered, offered, folded,
                 totalDrops, congested>>

Next ==
  \/ \E sight \in Sights : Ingest(sight)
  \/ \E critical \in BOOLEAN : Broadcast(critical)
  \/ Dispatch
  \/ \E c \in Clients : Register(c) \/ Unregister(c) \/ ClientPops(c)
  \/ Shutdown

Spec == Init /\ [][Next]_vars

\* The control-plane task keeps polling the ring.
FairSpec == Spec /\ WF_vars(Dispatch)

-----------------------------------------------------------------------------
\* Every pointer, counter and frame has its type, and no queue grows beyond its
\* capacity.
TypeOK ==
  /\ fusion \in [state : States, persistence : [States -> 0 .. Hysteresis - 1]]
  /\ asked \in States
  /\ times \in 0 .. Hysteresis
  /\ slots \in [Slots -> Frame \cup {ZeroRecord}]
  /\ writePtr \in 0 .. NumStrides
  /\ readPtr \in 0 .. writePtr
  /\ ringDrops \in Nat
  /\ dispatched \in Nat
  /\ broadcasts \in 0 .. NumBroadcasts
  /\ registered \subseteq Clients
  /\ box \in [Clients -> [queue : Seq(Frame), drops : Nat, criticalDrops : Nat]]
  /\ \A c \in Clients : Len(box[c].queue) <= Capacity
  /\ totalDrops \in Nat
  /\ congested \in Nat
  /\ offered \in [Clients -> Seq(Frame)]
  /\ delivered \in [Clients -> Seq(Frame)]
  /\ folded \in [Clients -> Nat]

Increasing(frames) ==
  \A i, j \in DOMAIN frames :
    i < j /\ frames[i].feed = frames[j].feed => frames[i].number < frames[j].number

\* The ring counts every record it loses: what the dispatcher took out, what
\* waits in the ring and what was dropped add up to the strides.
RingAccounts ==
  /\ dispatched + ringDrops + Available = writePtr
  /\ Available <= RingCapacity

\* A client gets the frames of each feed in the order they were made, whatever
\* the overflow policy removed between them.
DeliveredInOrder == \A c \in Clients : Increasing(delivered[c] \o box[c].queue)

FramesIn(frames) == {frames[i] : i \in DOMAIN frames}
Lost(c) == FramesIn(offered[c]) \ FramesIn(delivered[c] \o box[c].queue)
PlaceOf(c, frame) == CHOOSE i \in DOMAIN offered[c] : offered[c][i] = frame

\* A critical alert is lost only to a queue full of later critical alerts:
\* "status noise never displaces an active threat alert".
CriticalsRetained ==
  \A c \in Clients : \A frame \in Lost(c) : frame.critical =>
    Cardinality({i \in DOMAIN offered[c] :
                   i > PlaceOf(c, frame) /\ offered[c][i].critical}) >= Capacity

\* Every frame a client does not get is counted exactly once, in its queue's
\* counters or already in the totals.
DropsCounted ==
  \A c \in Clients :
    Cardinality(Lost(c)) = DropsOf(box[c]) + folded[c]

\* The fusion's state follows its detectors after Hysteresis strides in a row that
\* ask for the same state, in the last of them, and never otherwise: a counter
\* left over from an earlier alert neither hastens nor delays the next one.
FusionIsDebounced == Debounced!Spec

\* Every stride is dispatched or counted as dropped, sooner or later.
StridesDispatched ==
  \A n \in 1 .. NumStrides : writePtr >= n ~> readPtr >= n

\* "When a client's queue is full, the oldest routine (non-critical) frame is
\* dropped first": no routine frame is lost while an older one stays queued.
OldestRoutineFirst ==
  \A c \in Clients : \A frame \in Lost(c) :
    ~\E i \in RoutineIn(box[c].queue) :
       PlaceOf(c, box[c].queue[i]) < PlaceOf(c, frame)
=============================================================================
