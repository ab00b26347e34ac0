------------------------------ MODULE FusionRing ------------------------------
(***************************************************************************)
(* LockFreeFusionRingBuffer (src/backend/src/satcom_core/                  *)
(* lockfree_fusion_ring_buffer.py): compute threads push records, one      *)
(* thread pops them in batches, and no lock is held but for the claim of a *)
(* sequence number.                                                        *)
(*                                                                         *)
(* The compiled routines _write_slot_jit and _read_slots_jit keep the      *)
(* interpreter's lock while they run, so each of them is one step; every   *)
(* other access to a shared field is a step of its own, and += is a load   *)
(* and a store.  A record is named by the sequence number it was claimed   *)
(* under.  taken is history: the records copied out, in order.             *)
(***************************************************************************)
EXTENDS Integers, SequencesExt, FiniteSetsExt

CONSTANTS
  Producers,  \* threads that push
  Capacity,   \* capacity
  BatchSize,  \* min(max_count, 128) of pop_batch
  NumPushes   \* bound: how many records are pushed altogether

ASSUME CapacityAssumption == Capacity \in Nat \ {0}
ASSUME BatchSizeAssumption == BatchSize \in Nat \ {0}
ASSUME NumPushesAssumption == NumPushes \in Nat

VARIABLES
  claimed,      \* write_sequence: the next number to be claimed
  readPtr,      \* read_ptr
  dropCounter,  \* drop_counter
  slots,        \* status_buf and the record buffers
  pusher,       \* where each producer is, its idx and the value it has loaded
  popper,       \* where the consumer is, its count and the pointer it has loaded
  taken         \* history: the records popped so far

vars == <<claimed, readPtr, dropCounter, slots, pusher, popper, taken>>

Slots == 0 .. Capacity - 1
Status == {"empty", "writing", "ready"}
Steps == {"idle", "check", "count", "counted", "advance", "mark", "write"}

Init ==
  /\ claimed = 0
  /\ readPtr = 0
  /\ dropCounter = 0
  /\ slots = [s \in Slots |-> [status |-> "empty", record |-> 0]]
  /\ pusher = [p \in Producers |-> [at |-> "idle", idx |-> 0, seen |-> 0]]
  /\ popper = [at |-> "idle", count |-> 0, seen |-> 0]
  /\ taken = <<>>

-----------------------------------------------------------------------------
(***************************************************************************)
(* push.                                                                   *)
(***************************************************************************)
SlotOf(idx) == idx % Capacity

\* Producer p is at one step and goes on to the next.
Goes(p, from, to) ==
  /\ pusher[p].at = from
  /\ pusher' = [pusher EXCEPT ![p].at = to]

\* AtomicSequence.increment.
Claim(p) ==
  /\ pusher[p].at = "idle"
  /\ claimed < NumPushes
  /\ pusher' = [pusher EXCEPT ![p] = [at |-> "check", idx |-> claimed, seen |-> 0]]
  /\ claimed' = claimed + 1
  /\ UNCHANGED <<readPtr, dropCounter, slots, popper, taken>>

\* A slip: the capacity check allows one record too many.
HasRoomForOneMore(idx) == idx - readPtr <= Capacity

HasRoom(idx) == idx - readPtr < Capacity

FindRoom(p) ==
  /\ HasRoom(pusher[p].idx)
  /\ Goes(p, "check", "mark")
  /\ UNCHANGED <<claimed, readPtr, dropCounter, slots, popper, taken>>

FindFull(p) ==
  /\ ~HasRoom(pusher[p].idx)
  /\ Goes(p, "check", "count")
  /\ UNCHANGED <<claimed, readPtr, dropCounter, slots, popper, taken>>

LoadDrops(p) ==
  /\ pusher[p].at = "count"
  /\ pusher' = [pusher EXCEPT ![p] = [at |-> "counted", idx |-> @.idx, seen |-> dropCounter]]
  /\ UNCHANGED <<claimed, readPtr, dropCounter, slots, popper, taken>>

CountDrop(p) ==
  /\ Goes(p, "counted", "advance")
  /\ dropCounter' = pusher[p].seen + 1
  /\ UNCHANGED <<claimed, readPtr, slots, popper, taken>>

\* A slip: the pointer is moved to the wrong side of the overwritten slot.
AdvanceBeforeOverwritten(p) ==
  /\ Goes(p, "advance", "mark")
  /\ readPtr' = pusher[p].idx - (Capacity + 1)
  /\ UNCHANGED <<claimed, dropCounter, slots, popper, taken>>

\* The consumer's pointer is moved past the slot that is overwritten.
AdvancePastOverwritten(p) ==
  /\ Goes(p, "advance", "mark")
  /\ readPtr' = pusher[p].idx - Capacity + 1
  /\ UNCHANGED <<claimed, dropCounter, slots, popper, taken>>

MarkWriting(p) ==
  /\ Goes(p, "mark", "write")
  /\ slots' = [slots EXCEPT ![SlotOf(pusher[p].idx)] =
                [status |-> "writing", record |-> @.record]]
  /\ UNCHANGED <<claimed, readPtr, dropCounter, popper, taken>>

\* A slip: the status is not changed once the record is written.
WriteUnready(p) ==
  /\ Goes(p, "write", "idle")
  /\ slots' = [slots EXCEPT ![SlotOf(pusher[p].idx)].record = pusher[p].idx]
  /\ UNCHANGED <<claimed, readPtr, dropCounter, popper, taken>>

\* _write_slot_jit: the fields, then READY.
WriteSlot(p) ==
  /\ Goes(p, "write", "idle")
  /\ slots' = [slots EXCEPT ![SlotOf(pusher[p].idx)] =
                [status |-> "ready", record |-> pusher[p].idx]]
  /\ UNCHANGED <<claimed, readPtr, dropCounter, popper, taken>>

-----------------------------------------------------------------------------
(***************************************************************************)
(* pop_batch.                                                              *)
(***************************************************************************)
LoadReadPtr ==
  /\ popper.at = "idle"
  /\ popper' = [at |-> "read", count |-> 0, seen |-> readPtr]
  /\ UNCHANGED <<claimed, readPtr, dropCounter, slots, pusher, taken>>

IsReady(s) == slots[s].status = "ready"

\* How many consecutive slots from the pointer are ready, as far as a batch
\* goes; a slot once read is empty, so a batch never goes round the ring.
ReadyRun ==
  Max({n \in 0 .. Min({BatchSize, Capacity}) :
         \A i \in 0 .. n - 1 : IsReady(SlotOf(popper.seen + i))})

\* A slip: the status of the slots that were read is not reset.
KeepReady(n) == slots

EmptyFirst(n) ==
  [s \in Slots |-> IF \E i \in 0 .. n - 1 : s = SlotOf(popper.seen + i)
                     THEN [status |-> "empty", record |-> slots[s].record]
                     ELSE slots[s]]

\* _read_slots_jit.
ReadSlots ==
  /\ popper.at = "read"
  /\ popper' = [at |-> "load", count |-> ReadyRun, seen |-> popper.seen]
  /\ taken' = taken \o [i \in 1 .. ReadyRun |-> slots[SlotOf(popper.seen + (i - 1))].record]
  /\ slots' = EmptyFirst(ReadyRun)
  /\ UNCHANGED <<claimed, readPtr, dropCounter, pusher>>

LoadForAdvance ==
  /\ popper.at = "load"
  /\ popper' = [at |-> "store", count |-> popper.count, seen |-> readPtr]
  /\ UNCHANGED <<claimed, readPtr, dropCounter, slots, pusher, taken>>

\* The end of read_ptr += popped; the batch is then serialized from arrays only
\* the consumer uses.
Advance ==
  /\ popper.at = "store"
  /\ readPtr' = popper.seen + popper.count
  /\ popper' = [popper EXCEPT !.at = "idle"]
  /\ UNCHANGED <<claimed, dropCounter, slots, pusher, taken>>

-----------------------------------------------------------------------------
Push(p) ==
  \/ Claim(p)
  \/ FindRoom(p)
  \/ FindFull(p)
  \/ LoadDrops(p)
  \/ CountDrop(p)
  \/ AdvancePastOverwritten(p)
  \/ MarkWriting(p)
  \/ WriteSlot(p)

PopBatch ==
  \/ LoadReadPtr
  \/ ReadSlots
  \/ LoadForAdvance
  \/ Advance

Next == PopBatch \/ \E p \in Producers : Push(p)

Spec == Init /\ [][Next]_vars

\* The consumer keeps polling, and a thread that is inside push goes on.
FairSpec ==
  /\ Spec
  /\ WF_vars(PopBatch)
  /\ \A p \in Producers : WF_vars(pusher[p].at # "idle" /\ Push(p))

-----------------------------------------------------------------------------
\* Pointers are numbers, and every slot, producer and batch has its type.
TypeOK ==
  /\ claimed \in 0 .. NumPushes
  /\ readPtr \in Nat
  /\ dropCounter \in Nat
  /\ slots \in [Slots -> [status : Status, record : 0 .. NumPushes]]
  /\ pusher \in [Producers -> [at : Steps, idx : 0 .. NumPushes, seen : Nat]]
  /\ popper \in [at : {"idle", "read", "load", "store"}, count : Nat, seen : Nat]
  /\ taken \in Seq(0 .. NumPushes)

\* No record is handed to the control plane twice, however far the producers
\* have run ahead of the consumer and whoever has moved the read pointer last.
PoppedOnce == IsInjective(taken)

\* As long as the drop counter is zero, pop_batch has returned the first records
\* that were claimed, all of them and in that order: "drop_counter == 0" is a
\* sound witness that nothing was lost, as the contention harness takes it to be.
NoDropNoLoss ==
  dropCounter = 0 => taken = [i \in 1 .. Len(taken) |-> i - 1]

\* Every record claimed is popped, unless a drop is counted: what the contention
\* harness asserts of its drain.
Drained ==
  \A n \in 1 .. NumPushes : claimed >= n ~> Len(taken) >= n \/ dropCounter > 0

-----------------------------------------------------------------------------
(***************************************************************************)
(* The inductive invariant behind PoppedOnce and NoDropNoLoss.             *)
(***************************************************************************)
Pushing == {p \in Producers : pusher[p].at # "idle"}
ReadySlots == {s \in Slots : IsReady(s)}
Popped == {taken[i] : i \in 1 .. Len(taken)}

\* A claimed number is in one place at most: with the producer that pushes it,
\* in a slot that is ready, or among the popped.
OnePlace ==
  /\ PoppedOnce
  /\ Popped \subseteq 0 .. claimed - 1
  /\ \A p \in Pushing :
       /\ pusher[p].idx < claimed /\ pusher[p].idx \notin Popped
       /\ \A q \in Pushing : pusher[p].idx = pusher[q].idx => p = q
  /\ \A s \in ReadySlots :
       /\ slots[s].record < claimed /\ slots[s].record \notin Popped
       /\ SlotOf(slots[s].record) = s
       /\ \A p \in Pushing : pusher[p].idx # slots[s].record

\* A producer that found no room counts a drop before it moves the pointer.
CountedFirst ==
  \A p \in Producers :
    /\ pusher[p].at \in {"count", "counted", "advance"} => pusher[p].idx >= Capacity
    /\ pusher[p].at = "advance" => dropCounter > 0

\* Without a drop the pointer is the consumer's alone: it is the number of
\* records popped, and nothing ready or about to be written is a turn ahead.
NothingOverwritten ==
  LET n == Len(taken)
  IN /\ taken = [i \in 1 .. n |-> i - 1]
     /\ popper.at \in {"idle", "read"} => readPtr = n
     /\ popper.at = "read" => popper.seen = n
     /\ popper.at \in {"load", "store"} => readPtr + popper.count = n
     /\ popper.at = "store" => popper.seen = readPtr
     /\ \A p \in Producers : pusher[p].at \in {"mark", "write"} => pusher[p].idx - n < Capacity
     /\ \A s \in ReadySlots : slots[s].record - n < Capacity

RingInv ==
  /\ TypeOK
  /\ OnePlace
  /\ CountedFirst
  /\ dropCounter = 0 => NothingOverwritten
=============================================================================
