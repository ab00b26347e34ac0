---------------------------- MODULE TelemetryBus ----------------------------
(***************************************************************************)
(* SharedTelemetryBus (src/backend/src/satcom_core/ipc_shared_bus.py): a   *)
(* ring of telemetry entries in shared memory, one producer that calls     *)
(* write_telemetry, several consumers that poll pop_telemetry and several  *)
(* viewers that call read_latest.                                          *)
(*                                                                         *)
(* Nothing in the code holds a lock: an entry is written and copied field  *)
(* by field, and the indices live in the header.  The model therefore      *)
(* splits each call at every access to shared memory that another process  *)
(* can observe.  An entry is abstracted to its first and its last part; a  *)
(* record is whole when both carry the same record number.  Records are    *)
(* numbered 1, 2, ... in the order of the write_telemetry calls; 0 is the  *)
(* zeroed memory of a fresh segment.                                       *)
(*                                                                         *)
(* written, taken and pos count without wrapping.  They are history: the   *)
(* code only has the indices modulo the ring size, and no guard of Next    *)
(* reads them except the bound on written.                                 *)
(***************************************************************************)
EXTENDS Integers, Sequences

CONSTANTS
  RingSize,    \* ring_size
  NumRecords,  \* bound: write_telemetry calls in a behaviour (NUM_METRICS)
  Consumers,   \* processes running consumer_process_task
  Viewers      \* processes calling read_latest

ASSUME RingSizeAssumption == RingSize \in Nat \ {0, 1}
ASSUME NumRecordsAssumption == NumRecords \in Nat
ASSUME ProcessesAssumption == Consumers \cap Viewers = {}

VARIABLES
  entries,     \* the ring: slot -> [first, last] record numbers
  writeIndex,  \* header.write_index
  readIndex,   \* header.read_index
  ppc,         \* where the producer is inside write_telemetry
  pc,          \* where each consumer or viewer is inside its call
  rIdx,        \* the r_idx (or latest_idx) a call has loaded
  half,        \* the first part of the entry a call is copying
  popped,      \* popped[c]: what c's pop_telemetry calls returned, in order
  latest,      \* latest[v]: what v's last read_latest returned, and pos then
  written,     \* history: records published
  taken,       \* history: successful claims of a slot
  pos          \* history: unwrapped position behind rIdx

vars == <<entries, writeIndex, readIndex, ppc, pc, rIdx, half, popped,
          latest, written, taken, pos>>

Processes == Consumers \cup Viewers
Slots == 0 .. RingSize - 1
RecordNumbers == 0 .. NumRecords
Entry == [first : RecordNumbers, last : RecordNumbers]
Blank == [first |-> 0, last |-> 0]

\* Two slips: an index that is never wrapped, and the slot about to be written
\* taken for the newest one.
AfterUnwrapped(i) == i + 1
BeforeUnchanged(i) == i

\* The index after i, and the one before it, around the ring.
After(i) == (i + 1) % RingSize
Before(i) == (i - 1) % RingSize

Init ==
  /\ entries = [s \in Slots |-> Blank]
  /\ writeIndex = 0
  /\ readIndex = 0
  /\ ppc = "idle"
  /\ pc = [c \in Processes |-> "idle"]
  /\ rIdx = [c \in Processes |-> 0]
  /\ half = [c \in Processes |-> 0]
  /\ popped = [c \in Consumers |-> <<>>]
  /\ latest = [v \in Viewers |-> [record |-> Blank, at |-> 0]]
  /\ written = 0
  /\ taken = 0
  /\ pos = [c \in Processes |-> 0]

-----------------------------------------------------------------------------
\* write_telemetry.  Only the producer moves write_index, so the w_idx it
\* loaded stays equal to writeIndex until it publishes.

WriteFirst ==
  /\ ppc = "idle"
  /\ written < NumRecords
  /\ entries' = [entries EXCEPT ![writeIndex] =
                  [first |-> written + 1, last |-> @.last]]
  /\ ppc' = "filling"
  /\ UNCHANGED <<writeIndex, readIndex, pc, rIdx, half, popped, latest,
                 written, taken, pos>>

WriteLast ==
  /\ ppc = "filling"
  /\ entries' = [entries EXCEPT ![writeIndex] =
                  [first |-> @.first, last |-> written + 1]]
  /\ ppc' = "filled"
  /\ UNCHANGED <<writeIndex, readIndex, pc, rIdx, half, popped, latest,
                 written, taken, pos>>

Publish ==
  /\ ppc = "filled"
  /\ writeIndex' = After(writeIndex)
  /\ written' = written + 1
  /\ ppc' = "idle"
  /\ UNCHANGED <<entries, readIndex, pc, rIdx, half, popped, latest, taken,
                 pos>>

-----------------------------------------------------------------------------
\* pop_telemetry: load read_index, load write_index, compare, claim the slot
\* with a compare-and-swap, and only then copy it.  A failed swap goes back
\* to the top of the loop, where a fresh call would start.

LoadReadIndex(c) ==
  /\ pc[c] = "idle"
  /\ rIdx' = [rIdx EXCEPT ![c] = readIndex]
  /\ pos' = [pos EXCEPT ![c] = taken]
  /\ pc' = [pc EXCEPT ![c] = "loaded"]
  /\ UNCHANGED <<entries, writeIndex, readIndex, ppc, half, popped, latest,
                 written, taken>>

\* A slip: "one entry left" is taken for an empty ring as well.
FindEmptyEarly(c) ==
  /\ pc[c] = "loaded"
  /\ writeIndex \in {rIdx[c], After(rIdx[c])}
  /\ pc' = [pc EXCEPT ![c] = "idle"]
  /\ UNCHANGED <<entries, writeIndex, readIndex, ppc, rIdx, half, popped,
                 latest, written, taken, pos>>

\* The ring looks empty: the call returns None.
FindEmpty(c) ==
  /\ pc[c] = "loaded"
  /\ rIdx[c] = writeIndex
  /\ pc' = [pc EXCEPT ![c] = "idle"]
  /\ UNCHANGED <<entries, writeIndex, readIndex, ppc, rIdx, half, popped,
                 latest, written, taken, pos>>

\* A slip: the indices are not compared before the claim.
FindEntryUnchecked(c) ==
  /\ pc[c] = "loaded"
  /\ pc' = [pc EXCEPT ![c] = "claiming"]
  /\ UNCHANGED <<entries, writeIndex, readIndex, ppc, rIdx, half, popped,
                 latest, written, taken, pos>>

FindEntry(c) ==
  /\ pc[c] = "loaded"
  /\ rIdx[c] # writeIndex
  /\ pc' = [pc EXCEPT ![c] = "claiming"]
  /\ UNCHANGED <<entries, writeIndex, readIndex, ppc, rIdx, half, popped,
                 latest, written, taken, pos>>

\* A slip: read_index is stored without being compared.
ClaimByStore(c) ==
  /\ pc[c] = "claiming"
  /\ readIndex' = After(rIdx[c])
  /\ taken' = taken + 1
  /\ pc' = [pc EXCEPT ![c] = "copying"]
  /\ UNCHANGED <<entries, writeIndex, ppc, rIdx, half, popped, latest,
                 written, pos>>

\* atomic_compare_and_swap succeeds: one atomic step, by the compiled helper
\* or under the named lock.
Claim(c) ==
  /\ pc[c] = "claiming"
  /\ readIndex = rIdx[c]
  /\ readIndex' = After(rIdx[c])
  /\ taken' = taken + 1
  /\ pc' = [pc EXCEPT ![c] = "copying"]
  /\ UNCHANGED <<entries, writeIndex, ppc, rIdx, half, popped, latest,
                 written, pos>>

LoseClaim(c) ==
  /\ pc[c] = "claiming"
  /\ readIndex # rIdx[c]
  /\ pc' = [pc EXCEPT ![c] = "idle"]
  /\ UNCHANGED <<entries, writeIndex, readIndex, ppc, rIdx, half, popped,
                 latest, written, taken, pos>>

CopyFirst(c) ==
  /\ pc[c] = "copying"
  /\ half' = [half EXCEPT ![c] = entries[rIdx[c]].first]
  /\ pc' = [pc EXCEPT ![c] = "copied"]
  /\ UNCHANGED <<entries, writeIndex, readIndex, ppc, rIdx, popped, latest,
                 written, taken, pos>>

\* What _copy_entry returns once it has read the last field.
Copied(c) == [first |-> half[c], last |-> entries[rIdx[c]].last]

ReturnRecord(c) ==
  /\ pc[c] = "copied"
  /\ popped' = [popped EXCEPT ![c] = Append(@, Copied(c))]
  /\ pc' = [pc EXCEPT ![c] = "idle"]
  /\ UNCHANGED <<entries, writeIndex, readIndex, ppc, rIdx, half, latest,
                 written, taken, pos>>

-----------------------------------------------------------------------------
\* A consumer process dies, anywhere in its polling; nothing in the header says
\* so.  A claim it holds is not given back ("lost").
Crash(c) ==
  /\ pc[c] \notin {"dead", "lost"}
  /\ pc' = [pc EXCEPT ![c] = IF @ \in {"copying", "copied"} THEN "lost" ELSE "dead"]
  /\ UNCHANGED <<entries, writeIndex, readIndex, ppc, rIdx, half, popped,
                 latest, written, taken, pos>>

-----------------------------------------------------------------------------
\* read_latest: the entry before write_index, with no claim and no check that
\* one was ever written.

LoadLatest(v) ==
  /\ pc[v] = "idle"
  /\ rIdx' = [rIdx EXCEPT ![v] = Before(writeIndex)]
  /\ pos' = [pos EXCEPT ![v] = written - 1]
  /\ pc' = [pc EXCEPT ![v] = "copying"]
  /\ UNCHANGED <<entries, writeIndex, readIndex, ppc, half, popped, latest,
                 written, taken>>

ReturnLatest(v) ==
  /\ pc[v] = "copied"
  /\ latest' = [latest EXCEPT ![v] = [record |-> Copied(v), at |-> pos[v] + 1]]
  /\ pc' = [pc EXCEPT ![v] = "idle"]
  /\ UNCHANGED <<entries, writeIndex, readIndex, ppc, rIdx, half, popped,
                 written, taken, pos>>

-----------------------------------------------------------------------------
Pop(c) ==
  \/ LoadReadIndex(c)
  \/ FindEmpty(c)
  \/ FindEntry(c)
  \/ Claim(c)
  \/ LoseClaim(c)
  \/ CopyFirst(c)
  \/ ReturnRecord(c)

ReadLatest(v) == LoadLatest(v) \/ CopyFirst(v) \/ ReturnLatest(v)

Readers ==
  \/ \E c \in Consumers : Pop(c) \/ Crash(c)
  \/ \E v \in Viewers : ReadLatest(v)

Next == WriteFirst \/ WriteLast \/ Publish \/ Readers

Spec == Init /\ [][Next]_vars

-----------------------------------------------------------------------------
(***************************************************************************)
(* Two ways a producer can be slow enough.  Neither is in the code, which  *)
(* never looks at read_index before it writes: they are assumptions on the *)
(* rate of the strides, and the runs say which one they need.              *)
(***************************************************************************)

\* The producer never fills the ring: fewer than RingSize - 1 unread records.
NeverFull == written - taken < RingSize - 1

\* No call in progress is lapped: the producer also stays within one turn of
\* the ring of the oldest position some call still works from.  A ring deeper
\* than the whole recording (the 8192 slots for 5000 frames of
\* src/tests/ipc_sync_verifier.py) is always paced.
InFlight == {c \in Processes : pc[c] \notin {"idle", "dead", "lost"}}
Paced == NeverFull /\ \A c \in InFlight : written - pos[c] < RingSize - 1

NeverFullNext == (NeverFull /\ WriteFirst) \/ WriteLast \/ Publish \/ Readers
NeverFullSpec == Init /\ [][NeverFullNext]_vars

PacedNext == (Paced /\ WriteFirst) \/ WriteLast \/ Publish \/ Readers
PacedSpec == Init /\ [][PacedNext]_vars

\* The operating system keeps scheduling every process; the producer finishes
\* a write it began, but nothing obliges it to begin one.
Fairness ==
  /\ WF_vars(WriteLast)
  /\ WF_vars(Publish)
  /\ \A c \in Consumers : WF_vars(Pop(c))
  /\ \A v \in Viewers : WF_vars(ReadLatest(v))

PacedFairSpec == PacedSpec /\ Fairness

-----------------------------------------------------------------------------
\* Every index, counter and copy stays in range.
TypeOK ==
  /\ entries \in [Slots -> Entry]
  /\ writeIndex \in Slots
  /\ readIndex \in Slots
  /\ ppc \in {"idle", "filling", "filled"}
  /\ pc \in [Processes -> {"idle", "loaded", "claiming", "copying", "copied",
                          "dead", "lost"}]
  /\ rIdx \in [Processes -> Slots]
  /\ half \in [Processes -> RecordNumbers]
  /\ popped \in [Consumers -> Seq(Entry)]
  /\ latest \in [Viewers -> [record : Entry, at : RecordNumbers]]
  /\ written \in RecordNumbers
  /\ taken \in Nat
  /\ pos \in [Processes -> Int]

\* No popped or displayed record mixes the fields of two writes: although a
\* slot is copied after it was released, and read_latest claims nothing, the
\* producer was never writing the slot meanwhile.
RecordsWhole ==
  /\ \A c \in Consumers : \A i \in DOMAIN popped[c] :
       popped[c][i].first = popped[c][i].last
  /\ \A v \in Viewers : latest[v].record.first = latest[v].record.last

\* read_latest returns the record that was newest when it looked at
\* write_index, or the zeroed entry when nothing had been published yet.
LatestIsNewest ==
  \A v \in Viewers : latest[v].record.first = latest[v].at

\* No record is popped twice, by one consumer or by two: the harness of
\* ipc_shared_bus.py counts equal frame indices over all consumers and
\* asserts that there are none.
PoppedOnce ==
  \A c, d \in Consumers : \A i \in DOMAIN popped[c] : \A j \in DOMAIN popped[d] :
    popped[c][i].first = popped[d][j].first => c = d /\ i = j

\* A consumer that keeps polling gets records in the order they were written.
PoppedInOrder ==
  \A c \in Consumers : \A i, j \in DOMAIN popped[c] :
    i < j => popped[c][i].first < popped[c][j].first

\* The abstract queue: a record is handed over at the moment its slot is
\* claimed, although the consumer has not copied it yet.
Claimed(c) ==
  IF pc[c] \in {"copying", "copied", "lost"} THEN <<pos[c] + 1>> ELSE <<>>

Firsts(records) == [i \in DOMAIN records |-> records[i].first]

Queue == INSTANCE RecordQueue WITH
  published <- written,
  handed <- taken,
  got <- [c \in Consumers |-> Firsts(popped[c]) \o Claimed(c)]

\* The bus is a FIFO queue of whole records shared by all consumers.
ImplementsQueue == Queue!Spec

\* Every published record is eventually popped, as long as some consumer lives.
\* A consumer that dies takes at most one record with it, the one it had claimed;
\* it neither blocks the others nor makes them miss another.
PoppedBySomeone(n) ==
  \E c \in Consumers : \E i \in DOMAIN popped[c] : popped[c][i].first = n
LostWithItsClaim(n) == \E c \in Consumers : pc[c] = "lost" /\ pos[c] + 1 = n
NobodyLives == \A c \in Consumers : pc[c] \in {"dead", "lost"}

EveryRecordPopped ==
  \A n \in 1 .. NumRecords :
    written >= n ~> PoppedBySomeone(n) \/ LostWithItsClaim(n) \/ NobodyLives

-----------------------------------------------------------------------------
(***************************************************************************)
(* The inductive invariant behind the properties above, under pacing.      *)
(***************************************************************************)

\* How far the producer may be ahead of a call in progress.  A viewer does
\* not look at read_index, so it may start one record nearer to the edge.
Reach(p) == IF p \in Consumers THEN RingSize - 1 ELSE RingSize

\* The header and every loaded index are the positions, modulo the ring size.
Indices ==
  /\ writeIndex = written % RingSize
  /\ readIndex = taken % RingSize
  /\ \A p \in InFlight : rIdx[p] = pos[p] % RingSize

\* The producer is at most a ring ahead, and strictly less while it writes.
Window ==
  /\ taken <= written
  /\ written - taken <= RingSize - 1
  /\ ppc # "idle" => written - taken < RingSize - 1 /\ written < NumRecords
  /\ \A p \in InFlight :
       /\ written - pos[p] <= Reach(p)
       /\ ppc # "idle" => written - pos[p] < Reach(p)

\* A consumer that has claimed a record it has not returned.
Holds(c) == pc[c] \in {"copying", "copied", "lost"}

\* What a call in progress knows about its position.
Positions ==
  /\ \A c \in Consumers :
       /\ pc[c] \notin {"idle", "dead"} => pos[c] >= 0 /\ pos[c] <= taken
       /\ pc[c] = "claiming" => pos[c] < written
       /\ Holds(c) => pos[c] < taken
  /\ \A v \in Viewers :
       /\ pc[v] \in {"idle", "copying", "copied"}
       /\ pc[v] # "idle" => pos[v] >= -1 /\ pos[v] < written

\* The record written at position p; position -1 is the zeroed entry.
RecordAt(p) == [first |-> p + 1, last |-> p + 1]

\* The last turn of the ring holds the last records, except for the slot that
\* is being written.
Contents ==
  /\ \A p \in written - RingSize .. written - 1 :
       p >= -1 /\ (ppc # "idle" => written - p < RingSize)
       => entries[p % RingSize] = RecordAt(p)
  /\ ppc # "idle" => entries[writeIndex].first = written + 1
  /\ ppc = "filled" => entries[writeIndex].last = written + 1

HalfCopied == \A p \in Processes : pc[p] = "copied" => half[p] = pos[p] + 1

\* Consumers hold and have popped different records, all of them claimed.
ClaimsDiffer ==
  /\ \A c, d \in Consumers : Holds(c) /\ Holds(d) /\ pos[c] = pos[d] => c = d
  /\ \A c, d \in Consumers : \A i \in DOMAIN popped[d] :
       Holds(c) => popped[d][i].first # pos[c] + 1
  /\ \A c \in Consumers : \A i \in DOMAIN popped[c] :
       /\ popped[c][i].first <= taken
       /\ Holds(c) => popped[c][i].first < pos[c] + 1

BusInv ==
  /\ TypeOK
  /\ Indices
  /\ Window
  /\ Positions
  /\ Contents
  /\ HalfCopied
  /\ ClaimsDiffer
  /\ RecordsWhole
  /\ LatestIsNewest
  /\ PoppedOnce
  /\ PoppedInOrder
=============================================================================
