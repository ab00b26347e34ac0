------------------------- MODULE TelemetryBus_proofs -------------------------
(***************************************************************************)
(* Proofs about TelemetryBus, for every ring size, number of records and   *)
(* set of processes.  TypeCorrect holds of the bus as it is coded; the     *)
(* results on what is popped need the pacing assumption (PacedSpec).       *)
(***************************************************************************)
EXTENDS TelemetryBus, CommonLemmas, SequenceTheorems, TLAPS

-----------------------------------------------------------------------------
(***************************************************************************)
(* Arithmetic of positions and slots.                                      *)
(***************************************************************************)

\* Moving an index one step around the ring is moving the position one step.
LEMMA AfterPosition ==
  ASSUME NEW a \in Int
  PROVE  After(a % RingSize) = (a + 1) % RingSize
<1>1. \A b, d \in Int : ((b % RingSize) + d) % RingSize = (b + d) % RingSize
  <2>1. RingSize \in Nat \ {0}
    BY RingSizeAssumption
  <2> QED BY <2>1, ModAdd, Zenon
<1>2. ((a % RingSize) + 1) % RingSize = (a + 1) % RingSize
  BY <1>1
<1> QED BY <1>2 DEF After

\* The slot before the one of position k is the slot of position k - 1.
LEMMA BeforePosition ==
  ASSUME NEW a \in Int
  PROVE  Before(a % RingSize) = (a - 1) % RingSize
<1>1. \A b, d \in Int : ((b % RingSize) + d) % RingSize = (b + d) % RingSize
  <2>1. RingSize \in Nat \ {0}
    BY RingSizeAssumption
  <2> QED BY <2>1, ModAdd, Zenon
<1>2. a % RingSize \in Int
  BY RingSizeAssumption, DivMod
<1>3. ((a % RingSize) + (-1)) % RingSize = (a + (-1)) % RingSize
  BY <1>1
<1>4. a + (-1) = a - 1 /\ (a % RingSize) + (-1) = (a % RingSize) - 1
  BY <1>2
<1> QED BY <1>3, <1>4 DEF Before

\* A position taken modulo the ring size is a slot.
LEMMA PositionSlot ==
  ASSUME NEW a \in Int
  PROVE  /\ a % RingSize \in Slots
         /\ After(a) \in Slots
         /\ Before(a) \in Slots
  BY RingSizeAssumption, DivMod DEF Slots, After, Before

\* The slots are an interval that holds its two ends.
LEMMA SlotsFinite == Slots = 0 .. RingSize - 1 /\ 0 \in Slots /\ RingSize - 1 \in Nat
  BY RingSizeAssumption DEF Slots

-----------------------------------------------------------------------------
(***************************************************************************)
(* Type correctness of the bus as coded, with no pacing: neither the       *)
(* indices nor the record numbers ever leave their range.                  *)
(***************************************************************************)
TypeInv ==
  /\ TypeOK
  /\ ppc # "idle" => written < NumRecords
  /\ \A v \in Viewers : pc[v] # "idle" => pos[v] + 1 \in RecordNumbers
  /\ \A c \in Consumers : pc[c] \notin {"idle", "dead"} => pos[c] >= 0

\* The constructor leaves every field in range.
LEMMA TypeInit == Init => TypeInv
<1> SUFFICES ASSUME Init PROVE TypeInv
  OBVIOUS
<1>1. 0 \in RecordNumbers /\ Blank \in Entry
  BY NumRecordsAssumption DEF RecordNumbers, Blank, Entry
<1>2. TypeOK
  BY <1>1, SlotsFinite DEF Init, TypeOK, Processes
<1> QED BY <1>2 DEF Init, TypeInv, Processes

\* Every step of the bus, paced or not, keeps every field in range.
LEMMA TypeStep == TypeInv /\ [Next]_vars => TypeInv'
<1> SUFFICES ASSUME TypeInv, [Next]_vars PROVE TypeInv'
  OBVIOUS
<1> USE DEF TypeInv, TypeOK
<1>0. RecordNumbers = 0 .. NumRecords /\ NumRecords \in Nat
  BY NumRecordsAssumption DEF RecordNumbers
<1>1. CASE WriteFirst
  <2>1. written + 1 \in RecordNumbers
    BY <1>0, <1>1 DEF WriteFirst
  <2>2. entries' \in [Slots -> Entry]
    BY <1>1, <2>1 DEF WriteFirst, Entry
  <2> QED BY <1>1, <1>0, <2>2 DEF WriteFirst
<1>2. CASE WriteLast
  <2>1. written + 1 \in RecordNumbers
    BY <1>0, <1>2 DEF WriteLast
  <2>2. entries' \in [Slots -> Entry]
    BY <1>2, <2>1 DEF WriteLast, Entry
  <2> QED BY <1>2, <1>0, <2>2 DEF WriteLast
<1>3. CASE Publish
  <2>1. writeIndex' \in Slots
    BY <1>3, SlotsFinite, PositionSlot DEF Publish
  <2>2. written' \in RecordNumbers
    BY <1>0, <1>3 DEF Publish
  <2> QED BY <1>3, <2>1, <2>2 DEF Publish
<1>4. ASSUME NEW c \in Consumers, Pop(c) PROVE TypeInv'
  <2>0. c \in Processes /\ c \notin Viewers
    BY ProcessesAssumption DEF Processes
  <2>1. CASE LoadReadIndex(c)
    BY <2>1, <2>0 DEF LoadReadIndex
  <2>2. CASE FindEmpty(c)
    BY <2>2, <2>0 DEF FindEmpty
  <2>3. CASE FindEntry(c)
    BY <2>3, <2>0 DEF FindEntry
  <2>4. CASE Claim(c)
    <3>1. readIndex' \in Slots
      BY <2>4, <2>0, SlotsFinite, PositionSlot DEF Claim
    <3> QED BY <2>4, <2>0, <3>1 DEF Claim
  <2>5. CASE LoseClaim(c)
    BY <2>5, <2>0 DEF LoseClaim
  <2>6. CASE CopyFirst(c)
    <3>1. entries[rIdx[c]].first \in RecordNumbers
      BY <2>0 DEF Entry
    <3> QED BY <2>6, <2>0, <3>1 DEF CopyFirst
  <2>7. CASE ReturnRecord(c)
    <3>1. Copied(c) \in Entry
      BY <2>0 DEF Copied, Entry
    <3>2. popped' \in [Consumers -> Seq(Entry)]
      BY <2>7, <3>1 DEF ReturnRecord
    <3> QED BY <2>7, <2>0, <3>2 DEF ReturnRecord
  <2> QED BY <1>4, <2>1, <2>2, <2>3, <2>4, <2>5, <2>6, <2>7 DEF Pop
<1>5. ASSUME NEW v \in Viewers, ReadLatest(v) PROVE TypeInv'
  <2>0. v \in Processes
    BY DEF Processes
  <2>1. CASE LoadLatest(v)
    <3>1. rIdx' \in [Processes -> Slots]
      BY <2>1, <2>0, SlotsFinite, PositionSlot DEF LoadLatest
    <3>2. pos' \in [Processes -> Int] /\ pos'[v] + 1 \in RecordNumbers
      BY <2>1, <2>0, <1>0 DEF LoadLatest
    <3>3. \A c \in Consumers : pc'[c] = pc[c] /\ pos'[c] = pos[c]
      BY <2>1, <2>0, ProcessesAssumption DEF LoadLatest, Processes
    <3>4. TypeOK'
      BY <2>1, <2>0, <3>1, <3>2 DEF LoadLatest
    <3>5. \A w \in Viewers : w # v => pc'[w] = pc[w] /\ pos'[w] = pos[w]
      BY <2>1, <2>0 DEF LoadLatest, Processes
    <3> QED BY <2>1, <3>2, <3>3, <3>4, <3>5 DEF LoadLatest
  <2>2. CASE CopyFirst(v)
    <3>1. entries[rIdx[v]].first \in RecordNumbers
      BY <2>0 DEF Entry
    <3> QED BY <2>2, <2>0, <3>1 DEF CopyFirst
  <2>3. CASE ReturnLatest(v)
    <3>1. Copied(v) \in Entry
      BY <2>0 DEF Copied, Entry
    <3> QED BY <2>3, <2>0, <3>1 DEF ReturnLatest
  <2> QED BY <1>5, <2>1, <2>2, <2>3 DEF ReadLatest
<1>6. ASSUME NEW c \in Consumers, Crash(c) PROVE TypeInv'
  <2>1. c \in Processes /\ c \notin Viewers
    BY ProcessesAssumption DEF Processes
  <2> QED BY <1>6, <2>1 DEF Crash
<1>7. CASE UNCHANGED vars
  BY <1>7 DEF vars
<1> QED BY <1>1, <1>2, <1>3, <1>4, <1>5, <1>6, <1>7 DEF Next, Readers

\* No index ever leaves the ring and no copy returns anything but what some
\* write_telemetry stored, however fast the producer is.
THEOREM TypeCorrect == Spec => []TypeOK
<1>1. TypeInv => TypeOK
  BY DEF TypeInv
<1> QED BY <1>1, TypeInit, TypeStep, PTL DEF Spec

-----------------------------------------------------------------------------
(***************************************************************************)
(* The inductive invariant, one lemma per step of the bus.                 *)
(***************************************************************************)

\* The bus invariant contains the typing facts the steps use.
LEMMA BusInvTypes == BusInv => TypeInv
  BY NumRecordsAssumption
  DEF BusInv, TypeInv, Window, Positions, TypeOK, Processes, RecordNumbers

\* The facts about a call in progress that copying an entry rests on: its
\* slot still holds the record at its position.
LEMMA CopySees ==
  ASSUME BusInv, NEW p \in Processes, pc[p] \in {"copying", "copied"}
  PROVE  entries[rIdx[p]] = RecordAt(pos[p])
<1> USE DEF BusInv, TypeOK
<1>1. p \in InFlight
  BY DEF InFlight
<1>2. /\ pos[p] \in Int /\ written \in Int /\ RingSize \in Nat /\ taken \in Int
      /\ Reach(p) \in {RingSize - 1, RingSize}
  BY RingSizeAssumption, NumRecordsAssumption DEF RecordNumbers, Reach
<1>3. pos[p] >= -1 /\ pos[p] < written
  <2>1. CASE p \in Consumers
    <3>1. Holds(p) /\ pc[p] \notin {"idle", "dead"}
      BY DEF Holds
    <3>2. pos[p] >= 0 /\ pos[p] < taken
      BY <2>1, <3>1 DEF Positions
    <3>3. taken <= written
      BY DEF Window
    <3> QED BY <1>2, <3>2, <3>3
  <2>2. CASE p \in Viewers
    <3>1. pc[p] # "idle"
      OBVIOUS
    <3> QED BY <2>2, <3>1 DEF Positions
  <2> QED BY <2>1, <2>2 DEF Processes
<1>4. written - pos[p] <= RingSize /\ (ppc # "idle" => written - pos[p] < RingSize)
  BY <1>1, <1>2 DEF Window
<1>5. pos[p] \in written - RingSize .. written - 1
  BY <1>2, <1>3, <1>4
<1>6. entries[pos[p] % RingSize] = RecordAt(pos[p])
  BY <1>3, <1>4, <1>5 DEF Contents
<1> QED BY <1>1, <1>6 DEF Indices

\* What the type invariant says of a popped record.
LEMMA PoppedTyped ==
  ASSUME TypeOK, NEW c \in Consumers, NEW i \in DOMAIN popped[c]
  PROVE  popped[c][i] \in Entry /\ popped[c][i].first \in Int
<1>1. popped[c] \in Seq(Entry)
  BY DEF TypeOK
<1>2. popped[c][i] \in Entry
  BY <1>1
<1> QED BY <1>2, NumRecordsAssumption DEF Entry, RecordNumbers

\* While the producer writes, no live position shares its slot.
LEMMA WritesElsewhere ==
  ASSUME BusInv, NEW q \in Int, q < written, written - q < RingSize
  PROVE  q % RingSize # writeIndex
<1>1. writeIndex = written % RingSize /\ written \in Int
  BY NumRecordsAssumption DEF BusInv, Indices, TypeOK, RecordNumbers
<1>2. SUFFICES ASSUME q % RingSize = written % RingSize PROVE FALSE
  BY <1>1
<1>3. RingSize \in Nat \ {0} /\ q <= written
  BY RingSizeAssumption, <1>1
<1>4. q = written
  BY <1>1, <1>2, <1>3, SameSlot
<1> QED BY <1>1, <1>4

\* A fresh segment satisfies the bus invariant.
LEMMA InitBus == Init => BusInv
<1> SUFFICES ASSUME Init PROVE BusInv
  OBVIOUS
<1> USE DEF Init
<1>1. TypeOK
  BY TypeInit DEF TypeInv
<1>2. InFlight = {}
  BY DEF InFlight, Processes
<1>3. Indices
  <2>1. 0 % RingSize = 0
    BY RingSizeAssumption
  <2> QED BY <1>2, <2>1 DEF Indices
<1>4. Window
  BY <1>2, RingSizeAssumption DEF Window
<1>5. Positions /\ HalfCopied /\ ClaimsDiffer
  BY DEF Positions, HalfCopied, ClaimsDiffer, Holds, Processes
<1>6. Contents
  <2> SUFFICES ASSUME NEW p \in 0 - RingSize .. 0 - 1, p >= -1
               PROVE  entries[p % RingSize] = RecordAt(p)
    BY DEF Contents
  <2>1. p = -1
    BY RingSizeAssumption
  <2>2. p % RingSize \in Slots
    BY <2>1, PositionSlot
  <2> QED BY <2>1, <2>2 DEF RecordAt, Blank
<1>7. RecordsWhole /\ LatestIsNewest /\ PoppedOnce /\ PoppedInOrder
  BY DEF RecordsWhole, LatestIsNewest, PoppedOnce, PoppedInOrder, Blank
<1> QED BY <1>1, <1>3, <1>4, <1>5, <1>6, <1>7 DEF BusInv

\* The invariants on results mention only these variables.
LEMMA ResultsUnchanged ==
  ASSUME RecordsWhole, LatestIsNewest, PoppedOnce, PoppedInOrder,
         UNCHANGED <<popped, latest>>
  PROVE  RecordsWhole' /\ LatestIsNewest' /\ PoppedOnce' /\ PoppedInOrder'
  BY DEF RecordsWhole, LatestIsNewest, PoppedOnce, PoppedInOrder

\* The producer starts to overwrite a slot: pacing puts it outside the window
\* of every call in progress.
LEMMA StepWriteFirst ==
  ASSUME BusInv, TypeOK', Paced, WriteFirst
  PROVE  BusInv'
<1> USE DEF BusInv, WriteFirst
<1>0. /\ written \in Int /\ taken \in Int /\ RingSize \in Nat /\ NumRecords \in Nat
      /\ \A p \in Processes : pos[p] \in Int /\ Reach(p) \in {RingSize - 1, RingSize}
      /\ InFlight' = InFlight /\ InFlight \subseteq Processes
  BY RingSizeAssumption, NumRecordsAssumption
  DEF TypeOK, RecordNumbers, Reach, InFlight
<1>1. Indices'
  BY <1>0 DEF Indices
<1>2. Window'
  <2>1. written - taken < RingSize - 1
    BY DEF Paced, NeverFull
  <2>2. \A p \in InFlight : written - pos[p] < RingSize - 1
    BY DEF Paced
  <2>3. \A p : Reach(p)' = Reach(p)
    BY DEF Reach
  <2> QED BY <1>0, <2>1, <2>2, <2>3 DEF Window
<1>3. Positions' /\ HalfCopied' /\ ClaimsDiffer'
  BY DEF Positions, HalfCopied, ClaimsDiffer, Holds
<1>4. Contents'
  <2>1. entries'[writeIndex].first = written + 1
    BY DEF TypeOK
  <2>2. ASSUME NEW p \in written - RingSize .. written - 1,
               p >= -1, written - p < RingSize
        PROVE  entries'[p % RingSize] = RecordAt(p)
    <3>1. entries[p % RingSize] = RecordAt(p)
      BY <2>2 DEF Contents
    <3>2. p \in Int /\ p < written
      BY <1>0
    <3>3. p % RingSize # writeIndex /\ p % RingSize \in Slots
      BY <2>2, <3>2, WritesElsewhere, PositionSlot
    <3> QED BY <3>1, <3>3 DEF TypeOK
  <2>3. \A p : RecordAt(p)' = RecordAt(p)
    BY DEF RecordAt
  <2> QED BY <2>1, <2>2, <2>3 DEF Contents
<1> QED BY <1>1, <1>2, <1>3, <1>4, ResultsUnchanged

\* The producer completes the slot it has started.
LEMMA StepWriteLast ==
  ASSUME BusInv, TypeOK', WriteLast
  PROVE  BusInv'
<1> USE DEF BusInv, WriteLast
<1>0. /\ written \in Int /\ RingSize \in Nat
      /\ InFlight' = InFlight
  BY RingSizeAssumption, NumRecordsAssumption DEF TypeOK, RecordNumbers, InFlight
<1>1. Indices'
  BY <1>0 DEF Indices
<1>2. Window'
  BY <1>0 DEF Window, Reach
<1>3. Positions' /\ HalfCopied' /\ ClaimsDiffer'
  BY DEF Positions, HalfCopied, ClaimsDiffer, Holds
<1>4. Contents'
  <2>1. entries'[writeIndex].first = written + 1 /\ entries'[writeIndex].last = written + 1
    BY DEF TypeOK, Contents
  <2>2. ASSUME NEW p \in written - RingSize .. written - 1,
               p >= -1, written - p < RingSize
        PROVE  entries'[p % RingSize] = RecordAt(p)
    <3>1. entries[p % RingSize] = RecordAt(p)
      BY <2>2 DEF Contents
    <3>2. p \in Int /\ p < written
      BY <1>0
    <3>3. p % RingSize # writeIndex /\ p % RingSize \in Slots
      BY <2>2, <3>2, WritesElsewhere, PositionSlot
    <3> QED BY <3>1, <3>3 DEF TypeOK
  <2>3. \A p : RecordAt(p)' = RecordAt(p)
    BY DEF RecordAt
  <2> QED BY <2>1, <2>2, <2>3 DEF Contents
<1> QED BY <1>1, <1>2, <1>3, <1>4, ResultsUnchanged

\* write_index moves past a completed slot: one more record in the window.
LEMMA StepPublish ==
  ASSUME BusInv, TypeOK', Publish
  PROVE  BusInv'
<1> USE DEF BusInv, Publish
<1>0. /\ written \in Int /\ taken \in Int /\ RingSize \in Nat \ {0}
      /\ \A p \in Processes : pos[p] \in Int /\ Reach(p) \in Int
      /\ InFlight' = InFlight /\ InFlight \subseteq Processes
      /\ \A p : Reach(p)' = Reach(p)
  BY RingSizeAssumption, NumRecordsAssumption
  DEF TypeOK, RecordNumbers, Reach, InFlight
<1>1. Indices'
  BY <1>0, AfterPosition DEF Indices
<1>2. Window'
  BY <1>0 DEF Window
<1>3. Positions' /\ HalfCopied' /\ ClaimsDiffer'
  BY <1>0 DEF Positions, HalfCopied, ClaimsDiffer, Holds, Processes
<1>4. Contents'
  <2>1. entries[writeIndex] = RecordAt(written)
    BY DEF Contents, TypeOK, Entry, RecordAt
  <2>2. ASSUME NEW p \in written + 1 - RingSize .. written, p >= -1
        PROVE  entries[p % RingSize] = RecordAt(p)
    <3>1. CASE p = written
      BY <2>1, <3>1 DEF Indices
    <3>2. CASE p # written
      <4>1. p \in written - RingSize .. written - 1 /\ written - p < RingSize
        BY <1>0, <3>2
      <4> QED BY <2>2, <4>1 DEF Contents
    <3> QED BY <3>1, <3>2
  <2>3. \A p : RecordAt(p)' = RecordAt(p)
    BY DEF RecordAt
  <2>4. written' - RingSize = written + 1 - RingSize /\ written' - 1 = written
    BY <1>0
  <2> QED BY <2>2, <2>3, <2>4 DEF Contents
<1> QED BY <1>1, <1>2, <1>3, <1>4, ResultsUnchanged

\* A step that only moves the program counter of c, to a state where it holds
\* no record, keeps every part of the invariant but the position of c.
LEMMA StepControl ==
  ASSUME BusInv, TypeOK', NEW c \in Consumers, pc[c] \notin {"idle", "dead"}, ~Holds(c),
         NEW next \in {"idle", "loaded", "claiming"},
         pc' = [pc EXCEPT ![c] = next],
         next = "claiming" => pos[c] < written,
         UNCHANGED <<entries, writeIndex, readIndex, ppc, rIdx, half, popped,
                     latest, written, taken, pos>>
  PROVE  BusInv'
<1> USE DEF BusInv
<1>0. c \in Processes /\ c \notin Viewers /\ InFlight' \subseteq InFlight
      /\ InFlight \subseteq Processes
  BY ProcessesAssumption DEF Processes, InFlight, TypeOK, Holds
<1>1. Indices'
  BY <1>0 DEF Indices
<1>2. Window'
  BY <1>0 DEF Window, Reach
<1>3. Positions'
  <2>1. \A d \in Processes : d # c => pc'[d] = pc[d]
    BY <1>0 DEF TypeOK
  <2>2. pc'[c] = next
    BY <1>0 DEF TypeOK
  <2> QED BY <1>0, <2>1, <2>2 DEF Positions, Processes, Holds
<1>4. \A d \in Processes : Holds(d)' = Holds(d) /\ (pc'[d] = "copied") = (pc[d] = "copied")
  BY <1>0 DEF Holds, TypeOK
<1>5. HalfCopied' /\ ClaimsDiffer'
  BY <1>4 DEF HalfCopied, ClaimsDiffer, Processes
<1>6. Contents'
  BY DEF Contents, RecordAt
<1> QED BY <1>1, <1>2, <1>3, <1>5, <1>6, ResultsUnchanged

\* A consumer that dies keeps the claim it holds, and is no longer one the
\* producer has to wait for.
LEMMA StepCrash ==
  ASSUME BusInv, TypeOK', NEW c \in Consumers, Crash(c)
  PROVE  BusInv'
<1> USE DEF BusInv, Crash
<1>0. /\ c \in Processes /\ c \notin Viewers
      /\ pc'[c] = (IF pc[c] \in {"copying", "copied"} THEN "lost" ELSE "dead")
      /\ \A d \in Processes : d # c => pc'[d] = pc[d]
  BY ProcessesAssumption DEF Processes, TypeOK
<1>1. InFlight' \subseteq InFlight /\ InFlight \subseteq Processes
  BY <1>0 DEF InFlight
<1>2. \A d \in Processes : Holds(d)' = Holds(d) /\ (pc'[d] = "copied" => pc[d] = "copied")
  BY <1>0 DEF Holds
<1>3. Indices'
  BY <1>1 DEF Indices
<1>4. Window'
  BY <1>1 DEF Window, Reach
<1>5. Positions'
  BY <1>0, <1>2 DEF Positions, Processes, Holds
<1>6. HalfCopied' /\ ClaimsDiffer'
  BY <1>2 DEF HalfCopied, ClaimsDiffer, Processes
<1>7. Contents'
  BY DEF Contents, RecordAt
<1> QED BY <1>3, <1>4, <1>5, <1>6, <1>7, ResultsUnchanged

\* A pop that loads read_index starts from the current position.
LEMMA StepLoadReadIndex ==
  ASSUME BusInv, TypeOK', NEW c \in Consumers, LoadReadIndex(c)
  PROVE  BusInv'
<1> USE DEF BusInv, LoadReadIndex
<1>0. /\ c \in Processes /\ c \notin Viewers
      /\ InFlight' = InFlight \cup {c} /\ InFlight \subseteq Processes
      /\ written \in Int /\ taken \in Nat /\ RingSize \in Nat
      /\ pc'[c] = "loaded"
      /\ pos'[c] = taken /\ rIdx'[c] = readIndex
      /\ \A d \in Processes : d # c => /\ pos'[d] = pos[d] /\ rIdx'[d] = rIdx[d]
                                       /\ pc'[d] = pc[d]
  BY ProcessesAssumption, RingSizeAssumption
  DEF Processes, InFlight, TypeOK, RecordNumbers
<1>1. Indices'
  BY <1>0 DEF Indices
<1>2. Window'
  BY <1>0 DEF Window, Reach
<1>3. Positions'
  BY <1>0 DEF Positions, Window, Processes, Holds
<1>4. \A d \in Processes : Holds(d)' = (d # c /\ Holds(d))
                           /\ (pc'[d] = "copied" => d # c /\ pc[d] = "copied")
  BY <1>0 DEF Holds
<1>5. HalfCopied'
  BY <1>0, <1>4 DEF HalfCopied
<1>6. ClaimsDiffer'
  <2>1. \A d \in Consumers : Holds(d)' => Holds(d) /\ pos'[d] = pos[d]
    BY <1>0, <1>4 DEF Processes
  <2> QED BY <2>1 DEF ClaimsDiffer
<1>7. Contents'
  BY DEF Contents, RecordAt
<1> QED BY <1>1, <1>2, <1>3, <1>5, <1>6, <1>7, ResultsUnchanged

\* A consumer that found an entry is behind the producer.
LEMMA StepFindEntry ==
  ASSUME BusInv, TypeOK', NEW c \in Consumers, FindEntry(c)
  PROVE  BusInv'
<1> USE DEF BusInv, FindEntry
<1>1. c \in Processes /\ c \in InFlight
  BY DEF Processes, InFlight
<1>2. pos[c] % RingSize # written % RingSize
  BY <1>1 DEF Indices
<1>3. pos[c] \in Int /\ taken \in Int /\ written \in Int
      /\ pos[c] <= taken /\ taken <= written
  <2>1. pos[c] \in Int /\ taken \in Int /\ written \in Int
    BY <1>1 DEF TypeOK, RecordNumbers
  <2>2. pc[c] = "loaded"
    OBVIOUS
  <2>3. pos[c] <= taken
    BY <2>2 DEF Positions
  <2>4. taken <= written
    BY DEF Window
  <2> QED BY <2>1, <2>3, <2>4
<1>4. pos[c] < written
  BY <1>2, <1>3
<1> QED BY <1>4, StepControl DEF Holds

\* The compare-and-swap compares slots; because no call is lapped, equal slots
\* are equal positions, and the claim is of the oldest unread record.
LEMMA ClaimsOldest ==
  ASSUME BusInv, NEW c \in Consumers, Claim(c)
  PROVE  pos[c] = taken
<1> USE DEF BusInv, Claim
<1>1. /\ c \in Processes /\ c \in InFlight
      /\ written \in Int /\ taken \in Int /\ RingSize \in Nat \ {0}
      /\ pos[c] \in Int
  BY RingSizeAssumption DEF Processes, InFlight, TypeOK, RecordNumbers
<1>2. pos[c] <= taken /\ taken <= written /\ written - pos[c] <= RingSize - 1
  BY <1>1 DEF Positions, Window, Reach
<1>3. pos[c] % RingSize = taken % RingSize
  BY <1>1 DEF Indices
<1>4. taken - pos[c] < RingSize
  BY <1>1, <1>2
<1> QED BY <1>1, <1>2, <1>3, <1>4, SameSlot

\* A swap that succeeds does so at the position that was loaded: equal indices
\* less than a turn apart are equal positions.
LEMMA StepClaim ==
  ASSUME BusInv, TypeOK', NEW c \in Consumers, Claim(c)
  PROVE  BusInv'
<1> USE DEF BusInv, Claim
<1>0. /\ c \in Processes /\ c \notin Viewers /\ c \in InFlight
      /\ InFlight' = InFlight /\ InFlight \subseteq Processes
      /\ written \in Int /\ taken \in Nat /\ RingSize \in Nat \ {0}
      /\ \A d \in Processes : pos[d] \in Int
      /\ pc'[c] = "copying"
      /\ \A d \in Processes : d # c => pc'[d] = pc[d]
  BY ProcessesAssumption, RingSizeAssumption
  DEF Processes, InFlight, TypeOK, RecordNumbers
<1>1. pos[c] = taken
  BY ClaimsOldest
<1>2. taken < written
  BY <1>0, <1>1 DEF Positions
<1>3. Indices'
  <2>1. readIndex' = (taken + 1) % RingSize
    BY <1>0, <1>1, AfterPosition DEF Indices
  <2> QED BY <1>0, <2>1 DEF Indices
<1>4. Window'
  BY <1>0, <1>2 DEF Window, Reach
<1>5. Positions'
  BY <1>0, <1>1, <1>2 DEF Positions, Processes, Holds
<1>6. \A d \in Processes : Holds(d)' = (d = c \/ Holds(d))
                           /\ (pc'[d] = "copied" => d # c /\ pc[d] = "copied")
  BY <1>0 DEF Holds
<1>7. HalfCopied'
  BY <1>0, <1>6 DEF HalfCopied
<1>8. ClaimsDiffer'
  <2>1. \A d \in Consumers : Holds(d) => pos[d] < taken
    BY DEF Positions, Holds
  <2>2. \A d \in Consumers : \A i \in DOMAIN popped[d] :
          popped[d][i].first \in Int /\ popped[d][i].first <= taken
    BY PoppedTyped DEF ClaimsDiffer
  <2>6. \A d \in Consumers : /\ pos[d] \in Int
                             /\ Holds(d)' => d = c \/ Holds(d)
    BY <1>0, <1>6 DEF Processes
  <2>3. \A d, e \in Consumers : Holds(d)' /\ Holds(e)' /\ pos[d] = pos[e] => d = e
    BY <1>0, <1>1, <2>6, <2>1 DEF ClaimsDiffer
  <2>4. \A d, e \in Consumers : \A i \in DOMAIN popped[e] :
          Holds(d)' => popped[e][i].first # pos[d] + 1
    BY <1>0, <1>1, <2>6, <2>2 DEF ClaimsDiffer
  <2>5. \A d \in Consumers : \A i \in DOMAIN popped[d] :
          /\ popped[d][i].first <= taken + 1
          /\ Holds(d)' => popped[d][i].first < pos[d] + 1
    BY <1>0, <1>1, <2>6, <2>2 DEF ClaimsDiffer
  <2> QED BY <2>3, <2>4, <2>5 DEF ClaimsDiffer
<1>9. Contents'
  BY DEF Contents, RecordAt
<1> QED BY <1>3, <1>4, <1>5, <1>7, <1>8, <1>9, ResultsUnchanged

\* The first half of a copy comes from the record at the loaded position.
LEMMA StepCopyFirst ==
  ASSUME BusInv, TypeOK', NEW p \in Processes, CopyFirst(p)
  PROVE  BusInv'
<1> USE DEF BusInv, CopyFirst
<1>0. /\ InFlight' = InFlight /\ InFlight \subseteq Processes
      /\ pc'[p] = "copied"
      /\ \A d \in Processes : d # p => pc'[d] = pc[d] /\ half'[d] = half[d]
  BY DEF Processes, InFlight, TypeOK
<1>1. Indices'
  BY <1>0 DEF Indices
<1>2. Window'
  BY <1>0 DEF Window, Reach
<1>3. Positions'
  <2>1. \A d \in Processes : pc'[d] = pc[d] \/ (pc[d] = "copying" /\ pc'[d] = "copied")
    BY <1>0
  <2>2. \A c \in Consumers : c \in Processes
    BY DEF Processes
  <2>3. \A v \in Viewers : v \in Processes
    BY DEF Processes
  <2>4. ASSUME NEW c \in Consumers
        PROVE  /\ pc'[c] \notin {"idle", "dead"} => pos[c] >= 0 /\ pos[c] <= taken
               /\ pc'[c] = "claiming" => pos[c] < written
               /\ Holds(c)' => pos[c] < taken
    BY <2>1, <2>2 DEF Positions, Holds
  <2>5. ASSUME NEW v \in Viewers
        PROVE  /\ pc'[v] \in {"idle", "copying", "copied"}
               /\ pc'[v] # "idle" => pos[v] >= -1 /\ pos[v] < written
    BY <2>1, <2>3 DEF Positions
  <2> QED BY <2>4, <2>5 DEF Positions
<1>4. half'[p] = pos[p] + 1
  <2>1. half'[p] = entries[rIdx[p]].first
    BY DEF TypeOK
  <2>2. entries[rIdx[p]] = RecordAt(pos[p])
    BY CopySees
  <2> QED BY <2>1, <2>2 DEF RecordAt
<1>5. HalfCopied'
  BY <1>0, <1>4 DEF HalfCopied
<1>6. \A d \in Processes : Holds(d)' = Holds(d)
  BY <1>0 DEF Holds
<1>7. ClaimsDiffer'
  BY <1>6 DEF ClaimsDiffer, Processes
<1>8. Contents'
  BY DEF Contents, RecordAt
<1> QED BY <1>1, <1>2, <1>3, <1>5, <1>7, <1>8, ResultsUnchanged

\* Once the last field is read, the copy is the record at the position.
LEMMA CopyWhole ==
  ASSUME BusInv, NEW p \in Processes, pc[p] = "copied"
  PROVE  Copied(p) = RecordAt(pos[p])
  BY CopySees DEF BusInv, HalfCopied, Copied, RecordAt

\* A popped record is whole, new, and later than those popped before it.
LEMMA StepReturnRecord ==
  ASSUME BusInv, TypeOK', NEW c \in Consumers, ReturnRecord(c)
  PROVE  BusInv'
<1> USE DEF BusInv, ReturnRecord
<1>0. /\ c \in Processes /\ c \notin Viewers
      /\ InFlight' \subseteq InFlight /\ InFlight \subseteq Processes
      /\ taken \in Nat /\ pos[c] \in Int
      /\ pc'[c] = "idle"
      /\ \A d \in Processes : d # c => pc'[d] = pc[d]
  BY ProcessesAssumption DEF Processes, InFlight, TypeOK
<1>1. Indices'
  BY <1>0 DEF Indices
<1>2. Window'
  BY <1>0 DEF Window, Reach
<1>3. Positions'
  BY <1>0 DEF Positions, Processes, Holds
<1>4. \A d \in Processes : (Holds(d)' = (d # c /\ Holds(d)))
                           /\ (pc'[d] = "copied" => d # c /\ pc[d] = "copied")
  BY <1>0 DEF Holds
<1>5. HalfCopied'
  BY <1>4 DEF HalfCopied
<1>6. Contents'
  BY DEF Contents, RecordAt
<1> DEFINE n == pos[c] + 1
           last == Len(popped[c]) + 1
<1>7. /\ DOMAIN popped'[c] = 1 .. last
      /\ last \in Nat
      /\ popped'[c][last] = [first |-> n, last |-> n]
      /\ \A i \in DOMAIN popped[c] : i < last /\ popped'[c][i] = popped[c][i]
      /\ DOMAIN popped[c] = 1 .. last - 1
      /\ \A d \in Consumers : d # c => popped'[d] = popped[d]
  <2>1. Copied(c) = [first |-> n, last |-> n]
    BY <1>0, CopyWhole DEF RecordAt
  <2>2. popped[c] \in Seq(Entry) /\ popped'[c] = Append(popped[c], Copied(c))
    BY DEF TypeOK
  <2>3. \A d \in Consumers : d # c => popped'[d] = popped[d]
    BY DEF TypeOK
  <2> HIDE DEF n
  <2> QED BY <2>1, <2>2, <2>3
<1>8. Holds(c) /\ pos[c] < taken
  BY DEF Holds, Positions
<1>9. /\ \A d \in Consumers : \A i \in DOMAIN popped[d] :
           popped[d][i].first \in Int /\ popped[d][i].first # n
      /\ \A i \in DOMAIN popped[c] : popped[c][i].first < n
  BY <1>8, PoppedTyped DEF ClaimsDiffer
<1> HIDE DEF last
<1>10. \A d \in Consumers : \A i \in DOMAIN popped'[d] :
         \/ i \in DOMAIN popped[d] /\ popped'[d][i] = popped[d][i]
         \/ d = c /\ i = last /\ popped'[d][i] = [first |-> n, last |-> n]
  BY <1>7
<1>11. RecordsWhole'
  BY <1>10 DEF RecordsWhole
<1>12. PoppedOnce'
  BY <1>9, <1>10 DEF PoppedOnce
<1>13. PoppedInOrder'
  <2> SUFFICES ASSUME NEW d \in Consumers, NEW i \in DOMAIN popped'[d],
                      NEW j \in DOMAIN popped'[d], i < j
               PROVE  popped'[d][i].first < popped'[d][j].first
    BY DEF PoppedInOrder
  <2>1. CASE d # c
    BY <2>1, <1>7 DEF PoppedInOrder
  <2>2. CASE d = c
    <3>1. i \in DOMAIN popped[c]
      BY <2>2, <1>7
    <3>2. CASE j = last
      BY <2>2, <3>1, <3>2, <1>7, <1>9
    <3>3. CASE j # last
      BY <2>2, <3>1, <3>3, <1>7 DEF PoppedInOrder
    <3> QED BY <3>2, <3>3
  <2> QED BY <2>1, <2>2
<1>14. LatestIsNewest'
  BY DEF LatestIsNewest
<1>15. ClaimsDiffer'
  <2>1. \A d, e \in Consumers : Holds(d)' /\ Holds(e)' /\ pos[d] = pos[e] => d = e
    BY <1>4 DEF ClaimsDiffer, Processes
  <2>2. \A d \in Consumers : Holds(d)' => pos[d] # pos[c] /\ pos[d] \in Int
    BY <1>4, <1>8 DEF ClaimsDiffer, Processes, TypeOK
  <2>3. \A d, e \in Consumers : \A i \in DOMAIN popped'[e] :
          Holds(d)' => popped'[e][i].first # pos[d] + 1
    BY <1>0, <1>4, <1>10, <2>2 DEF ClaimsDiffer, Processes
  <2>4. \A d \in Consumers : \A i \in DOMAIN popped'[d] :
          /\ popped'[d][i].first <= taken
          /\ Holds(d)' => popped'[d][i].first < pos[d] + 1
    <3> SUFFICES ASSUME NEW d \in Consumers, NEW i \in DOMAIN popped'[d]
                 PROVE  /\ popped'[d][i].first <= taken
                        /\ Holds(d)' => popped'[d][i].first < pos[d] + 1
      OBVIOUS
    <3>1. Holds(d)' => Holds(d) /\ d # c
      BY <1>4 DEF Processes
    <3>2. CASE i \in DOMAIN popped[d] /\ popped'[d][i] = popped[d][i]
      BY <3>1, <3>2 DEF ClaimsDiffer
    <3>3. CASE d = c /\ i = last /\ popped'[d][i] = [first |-> n, last |-> n]
      BY <3>1, <3>3, <1>0, <1>8
    <3> QED BY <1>10, <3>2, <3>3
  <2> QED BY <2>1, <2>3, <2>4 DEF ClaimsDiffer
<1> QED BY <1>1, <1>2, <1>3, <1>5, <1>6, <1>11, <1>12, <1>13, <1>14, <1>15

\* A viewer starts from the last published position.
LEMMA StepLoadLatest ==
  ASSUME BusInv, TypeOK', NEW v \in Viewers, LoadLatest(v)
  PROVE  BusInv'
<1> USE DEF BusInv, LoadLatest
<1>0. /\ v \in Processes /\ v \notin Consumers
      /\ InFlight' = InFlight \cup {v} /\ InFlight \subseteq Processes
      /\ written \in Nat /\ RingSize \in Nat \ {0, 1}
      /\ pc'[v] = "copying" /\ pos'[v] = written - 1
      /\ rIdx'[v] = Before(writeIndex)
      /\ \A d \in Processes : d # v => /\ pos'[d] = pos[d] /\ rIdx'[d] = rIdx[d]
                                       /\ pc'[d] = pc[d]
  BY ProcessesAssumption, RingSizeAssumption
  DEF Processes, InFlight, TypeOK, RecordNumbers
<1>1. Indices'
  <2>1. rIdx'[v] = pos'[v] % RingSize
    <3>1. writeIndex = written % RingSize
      BY DEF Indices
    <3>2. written \in Int
      BY <1>0
    <3>3. Before(written % RingSize) = (written - 1) % RingSize
      BY <3>2, BeforePosition, Zenon
    <3>4. rIdx'[v] = Before(writeIndex) /\ pos'[v] = written - 1
      BY <1>0, Zenon
    <3> QED BY <3>1, <3>3, <3>4, Zenon
  <2>2. \A p \in InFlight' : p # v => rIdx'[p] = pos'[p] % RingSize
    BY <1>0 DEF Indices
  <2> QED BY <2>1, <2>2 DEF Indices
<1>2. Window'
  BY <1>0 DEF Window, Reach
<1>3. Positions'
  <2>1. \A d \in Consumers : pc'[d] = pc[d] /\ pos'[d] = pos[d] /\ (Holds(d)' = Holds(d))
    BY <1>0 DEF Processes, Holds
  <2>2. \A w \in Viewers : w # v => pc'[w] = pc[w] /\ pos'[w] = pos[w]
    BY <1>0 DEF Processes
  <2>3. pc'[v] = "copying" /\ pos'[v] >= -1 /\ pos'[v] < written
    BY <1>0
  <2> QED BY <2>1, <2>2, <2>3 DEF Positions
<1>4. \A d \in Consumers : pc'[d] = pc[d] /\ pos'[d] = pos[d] /\ (Holds(d)' = Holds(d))
  BY <1>0 DEF Holds, Processes
<1>5. HalfCopied'
  BY <1>0 DEF HalfCopied
<1>6. ClaimsDiffer'
  BY <1>4 DEF ClaimsDiffer
<1>7. Contents'
  BY DEF Contents, RecordAt
<1> QED BY <1>1, <1>2, <1>3, <1>5, <1>6, <1>7, ResultsUnchanged

\* A viewer returns the whole record of the position it started from.
LEMMA StepReturnLatest ==
  ASSUME BusInv, TypeOK', NEW v \in Viewers, ReturnLatest(v)
  PROVE  BusInv'
<1> USE DEF BusInv, ReturnLatest
<1>0. /\ v \in Processes /\ v \notin Consumers
      /\ InFlight' \subseteq InFlight /\ InFlight \subseteq Processes
      /\ pc'[v] = "idle"
      /\ \A d \in Processes : d # v => pc'[d] = pc[d]
  BY ProcessesAssumption DEF Processes, InFlight, TypeOK
<1>1. Indices'
  BY <1>0 DEF Indices
<1>2. Window'
  BY <1>0 DEF Window, Reach
<1>3. Positions'
  BY <1>0 DEF Positions, Processes, Holds
<1>4. \A d \in Consumers : pc'[d] = pc[d] /\ (Holds(d)' = Holds(d))
  BY <1>0 DEF Holds, Processes
<1>5. HalfCopied'
  BY <1>0 DEF HalfCopied
<1>6. ClaimsDiffer'
  BY <1>4 DEF ClaimsDiffer
<1>7. Contents'
  BY DEF Contents, RecordAt
<1>8. /\ latest'[v] = [record |-> RecordAt(pos[v]), at |-> pos[v] + 1]
      /\ \A w \in Viewers : w # v => latest'[w] = latest[w]
  BY <1>0, CopyWhole DEF TypeOK
<1>9. RecordsWhole' /\ LatestIsNewest'
  BY <1>8 DEF RecordsWhole, LatestIsNewest, RecordAt
<1>10. PoppedOnce' /\ PoppedInOrder'
  BY DEF PoppedOnce, PoppedInOrder
<1> QED BY <1>1, <1>2, <1>3, <1>5, <1>6, <1>7, <1>9, <1>10

\* Every paced step preserves the bus invariant.
LEMMA BusStep == BusInv /\ [PacedNext]_vars => BusInv'
<1> SUFFICES ASSUME BusInv, [PacedNext]_vars PROVE BusInv'
  OBVIOUS
<1>0. TypeOK'
  <2>1. [Next]_vars
    BY DEF PacedNext, Next
  <2> QED BY <2>1, BusInvTypes, TypeStep DEF TypeInv
<1>1. CASE Paced /\ WriteFirst
  BY <1>0, <1>1, StepWriteFirst
<1>2. CASE WriteLast
  BY <1>0, <1>2, StepWriteLast
<1>3. CASE Publish
  BY <1>0, <1>3, StepPublish
<1>4. ASSUME NEW c \in Consumers, Pop(c) PROVE BusInv'
  <2>0. c \in Processes
    BY DEF Processes
  <2>1. CASE LoadReadIndex(c)
    BY <1>0, <2>1, StepLoadReadIndex
  <2>2. CASE FindEmpty(c)
    BY <1>0, <2>2, StepControl DEF FindEmpty, Holds
  <2>3. CASE FindEntry(c)
    BY <1>0, <2>3, StepFindEntry
  <2>4. CASE Claim(c)
    BY <1>0, <2>4, StepClaim
  <2>5. CASE LoseClaim(c)
    BY <1>0, <2>5, StepControl DEF LoseClaim, Holds
  <2>6. CASE CopyFirst(c)
    BY <1>0, <2>0, <2>6, StepCopyFirst
  <2>7. CASE ReturnRecord(c)
    BY <1>0, <2>7, StepReturnRecord
  <2> QED BY <1>4, <2>1, <2>2, <2>3, <2>4, <2>5, <2>6, <2>7 DEF Pop
<1>5. ASSUME NEW v \in Viewers, ReadLatest(v) PROVE BusInv'
  <2>0. v \in Processes
    BY DEF Processes
  <2>1. CASE LoadLatest(v)
    BY <1>0, <2>1, StepLoadLatest
  <2>2. CASE CopyFirst(v)
    BY <1>0, <2>0, <2>2, StepCopyFirst
  <2>3. CASE ReturnLatest(v)
    BY <1>0, <2>3, StepReturnLatest
  <2> QED BY <1>5, <2>1, <2>2, <2>3 DEF ReadLatest
<1>6. CASE UNCHANGED vars
  <2>1. InFlight' = InFlight /\ (\A c : Holds(c)' = Holds(c))
    BY <1>6 DEF InFlight, Holds, vars
  <2> QED BY <1>0, <1>6, <2>1, ResultsUnchanged
      DEF vars, BusInv, Indices, Window, Reach, Positions, Contents, RecordAt,
          HalfCopied, ClaimsDiffer
<1>7. ASSUME NEW c \in Consumers, Crash(c) PROVE BusInv'
  BY <1>0, <1>7, StepCrash
<1> QED BY <1>1, <1>2, <1>3, <1>4, <1>5, <1>6, <1>7 DEF PacedNext, Readers

-----------------------------------------------------------------------------
\* With a paced producer the bus delivers: whole records, the newest one to a
\* viewer, no record twice, and each consumer's records in the order written.
THEOREM BusInvariant == PacedSpec => []BusInv
  BY InitBus, BusStep, PTL DEF PacedSpec

\* With a paced producer every popped or displayed record is whole, the
\* displayed one was the newest, none is popped twice, and each consumer gets
\* them in order.
THEOREM PacedBusDelivers ==
  PacedSpec => [](RecordsWhole /\ LatestIsNewest /\ PoppedOnce /\ PoppedInOrder)
<1>1. BusInv => RecordsWhole /\ LatestIsNewest /\ PoppedOnce /\ PoppedInOrder
  BY DEF BusInv
<1> QED BY <1>1, BusInvariant, PTL

\* No consumer returns a record whose two halves are of different writes.
THEOREM PacedRecordsAreWhole == PacedSpec => []RecordsWhole
BY PacedBusDelivers, PTL

\* A display that asks for the latest record gets the one that was the newest
\* when it looked at write_index.
THEOREM PacedLatestIsNewest == PacedSpec => []LatestIsNewest
BY PacedBusDelivers, PTL

-----------------------------------------------------------------------------
(***************************************************************************)
(* The paced bus implements the record queue: the compare-and-swap is the  *)
(* step at which a record is handed over.                                  *)
(***************************************************************************)

\* The record numbers a consumer has popped form a sequence.
LEMMA FirstsType ==
  ASSUME NEW s \in Seq(Entry)
  PROVE  /\ Firsts(s) \in Seq(Int)
         /\ Len(Firsts(s)) = Len(s)
         /\ \A i \in 1 .. Len(s) : Firsts(s)[i] = s[i].first
<1>1. Len(s) \in Nat /\ DOMAIN s = 1 .. Len(s)
  BY LenProperties
<1>2. \A i \in 1 .. Len(s) : s[i].first \in Int
  <2>1. \A i \in 1 .. Len(s) : s[i] \in Entry
    BY ElementOfSeq
  <2> QED BY <2>1, NumRecordsAssumption DEF Entry, RecordNumbers
<1>3. Firsts(s) \in [1 .. Len(s) -> Int]
  BY <1>1, <1>2 DEF Firsts
<1>4. Firsts(s) \in Seq(Int)
  BY <1>1, <1>3, SeqDef
<1>5. Len(Firsts(s)) = Len(s)
  <2>1. DOMAIN Firsts(s) = 1 .. Len(s) /\ DOMAIN Firsts(s) = 1 .. Len(Firsts(s))
    BY <1>3, <1>4, LenProperties
  <2>2. Len(Firsts(s)) \in Nat
    BY <1>4, LenProperties
  <2> QED BY <2>1, <2>2, <1>1
<1> QED BY <1>1, <1>4, <1>5 DEF Firsts

\* Popping one more record appends its number.
LEMMA FirstsAppend ==
  ASSUME NEW s \in Seq(Entry), NEW e \in Entry
  PROVE  Firsts(Append(s, e)) = Append(Firsts(s), e.first)
<1> DEFINE t == Append(s, e)
           n == Len(s) + 1
<1>0. /\ t \in Seq(Entry) /\ Len(t) = n /\ t[n] = e
      /\ \A i \in 1 .. Len(s) : t[i] = s[i]
      /\ Len(s) \in Nat
  BY AppendProperties, LenProperties
<1>1. e.first \in Int
  BY NumRecordsAssumption DEF Entry, RecordNumbers
<1> HIDE DEF t
<1>2. /\ Firsts(t) \in Seq(Int) /\ Len(Firsts(t)) = n
      /\ \A i \in 1 .. n : Firsts(t)[i] = t[i].first
  BY <1>0, FirstsType
<1>3. /\ Firsts(s) \in Seq(Int) /\ Len(Firsts(s)) = Len(s)
      /\ \A i \in 1 .. Len(s) : Firsts(s)[i] = s[i].first
  BY FirstsType
<1>4. /\ Append(Firsts(s), e.first) \in Seq(Int)
      /\ Len(Append(Firsts(s), e.first)) = n
      /\ \A i \in 1 .. Len(s) : Append(Firsts(s), e.first)[i] = Firsts(s)[i]
      /\ Append(Firsts(s), e.first)[n] = e.first
  BY <1>1, <1>3, AppendProperties
<1>5. \A i \in 1 .. n : Firsts(t)[i] = Append(Firsts(s), e.first)[i]
  <2> SUFFICES ASSUME NEW i \in 1 .. n
               PROVE  Firsts(t)[i] = Append(Firsts(s), e.first)[i]
    OBVIOUS
  <2>1. CASE i = n
    BY <2>1, <1>0, <1>2, <1>4
  <2>2. CASE i # n
    <3>1. i \in 1 .. Len(s)
      BY <2>2, <1>0
    <3> QED BY <3>1, <1>0, <1>2, <1>3, <1>4
  <2> QED BY <2>1, <2>2
<1>6. Firsts(t) = Append(Firsts(s), e.first)
  BY <1>2, <1>4, <1>5, SeqEqual
<1> QED BY <1>6 DEF t

\* What consumer c has been handed, in the abstract queue.
GotBy(c) == Firsts(popped[c]) \o Claimed(c)

\* A consumer that holds no claim has got what it has popped.
LEMMA GotIdle ==
  ASSUME TypeOK, NEW c \in Consumers, ~Holds(c)
  PROVE  GotBy(c) = Firsts(popped[c])
  BY FirstsType, ConcatEmptySeq DEF GotBy, Claimed, Holds, TypeOK

\* A consumer that holds a claim has got one record more.
LEMMA GotHolding ==
  ASSUME TypeOK, NEW c \in Consumers, Holds(c)
  PROVE  GotBy(c) = Append(Firsts(popped[c]), pos[c] + 1)
<1>1. pos[c] + 1 \in Int
  BY DEF TypeOK, Processes
<1>2. Firsts(popped[c]) \in Seq(Int)
  BY FirstsType DEF TypeOK
<1> QED BY <1>1, <1>2, AppendIsConcat DEF GotBy, Claimed, Holds

\* A fresh segment is the empty queue.
LEMMA QueueInit == Init => Queue!Init
<1> SUFFICES ASSUME Init PROVE Queue!Init
  OBVIOUS
<1>1. ASSUME NEW c \in Consumers PROVE GotBy(c) = <<>>
  <2>1. TypeOK /\ ~Holds(c) /\ popped[c] = <<>>
    BY TypeInit DEF TypeInv, Init, Holds, Processes
  <2>2. Firsts(<<>>) = <<>>
    <3>1. <<>> \in Seq(Entry) /\ Len(<<>>) = 0
      BY EmptySeq
    <3>2. Firsts(<<>>) \in Seq(Int) /\ Len(Firsts(<<>>)) = 0
      BY <3>1, FirstsType
    <3> QED BY <3>2, EmptySeq
  <2> QED BY <2>1, <2>2, GotIdle
<1> QED BY <1>1 DEF Init, Queue!Init, GotBy

\* Publishing puts a record, claiming hands it over, and every other step
\* stutters.
LEMMA QueueStep ==
  ASSUME BusInv, BusInv', [PacedNext]_vars
  PROVE  [Queue!Next]_Queue!queueVars
<1> USE DEF BusInv
<1>0. \A c \in Consumers : c \in Processes
  BY DEF Processes
<1>1. ASSUME UNCHANGED <<written, taken>>, \A c \in Consumers : GotBy(c)' = GotBy(c)
      PROVE  UNCHANGED Queue!queueVars
  BY <1>1 DEF Queue!queueVars, GotBy
<1>2. CASE WriteFirst \/ WriteLast
  <2>1. UNCHANGED <<written, taken, popped, pc, pos>>
    BY <1>2 DEF WriteFirst, WriteLast
  <2> QED BY <1>1, <2>1 DEF GotBy, Claimed, Firsts
<1>3. CASE Publish
  <2>1. written' = written + 1 /\ UNCHANGED <<taken, popped, pc, pos>>
    BY <1>3 DEF Publish
  <2>2. Queue!Put
    BY <2>1 DEF Queue!Put, Claimed, Firsts
  <2> QED BY <2>2 DEF Queue!Next
<1>4. ASSUME NEW c \in Consumers, Pop(c) PROVE [Queue!Next]_Queue!queueVars
  <2>1. \A d \in Consumers \ {c} :
          pc'[d] = pc[d] /\ pos'[d] = pos[d] /\ popped'[d] = popped[d]
    BY <1>0, <1>4
    DEF Pop, LoadReadIndex, FindEmpty, FindEntry, Claim, LoseClaim, CopyFirst,
        ReturnRecord, TypeOK
  <2>2. \A d \in Consumers \ {c} : GotBy(d)' = GotBy(d)
    BY <2>1 DEF GotBy, Claimed, Firsts
  <2>3. CASE LoadReadIndex(c) \/ FindEmpty(c) \/ FindEntry(c) \/ LoseClaim(c)
    <3>1. ~Holds(c) /\ ~Holds(c)' /\ popped' = popped /\ UNCHANGED <<written, taken>>
      BY <2>3, <1>0
      DEF LoadReadIndex, FindEmpty, FindEntry, LoseClaim, Holds, TypeOK
    <3>2. GotBy(c)' = Firsts(popped[c])'
      BY <3>1, GotIdle DEF GotBy, Claimed, Holds
    <3>3. GotBy(c) = Firsts(popped[c])
      BY <3>1, GotIdle
    <3>4. GotBy(c)' = GotBy(c)
      BY <3>1, <3>2, <3>3 DEF Firsts
    <3> QED BY <1>1, <2>2, <3>1, <3>4
  <2>5. CASE Claim(c)
    <3>1. ~Holds(c) /\ Holds(c)' /\ popped' = popped /\ UNCHANGED <<written, pos>>
          /\ taken' = taken + 1
      BY <2>5, <1>0 DEF Claim, Holds, TypeOK
    <3>2. pos[c] = taken /\ taken < written
      <4>1. taken' <= written' /\ pos[c] < taken'
        BY <3>1, <2>5, <1>0 DEF Window, Positions, Holds
      <4>2. pos[c] = taken
        BY <2>5, ClaimsOldest
      <4> QED BY <3>1, <4>1, <4>2 DEF TypeOK, Positions, RecordNumbers, Claim
    <3>3. GotBy(c) = Firsts(popped[c])
      BY <3>1, GotIdle
    <3>4. GotBy(c)' = Append(GotBy(c), taken + 1)
      <4>1. GotBy(c)' = Firsts(popped[c]) \o <<taken + 1>>
        BY <3>1, <3>2 DEF GotBy, Claimed, Holds, Firsts
      <4>2. Firsts(popped[c]) \in Seq(Int) /\ taken + 1 \in Int
        BY FirstsType DEF TypeOK
      <4> QED BY <3>3, <4>1, <4>2, AppendIsConcat
    <3>5. Queue!Get(c)
      BY <3>1, <3>2, <3>4, <2>2 DEF Queue!Get, GotBy
    <3> QED BY <3>5 DEF Queue!Next
  <2>6. CASE CopyFirst(c)
    <3>1. UNCHANGED <<written, taken, popped, pos>> /\ Holds(c) /\ Holds(c)'
      BY <2>6, <1>0 DEF CopyFirst, Holds, TypeOK
    <3>2. GotBy(c)' = GotBy(c)
      BY <3>1 DEF GotBy, Claimed, Firsts, Holds
    <3> QED BY <1>1, <2>2, <3>1, <3>2
  <2>7. CASE ReturnRecord(c)
    <3>1. /\ Holds(c) /\ ~Holds(c)' /\ UNCHANGED <<written, taken, pos>>
          /\ popped'[c] = Append(popped[c], Copied(c))
      BY <2>7, <1>0 DEF ReturnRecord, Holds, TypeOK
    <3>2. Copied(c) \in Entry /\ Copied(c).first = pos[c] + 1
      <4>1. Copied(c) = RecordAt(pos[c])
        BY <2>7, <1>0, CopyWhole DEF ReturnRecord
      <4>2. Copied(c) \in Entry
        BY <1>0 DEF Copied, Entry, TypeOK
      <4> QED BY <4>1, <4>2 DEF RecordAt
    <3>3. GotBy(c) = Append(Firsts(popped[c]), pos[c] + 1)
      BY <3>1, GotHolding
    <3>4. popped'[c] \in Seq(Entry)
      BY DEF TypeOK
    <3>5. Firsts(popped'[c]) = Append(Firsts(popped[c]), pos[c] + 1)
      BY <3>1, <3>2, FirstsAppend DEF TypeOK
    <3>6. GotBy(c)' = Firsts(popped'[c])
      <4>1. GotBy(c)' = Firsts(popped'[c]) \o <<>>
        BY <3>1 DEF GotBy, Claimed, Holds, Firsts
      <4> QED BY <4>1, <3>4, FirstsType, ConcatEmptySeq
    <3> QED BY <1>1, <2>2, <3>1, <3>3, <3>5, <3>6
  <2> QED BY <1>4, <2>3, <2>5, <2>6, <2>7 DEF Pop
<1>5. ASSUME NEW v \in Viewers, ReadLatest(v) PROVE [Queue!Next]_Queue!queueVars
  <2>1. v \notin Consumers
    BY ProcessesAssumption
  <2>2. /\ UNCHANGED <<written, taken, popped>>
        /\ \A d \in Consumers : pc'[d] = pc[d] /\ pos'[d] = pos[d]
    BY <1>0, <1>5, <2>1
    DEF ReadLatest, LoadLatest, CopyFirst, ReturnLatest, TypeOK
  <2> QED BY <1>1, <2>2 DEF GotBy, Claimed, Firsts
<1>6. CASE UNCHANGED vars
  BY <1>1, <1>6 DEF vars, GotBy, Claimed, Firsts
<1>7. ASSUME NEW c \in Consumers, Crash(c) PROVE [Queue!Next]_Queue!queueVars
  <2>1. /\ UNCHANGED <<written, taken, popped, pos>>
        /\ \A d \in Consumers : Holds(d)' = Holds(d)
    BY <1>0, <1>7 DEF Crash, Holds, TypeOK
  <2> QED BY <1>1, <2>1 DEF GotBy, Claimed, Firsts, Holds
<1> QED BY <1>2, <1>3, <1>4, <1>5, <1>6, <1>7 DEF PacedNext, Readers

\* With a paced producer the bus is the FIFO queue of RecordQueue.
THEOREM PacedBusIsQueue == PacedSpec => ImplementsQueue
  BY QueueInit, QueueStep, BusInvariant, PTL DEF PacedSpec, ImplementsQueue, Queue!Spec

-----------------------------------------------------------------------------
(***************************************************************************)
(* A ring deeper than the whole recording needs no pacing: src/tests/      *)
(* ipc_sync_verifier.py takes 8192 slots for 5000 frames "to ensure        *)
(* exactly zero drops or overflows".                                       *)
(***************************************************************************)
LEMMA DeepRingPaced ==
  ASSUME NumRecords < RingSize - 1, TypeInv, [Next]_vars
  PROVE  [PacedNext]_vars
<1>1. CASE WriteFirst
  <2>1. /\ written \in Int /\ taken \in Nat /\ written < NumRecords
        /\ RingSize \in Nat /\ NumRecords \in Nat
    BY <1>1, RingSizeAssumption, NumRecordsAssumption
    DEF WriteFirst, TypeInv, TypeOK, RecordNumbers
  <2>2. ASSUME NEW p \in InFlight PROVE written - pos[p] < RingSize - 1
    <3>1. pos[p] \in Int /\ pos[p] >= -1
      BY <2>2, NumRecordsAssumption DEF InFlight, Processes, TypeInv, TypeOK, RecordNumbers
    <3> QED BY <2>1, <3>1
  <2>3. NeverFull
    BY <2>1 DEF NeverFull
  <2> QED BY <1>1, <2>2, <2>3 DEF Paced, PacedNext
<1>2. CASE WriteLast \/ Publish \/ Readers \/ UNCHANGED vars
  BY <1>2 DEF PacedNext
<1> QED BY <1>1, <1>2 DEF Next

\* A ring deeper than the recording needs no pacing at all: the bus as it is
\* coded delivers whole records, each once and in order.
THEOREM DeepRingDelivers ==
  ASSUME NumRecords < RingSize - 1
  PROVE  Spec => [](RecordsWhole /\ LatestIsNewest /\ PoppedOnce /\ PoppedInOrder)
<1>1. TypeInv /\ [Next]_vars => [PacedNext]_vars
  BY DeepRingPaced
<1>2. Spec => PacedSpec
  BY <1>1, TypeInit, TypeStep, PTL DEF Spec, PacedSpec
<1> QED BY <1>2, PacedBusDelivers, PTL
=============================================================================
