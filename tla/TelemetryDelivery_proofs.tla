----------------------- MODULE TelemetryDelivery_proofs -----------------------
(***************************************************************************)
(* Proofs about the delivery plane, for every capacity, batch size and set *)
(* of clients: the fusion ring's accounts, and what each client gets, in   *)
(* which order, and what is counted as dropped.  What a batch does to a    *)
(* queue is a fold, which has a table of the queues on the way             *)
(* (BatchPushed); what holds of a client is shown of each entry.           *)
(***************************************************************************)
EXTENDS TelemetryDelivery, CommonLemmas

-----------------------------------------------------------------------------
\* pop_batch takes what there is, up to the size of a batch.
LEMMA BatchLength ==
  ASSUME Available \in Nat
  PROVE  /\ Len(Batch) \in Nat
         /\ Len(Batch) <= Available
         /\ Len(Batch) <= BatchSize
<1> DEFINE least == Min({Available, BatchSize})
<1>1. PICK m \in {Available, BatchSize} : m <= Available /\ m <= BatchSize
  BY BatchSizeAssumption
<1>2. least \in {Available, BatchSize} /\ least <= Available /\ least <= BatchSize
  BY <1>1 DEF Min
<1>3. least \in Nat
  BY <1>2, BatchSizeAssumption
<1> HIDE DEF least
<1>4. Batch = [i \in 1 .. least |-> slots[(readPtr + i - 1) % RingCapacity]]
  BY DEF Batch, least
<1>5. Len(Batch) = least
  BY <1>3, <1>4
<1> QED BY <1>2, <1>3, <1>5

\* The pointers are counters, and the ring has lost or handed out exactly the
\* records behind the read pointer.
RingInv ==
  /\ writePtr \in Nat
  /\ readPtr \in Nat
  /\ ringDrops \in Nat
  /\ dispatched \in Nat
  /\ readPtr <= writePtr
  /\ RingAccounts

\* The ring begins empty.
LEMMA RingInit == Init => RingInv
BY RingCapacityAssumption DEF Init, RingInv, RingAccounts, Available

\* A push that finds the ring full drops exactly one record.
LEMMA IngestStep ==
  ASSUME RingInv, NEW sight \in Sights, Ingest(sight)
  PROVE  RingInv'
BY RingCapacityAssumption DEF RingInv, RingAccounts, Available, Ingest, Overflow

\* A batch moves as many records out of the ring as it counts.
LEMMA DispatchStep ==
  ASSUME RingInv, Dispatch
  PROVE  RingInv'
<1>1. Len(Batch) \in Nat /\ Len(Batch) <= Available
  BY BatchLength DEF RingInv, Available
<1> QED BY <1>1, RingCapacityAssumption DEF RingInv, RingAccounts, Available, Dispatch

\* Clients and broadcasts do not touch the ring.
LEMMA RingKept ==
  ASSUME RingInv, UNCHANGED <<ringVars, dispatched>>
  PROVE  RingInv'
BY DEF RingInv, RingAccounts, Available, ringVars

\* push and pop_batch of FusionRingBuffer lose no record unnoticed: at every
\* moment, whatever clients do, each stride is in the ring, was taken out or
\* was counted as dropped, and the ring never holds more than its capacity.
THEOREM RingLosesNothingUnnoticed == Spec => []RingAccounts
<1>1. RingInv /\ [Next]_vars => RingInv'
  <2> SUFFICES ASSUME RingInv, [Next]_vars PROVE RingInv'
    OBVIOUS
  <2>1. ASSUME NEW sight \in Sights, Ingest(sight) PROVE RingInv'
    BY <2>1, IngestStep
  <2>2. CASE Dispatch
    BY <2>2, DispatchStep
  <2>3. ASSUME NEW critical \in BOOLEAN, Broadcast(critical)
        PROVE  UNCHANGED <<ringVars, dispatched>>
    BY <2>3 DEF Broadcast, computeVars
  <2>4. ASSUME NEW c \in Clients, Register(c) \/ Unregister(c) \/ ClientPops(c)
        PROVE  UNCHANGED <<ringVars, dispatched>>
    BY <2>4 DEF Register, Unregister, ClientPops, computeVars
  <2>5. Shutdown \/ UNCHANGED vars => UNCHANGED <<ringVars, dispatched>>
    BY DEF Shutdown, computeVars, vars
  <2> QED BY <2>1, <2>2, <2>3, <2>4, <2>5, RingKept DEF Next
<1>2. RingInv => RingAccounts
  BY DEF RingInv
<1> QED BY <1>1, <1>2, RingInit, PTL DEF Spec

-----------------------------------------------------------------------------
(***************************************************************************)
(* The fusion's state machine is debounced.                                *)
(***************************************************************************)

\* Only the state the last strides asked for has been counted, and as often as
\* they asked; the current state has not.
CountsInv ==
  /\ fusion = [state |-> fusion.state, persistence |-> fusion.persistence]
  /\ fusion.state \in States
  /\ asked \in States
  /\ times \in 0 .. Hysteresis
  /\ asked # fusion.state => times < Hysteresis
  /\ fusion.persistence =
       [s \in States |-> IF s = asked /\ s # fusion.state THEN times ELSE 0]

\* Nothing has been counted at the start.
LEMMA CountsInit == Init => CountsInv
BY HysteresisAssumption DEF Init, CountsInv, FirstMachine, States, Nominal, Critical

\* A stride asks for one of the four states.
LEMMA TargetIsState ==
  ASSUME NEW sight \in Sights
  PROVE  Target(sight) \in States
BY DEF Target, States, Nominal, Jamming, Spoofing, Critical

\* A stride counts for the debounced state what it counts for the fusion's.
LEMMA CountsStep ==
  ASSUME CountsInv, NEW sight \in Sights, Ingest(sight)
  PROVE  CountsInv' /\ Debounced!Ask(Target(sight))
<1> DEFINE t == Target(sight)
           p == fusion.persistence
           now == fusion.state
           counted == CountTarget(fusion, t)
<1>1. t \in States /\ now \in States /\ asked \in States
  BY TargetIsState DEF CountsInv
<1>2. /\ fusion' = Update(fusion, t) /\ asked' = t /\ times' = Debounced!InARow(t)
  BY DEF Ingest
<1>3. /\ times \in Nat /\ times <= Hysteresis /\ Hysteresis \in Nat /\ Hysteresis >= 1
      /\ asked # now => times < Hysteresis
      /\ p = [s \in States |-> IF s = asked /\ s # now THEN times ELSE 0]
  BY HysteresisAssumption DEF CountsInv
<1>4. Windows[t] = Hysteresis
  BY <1>1 DEF Windows
<1>5. Debounced!InARow(t) =
        IF t # asked THEN 1 ELSE IF times < Hysteresis THEN times + 1 ELSE times
  BY <1>3, <1>4 DEF Debounced!InARow
<1> HIDE DEF t
<1>6. CASE t = now
  <2>1. fusion' = [state |-> now,
                   persistence |-> [s \in States |-> IF s = now THEN p[s] ELSE 0]]
    <3>1. fusion' = Stay(fusion)
      BY <1>2, <1>6 DEF Update
    <3> QED BY <3>1 DEF Stay, CountsInv
  <2>2. fusion'.persistence = [s \in States |-> 0]
    BY <2>1, <1>3
  <2>3. fusion'.state = t /\ fusion' = [state |-> fusion'.state, persistence |-> fusion'.persistence]
    BY <2>1, <1>6
  <2>4. times' \in 0 .. Hysteresis
    BY <1>2, <1>3, <1>5
  <2>5. CountsInv'
    BY <1>1, <1>2, <2>2, <2>3, <2>4 DEF CountsInv
  <2>6. Debounced!Ask(t)
    BY <1>2, <1>6, <2>3 DEF Debounced!Ask
  <2> QED BY <2>5, <2>6 DEF t
<1>7. CASE t # now
  <2>1. counted = [s \in States |-> IF s = t THEN Debounced!InARow(t) ELSE 0]
    <3>1. p[t] = IF t = asked THEN times ELSE 0
      BY <1>1, <1>3, <1>7
    <3>2. p[t] + 1 = Debounced!InARow(t)
      BY <3>1, <1>3, <1>5, <1>7
    <3>3. \A s \in States : s = now => p[s] = 0
      BY <1>3
    <3> HIDE DEF p, now
    <3>4. counted = [s \in States |-> CASE s = t -> p[s] + 1
                                       [] s = now /\ s # t -> p[s]
                                       [] OTHER -> 0]
      BY DEF CountTarget, p, now
    <3> QED BY <3>2, <3>3, <3>4
  <2>2. /\ counted[t] = Debounced!InARow(t) /\ counted[t] \in 1 .. Hysteresis
        /\ counted \in [States -> Nat]
    BY <1>1, <1>3, <1>5, <1>7, <2>1
  <2> HIDE DEF counted
  <2>3. CASE counted[t] >= Hysteresis
    <3>1. fusion' = [state |-> t, persistence |-> [counted EXCEPT ![t] = 0]]
      BY <1>2, <1>7, <2>3 DEF Update, counted
    <3>2. fusion'.state = t /\ fusion'.persistence = [s \in States |-> 0]
      BY <3>1, <2>1
    <3>3. CountsInv'
      BY <1>1, <1>2, <2>2, <3>1, <3>2 DEF CountsInv
    <3>4. Debounced!Ask(t)
      BY <1>2, <1>4, <2>2, <2>3, <3>2 DEF Debounced!Ask
    <3> QED BY <3>3, <3>4 DEF t
  <2>4. CASE ~(counted[t] >= Hysteresis)
    <3>1. fusion' = [state |-> now, persistence |-> counted]
      <4>1. fusion' = [fusion EXCEPT !.persistence = counted]
        BY <1>2, <1>7, <2>4 DEF Update, counted
      <4> QED BY <4>1 DEF CountsInv
    <3>2. CountsInv'
      <4>1. fusion'.persistence =
              [s \in States |-> IF s = t /\ s # now THEN times' ELSE 0]
        BY <1>2, <1>7, <2>1, <3>1
      <4>2. times' < Hysteresis /\ times' \in 0 .. Hysteresis
        BY <1>2, <1>3, <2>2, <2>4
      <4> QED BY <1>1, <1>2, <3>1, <4>1, <4>2 DEF CountsInv
    <3>3. Debounced!Ask(t)
      BY <1>2, <1>4, <2>2, <2>4, <3>1 DEF Debounced!Ask
    <3> QED BY <3>2, <3>3 DEF t
  <2> QED BY <2>3, <2>4
<1> QED BY <1>6, <1>7

\* Every step of the plane is a step of the debounced state or leaves it alone.
LEMMA FusionStep ==
  ASSUME CountsInv, [Next]_vars
  PROVE  CountsInv' /\ [Debounced!Next]_(Debounced!vars)
<1>1. ASSUME NEW sight \in Sights, Ingest(sight)
      PROVE  CountsInv' /\ Debounced!Next
  BY <1>1, CountsStep, TargetIsState DEF Debounced!Next
<1>2. ASSUME UNCHANGED fusionVars
      PROVE  CountsInv' /\ UNCHANGED Debounced!vars
  BY <1>2 DEF fusionVars, CountsInv, Debounced!vars
<1>3. Dispatch => UNCHANGED fusionVars
  BY DEF Dispatch
<1>4. ASSUME NEW critical \in BOOLEAN, Broadcast(critical) PROVE UNCHANGED fusionVars
  BY <1>4 DEF Broadcast, computeVars
<1>5. ASSUME NEW c \in Clients, Register(c) \/ Unregister(c) \/ ClientPops(c)
      PROVE  UNCHANGED fusionVars
  BY <1>5 DEF Register, Unregister, ClientPops, computeVars
<1>6. Shutdown \/ UNCHANGED vars => UNCHANGED fusionVars
  BY DEF Shutdown, computeVars, vars, fusionVars
<1> QED BY <1>1, <1>2, <1>3, <1>4, <1>5, <1>6 DEF Next

\* _update_state_machine_jit resets, keeps and bumps its four counters so that the
\* fusion's state takes a value exactly when hysteresis_threshold strides in a row
\* have asked for it, whatever alerts came before, and never for another reason.
THEOREM FusionDebounces == Spec => FusionIsDebounced
<1>1. Init => Debounced!Init
  BY DEF Init, FirstMachine, Debounced!Init
<1> QED BY <1>1, CountsInit, FusionStep, PTL DEF Spec, FusionIsDebounced, Debounced!Spec

-----------------------------------------------------------------------------
(***************************************************************************)
(* One push at one client's queue.                                         *)
(***************************************************************************)
\* A queue of frames in F with its counters.
Box(F) == [queue : Seq(F), drops : Nat, criticalDrops : Nat]

\* What is left of a sequence when one element is removed.
LEMMA Removed ==
  ASSUME NEW F, NEW q \in Seq(F), NEW k \in 1 .. Len(q)
  PROVE  /\ RemoveAt(q, k) \in Seq(F)
         /\ Len(RemoveAt(q, k)) = Len(q) - 1
         /\ \A i \in 1 .. Len(q) - 1 :
              RemoveAt(q, k)[i] = IF i < k THEN q[i] ELSE q[i + 1]
<1> DEFINE before == SubSeq(q, 1, k - 1)
           after == SubSeq(q, k + 1, Len(q))
<1>1. /\ before \in Seq(F) /\ Len(before) = k - 1
      /\ \A i \in 1 .. k - 1 : before[i] = q[i]
  BY SubSeqProperties
<1>2. /\ after \in Seq(F) /\ Len(after) = Len(q) - k
      /\ \A i \in 1 .. Len(q) - k : after[i] = q[k + i]
  BY SubSeqProperties
<1>3. RemoveAt(q, k) = before \o after
  BY DEF RemoveAt
<1> HIDE DEF before, after
<1>4. /\ before \o after \in Seq(F) /\ Len(before \o after) = Len(q) - 1
      /\ \A i \in 1 .. Len(q) - 1 : (before \o after)[i] =
           IF i <= k - 1 THEN before[i] ELSE after[i - (k - 1)]
  <2>1. Len(before) + Len(after) = Len(q) - 1
    BY <1>1, <1>2
  <2>2. /\ before \o after \in Seq(F) /\ Len(before \o after) = Len(before) + Len(after)
        /\ \A i \in 1 .. Len(before) + Len(after) : (before \o after)[i] =
             IF i <= Len(before) THEN before[i] ELSE after[i - Len(before)]
    BY <1>1, <1>2, ConcatProperties
  <2>3. Len(before) = k - 1
    BY <1>1
  <2> QED BY <2>1, <2>2, <2>3
<1>5. ASSUME NEW i \in 1 .. Len(q) - 1
      PROVE  (before \o after)[i] = IF i < k THEN q[i] ELSE q[i + 1]
  <2>1. CASE i < k
    BY <2>1, <1>1, <1>4
  <2>2. CASE i >= k
    <3>1. /\ ~(i <= k - 1) /\ i - (k - 1) \in 1 .. Len(q) - k
          /\ k + (i - (k - 1)) = i + 1
      BY <2>2
    <3>2. (before \o after)[i] = after[i - (k - 1)]
      BY <3>1, <1>4
    <3>3. after[i - (k - 1)] = q[i + 1]
      BY <3>1, <1>2
    <3> QED BY <2>2, <3>2, <3>3
  <2>3. Len(q) \in Nat
    BY LenProperties
  <2>4. i < k \/ i >= k
    BY <2>3
  <2> QED BY <2>1, <2>2, <2>4
<1> QED BY <1>3, <1>4, <1>5

\* Every other element is still there.
LEMMA OthersRemain ==
  ASSUME NEW F, NEW q \in Seq(F), NEW k \in 1 .. Len(q), NEW i \in 1 .. Len(q), i # k
  PROVE  \E j \in 1 .. Len(q) - 1 : RemoveAt(q, k)[j] = q[i]
<1>1. Len(q) \in Nat
  BY LenProperties
<1>2. CASE i < k
  <2>1. i \in 1 .. Len(q) - 1
    BY <1>1, <1>2
  <2> QED BY <1>2, <2>1, Removed
<1>3. CASE i > k
  <2>1. i - 1 \in 1 .. Len(q) - 1 /\ ~(i - 1 < k) /\ (i - 1) + 1 = i
    BY <1>1, <1>3
  <2>2. RemoveAt(q, k)[i - 1] = q[i]
    BY <2>1, Removed
  <2> QED BY <2>1, <2>2
<1> QED BY <1>1, <1>2, <1>3

\* push keeps a queue within its capacity, and either holds one frame more or
\* counts one drop more.  A routine frame displaces nothing, and a critical one
\* displaces a critical one only from a queue without routine frames.
THEOREM PushKeepsOrCounts ==
  ASSUME NEW F, NEW b \in Box(F), NEW frame \in F, Len(b.queue) <= Capacity
  PROVE  /\ Push(b, frame) \in Box(F)
         /\ Len(Push(b, frame).queue) <= Capacity
         /\ Len(Push(b, frame).queue) + DropsOf(Push(b, frame)) =
              Len(b.queue) + DropsOf(b) + 1
         /\ \A i \in 1 .. Len(b.queue) :
              \/ \E j \in 1 .. Len(Push(b, frame).queue) :
                   Push(b, frame).queue[j] = b.queue[i]
              \/ frame.critical /\ (b.queue[i].critical => RoutineIn(b.queue) = {})
<1> DEFINE q == b.queue
           new == Push(b, frame)
<1>1. /\ q \in Seq(F) /\ Len(q) \in Nat /\ b.drops \in Nat /\ b.criticalDrops \in Nat
      /\ DOMAIN q = 1 .. Len(q) /\ Capacity \in Nat \ {0}
  BY CapacityAssumption DEF Box
<1>2. CASE Len(q) < Capacity
  <2>1. new = [queue |-> Append(q, frame), drops |-> b.drops,
               criticalDrops |-> b.criticalDrops]
    <3>1. new = Accept(b, frame)
      BY <1>1, <1>2 DEF Push
    <3> QED BY <3>1 DEF Accept, Box
  <2>2. /\ Append(q, frame) \in Seq(F) /\ Len(Append(q, frame)) = Len(q) + 1
        /\ \A i \in 1 .. Len(q) : Append(q, frame)[i] = q[i]
    BY <1>1, AppendProperties
  <2> HIDE DEF q, new
  <2>3. new \in Box(F) /\ Len(new.queue) = Len(q) + 1 /\ DropsOf(new) = DropsOf(b)
    BY <1>1, <2>1, <2>2 DEF Box, DropsOf
  <2>4. \A i \in 1 .. Len(q) : \E j \in 1 .. Len(new.queue) : new.queue[j] = q[i]
    BY <1>1, <2>1, <2>2
  <2>5. Len(new.queue) + DropsOf(new) = Len(q) + DropsOf(b) + 1
    BY <1>1, <2>3 DEF DropsOf
  <2> QED BY <1>1, <1>2, <2>3, <2>4, <2>5 DEF q, new
<1>3. CASE Len(q) >= Capacity /\ ~frame.critical
  <2>1. new = [queue |-> q, drops |-> b.drops + 1, criticalDrops |-> b.criticalDrops]
    <3>1. new = Refuse(b)
      BY <1>1, <1>3 DEF Push
    <3> QED BY <3>1 DEF Refuse, Box
  <2> QED BY <1>1, <1>3, <2>1, SMTT(30) DEF Box, DropsOf
<1>4. CASE Len(q) >= Capacity /\ frame.critical /\ RoutineIn(q) # {}
  <2> DEFINE k == Min(RoutineIn(q))
             kept == RemoveAt(q, k)
  <2>1. k \in 1 .. Len(q) /\ ~q[k].critical
    <3>1. RoutineIn(q) \in SUBSET Nat
      BY <1>1 DEF RoutineIn
    <3>2. k \in RoutineIn(q)
      BY <1>4, <3>1, LeastOf
    <3> QED BY <3>2, <1>1 DEF RoutineIn
  <2>2. new = [queue |-> Append(kept, frame), drops |-> b.drops + 1,
               criticalDrops |-> b.criticalDrops]
    <3>1. new = DisplaceRoutine(b, frame)
      BY <1>1, <1>4 DEF Push
    <3> QED BY <3>1 DEF DisplaceRoutine, Box
  <2> HIDE DEF k
  <2>3. /\ kept \in Seq(F) /\ Len(kept) = Len(q) - 1
        /\ \A i \in 1 .. Len(q) : i # k => \E j \in 1 .. Len(q) - 1 : kept[j] = q[i]
    BY <1>1, <2>1, Removed, OthersRemain
  <2> HIDE DEF kept, q, new
  <2>4. /\ Append(kept, frame) \in Seq(F) /\ Len(Append(kept, frame)) = Len(q)
        /\ \A j \in 1 .. Len(q) - 1 : Append(kept, frame)[j] = kept[j]
    <3>1. Len(kept) = Len(q) - 1 /\ Len(kept) + 1 = Len(q)
      BY <1>1, <2>3
    <3>2. /\ Append(kept, frame) \in Seq(F) /\ Len(Append(kept, frame)) = Len(kept) + 1
          /\ \A j \in 1 .. Len(kept) : Append(kept, frame)[j] = kept[j]
      BY <2>3, AppendProperties
    <3> QED BY <3>1, <3>2
  <2>5. ASSUME NEW i \in 1 .. Len(q), i # k
        PROVE  \E j \in 1 .. Len(new.queue) : new.queue[j] = q[i]
    <3>1. PICK j \in 1 .. Len(q) - 1 : kept[j] = q[i]
      BY <2>3, <2>5
    <3>2. j \in 1 .. Len(q)
      BY <1>1
    <3> QED BY <3>1, <3>2, <2>2, <2>4
  <2>6. new \in Box(F) /\ Len(new.queue) = Len(q)
        /\ new.drops = b.drops + 1 /\ new.criticalDrops = b.criticalDrops
    <3>1. /\ new.queue = Append(kept, frame)
          /\ new.drops = b.drops + 1 /\ new.criticalDrops = b.criticalDrops
      BY <2>2
    <3>2. new \in Box(F)
      BY <1>1, <2>2, <2>4 DEF Box
    <3> QED BY <3>1, <3>2, <2>4
  <2>7. Len(new.queue) + DropsOf(new) = Len(q) + DropsOf(b) + 1
    BY <1>1, <2>6 DEF DropsOf
  <2>8. Len(new.queue) <= Capacity
    BY <2>6 DEF q
  <2>9. \A i \in 1 .. Len(q) :
          \/ \E j \in 1 .. Len(new.queue) : new.queue[j] = q[i]
          \/ frame.critical /\ (q[i].critical => RoutineIn(q) = {})
    BY <1>4, <2>1, <2>5
  <2> QED BY <2>6, <2>7, <2>8, <2>9 DEF q, new
<1>5. CASE Len(q) >= Capacity /\ frame.critical /\ RoutineIn(q) = {}
  <2>1. new = [queue |-> Append(Tail(q), frame), drops |-> b.drops,
               criticalDrops |-> b.criticalDrops + 1]
    <3>1. new = DisplaceCritical(b, frame)
      BY <1>1, <1>5 DEF Push
    <3> QED BY <3>1 DEF DisplaceCritical, Box
  <2>2. q # <<>>
    BY <1>1, <1>5
  <2>3. Tail(q) \in Seq(F) /\ Len(Tail(q)) = Len(q) - 1
    BY <1>1, <2>2, HeadTailProperties
  <2>4. Append(Tail(q), frame) \in Seq(F) /\ Len(Append(Tail(q), frame)) = Len(q)
    <3>1. Len(Tail(q)) + 1 = Len(q)
      BY <1>1, <2>3
    <3> QED BY <3>1, <2>3, AppendProperties
  <2> HIDE DEF q, new
  <2>5. new \in Box(F) /\ Len(new.queue) = Len(q)
        /\ new.drops = b.drops /\ new.criticalDrops = b.criticalDrops + 1
    BY <1>1, <2>1, <2>4 DEF Box
  <2>6. Len(new.queue) + DropsOf(new) = Len(q) + DropsOf(b) + 1
    BY <1>1, <2>5 DEF DropsOf
  <2>7. Len(new.queue) <= Capacity
    BY <2>5 DEF q
  <2> QED BY <1>5, <2>5, <2>6, <2>7 DEF q, new
<1>6. \/ Len(q) < Capacity
      \/ Len(q) >= Capacity /\ ~frame.critical
      \/ Len(q) >= Capacity /\ frame.critical
  BY <1>1
<1> QED BY <1>2, <1>3, <1>4, <1>5, <1>6

\* The boxes whose queue is within its capacity.
Boxes(F) == {b \in Box(F) : Len(b.queue) <= Capacity}

\* push leads from one to another.
LEMMA PushedBox ==
  ASSUME NEW F, NEW b \in Boxes(F), NEW frame \in F
  PROVE  Push(b, frame) \in Boxes(F)
BY PushKeepsOrCounts DEF Boxes

\* The boxes that come of pushing the n frames of a batch at b, one by one.
ArePushes(acc, b, batch, n) ==
  acc[0] = b /\ \A k \in 1 .. n : acc[k] = Push(acc[k - 1], batch[k])

\* A batch is pushed at a box frame by frame.
LEMMA BatchPushed ==
  ASSUME NEW F, NEW b \in Boxes(F), NEW n \in Nat, NEW batch \in [1 .. n -> F]
  PROVE  \E acc \in [0 .. n -> Boxes(F)] :
           ArePushes(acc, b, batch, n) /\ acc[n] = FoldLeft(Push, b, batch)
<1> DEFINE S == 1 .. n
           step == [p \in S \X Boxes(F) |-> Push(p[2], batch[p[1]])]
           it == CHOOSE g : g = [s \in SUBSET S |->
                   IF s = {} THEN b ELSE Push(g[s \ {Max(s)}], batch[Max(s)])]
<1>1. DOMAIN batch = S /\ 1 .. 0 = {}
  OBVIOUS
<1>2. FoldLeft(Push, b, batch) = it[S]
  BY <1>1 DEF FoldLeft, MapThenFoldSet
<1>3. step \in [S \X Boxes(F) -> Boxes(F)]
  BY PushedBox
<1>4. PICK t \in [SUBSET S -> Boxes(F)] : \A s \in SUBSET S :
        t[s] = IF s = {} THEN b ELSE step[<<Max(s), t[s \ {Max(s)}]>>]
  <2>1. PICK V : V = Boxes(F)
    OBVIOUS
  <2>2. PICK f : f = step
    OBVIOUS
  <2>3. b \in V /\ f \in [(1 .. n) \X V -> V]
    BY <1>3, <2>1, <2>2
  <2> HIDE DEF step
  <2>4. \E t \in [SUBSET (1 .. n) -> V] : IsLeftTable(t, n, b, f)
    BY <2>3, FoldLeftExists
  <2> QED BY <2>1, <2>2, <2>4 DEF IsLeftTable
<1>5. ASSUME NEW s \in SUBSET S, s # {}
      PROVE  t[s] = Push(t[s \ {Max(s)}], batch[Max(s)])
  <2>1. Max(s) \in S
    <3>1. s \in SUBSET (0 .. n)
      OBVIOUS
    <3> QED BY <1>5, <3>1, LastOf
  <2>2. s \ {Max(s)} \in SUBSET S
    OBVIOUS
  <2>3. t[s \ {Max(s)}] \in Boxes(F)
    BY <2>2
  <2>4. <<Max(s), t[s \ {Max(s)}]>> \in S \X Boxes(F)
    BY <2>1, <2>3
  <2> QED BY <1>4, <1>5, <2>4
<1> HIDE DEF step
<1>6. t = [s \in SUBSET S |-> IF s = {} THEN b ELSE Push(t[s \ {Max(s)}], batch[Max(s)])]
  BY <1>4, <1>5
<1>7. it = [s \in SUBSET S |-> IF s = {} THEN b ELSE Push(it[s \ {Max(s)}], batch[Max(s)])]
  BY <1>6
<1>8. PICK h : h = it
  OBVIOUS
<1> HIDE DEF it
<1>9. \A s \in SUBSET S : h[s] = IF s = {} THEN b ELSE Push(h[s \ {Max(s)}], batch[Max(s)])
  BY <1>7, <1>8
<1> DEFINE acc == [k \in 0 .. n |-> h[1 .. k]]
<1>10. acc[0] = b /\ acc[n] = FoldLeft(Push, b, batch)
  <2>1. h[{}] = b
    BY <1>9
  <2>2. 0 \in 0 .. n /\ n \in 0 .. n
    OBVIOUS
  <2>3. acc[0] = h[1 .. 0] /\ acc[n] = h[S]
    BY <2>2
  <2> QED BY <1>1, <1>2, <1>8, <2>1, <2>3
<1>11. ASSUME NEW k \in 1 .. n PROVE acc[k] = Push(acc[k - 1], batch[k])
  <2>1. /\ Max(1 .. k) = k /\ (1 .. k) \ {k} = 1 .. k - 1 /\ 1 .. k # {}
        /\ 1 .. k \in SUBSET S
    BY PrefixLast
  <2>2. h[1 .. k] = Push(h[1 .. k - 1], batch[k])
    BY <1>9, <2>1
  <2> QED BY <2>2
<1>12. \A k \in 0 .. n : acc[k] \in Boxes(F)
  <2> DEFINE Bad == {k \in 0 .. n : acc[k] \notin Boxes(F)}
  <2> HIDE DEF acc
  <2> SUFFICES ASSUME Bad # {} PROVE FALSE
    OBVIOUS
  <2>1. Bad \in SUBSET Nat
    OBVIOUS
  <2>2. PICK k \in Bad : \A j \in Bad : k <= j
    <3> HIDE DEF Bad
    <3> QED BY <2>1, LeastNumber
  <2>3. k \in 1 .. n
    BY <1>10
  <2>4. k - 1 \in 0 .. n /\ k - 1 \notin Bad
    BY <2>2, <2>3
  <2>5. acc[k - 1] \in Boxes(F) /\ batch[k] \in F
    BY <2>3, <2>4
  <2> QED BY <1>11, <2>3, <2>5, PushedBox
<1>13. acc \in [0 .. n -> Boxes(F)]
  BY <1>12
<1> HIDE DEF acc
<1> QED BY <1>10, <1>11, <1>13 DEF ArePushes

-----------------------------------------------------------------------------
(***************************************************************************)
(* What a client is offered, o, and what it keeps of it, h: the frames it  *)
(* has popped and then the ones in its queue.                              *)
(***************************************************************************)

\* The frames kept are frames that were offered, in the order of the offers.
Thinned(o, h) ==
  /\ o \in Seq(Frame) /\ h \in Seq(Frame)
  /\ \A i \in 1 .. Len(h) : \E k \in 1 .. Len(o) : o[k] = h[i]
  /\ \A i, j \in 1 .. Len(h), k, l \in 1 .. Len(o) :
       i < j /\ o[k] = h[i] /\ o[l] = h[j] => k < l

\* The offers of critical frames after the k-th.
CriticalsAfter(o, k) == {i \in DOMAIN o : i > k /\ o[i].critical}

\* A critical frame that is not kept was followed by a queue full of critical ones.
Retained(o, h) ==
  \A k \in 1 .. Len(o) :
    \/ ~o[k].critical
    \/ \E i \in 1 .. Len(h) : h[i] = o[k]
    \/ Cardinality(CriticalsAfter(o, k)) >= Capacity

\* The m-th frame is dropped from h, and r is left.
LeavesOut(h, r, m) ==
  /\ h \in Seq(Frame) /\ r \in Seq(Frame) /\ m \in 1 .. Len(h) /\ Len(r) = Len(h) - 1
  /\ \A j \in 1 .. Len(r) : r[j] = IF j < m THEN h[j] ELSE h[j + 1]

\* The frame has not been offered before.
IsNew(o, frame) == frame \in Frame /\ \A k \in 1 .. Len(o) : o[k] # frame

\* Dropping a frame leaves the others in order.
LEMMA LeavesOutThinned ==
  ASSUME NEW o, NEW h, NEW r, NEW m, Thinned(o, h), LeavesOut(h, r, m)
  PROVE  Thinned(o, r)
<1>1. Len(h) \in Nat /\ Len(r) = Len(h) - 1 /\ m \in 1 .. Len(h)
  BY LenProperties DEF LeavesOut
<1> DEFINE at(j) == IF j < m THEN j ELSE j + 1
<1>2. \A j \in 1 .. Len(r) : at(j) \in 1 .. Len(h) /\ r[j] = h[at(j)]
  BY <1>1 DEF LeavesOut
<1>3. \A i, j \in 1 .. Len(r) : i < j => at(i) < at(j)
  BY <1>1
<1> HIDE DEF at
<1>4. \A i \in 1 .. Len(r) : \E k \in 1 .. Len(o) : o[k] = r[i]
  BY <1>2 DEF Thinned
<1>5. ASSUME NEW i \in 1 .. Len(r), NEW j \in 1 .. Len(r), NEW k \in 1 .. Len(o),
             NEW l \in 1 .. Len(o), i < j, o[k] = r[i], o[l] = r[j]
      PROVE  k < l
  <2>1. PICK x \in 1 .. Len(h) : x = at(i) /\ r[i] = h[x]
    BY <1>2
  <2>2. PICK y \in 1 .. Len(h) : y = at(j) /\ r[j] = h[y]
    BY <1>2
  <2>3. x < y
    BY <1>3, <1>5, <2>1, <2>2
  <2> QED BY <1>5, <2>1, <2>2, <2>3 DEF Thinned
<1>6. o \in Seq(Frame) /\ r \in Seq(Frame)
  BY DEF Thinned, LeavesOut
<1> QED BY <1>4, <1>5, <1>6 DEF Thinned

\* A frame that is offered but not kept.
LEMMA RefusedThinned ==
  ASSUME NEW o, NEW h, NEW frame, Thinned(o, h), IsNew(o, frame)
  PROVE  Thinned(Append(o, frame), h)
<1> DEFINE p == Append(o, frame)
<1>1. o \in Seq(Frame) /\ h \in Seq(Frame) /\ frame \in Frame
  BY DEF Thinned, IsNew
<1>2. /\ p \in Seq(Frame) /\ Len(p) = Len(o) + 1 /\ Len(o) \in Nat
      /\ \A k \in 1 .. Len(o) : p[k] = o[k]
      /\ p[Len(o) + 1] = frame
  BY <1>1, AppendProperties, LenProperties
<1> HIDE DEF p
<1>3. ASSUME NEW i \in 1 .. Len(h), NEW k \in 1 .. Len(p), p[k] = h[i]
      PROVE  k \in 1 .. Len(o) /\ o[k] = h[i]
  <2>1. h[i] # frame
    BY DEF Thinned, IsNew
  <2> QED BY <1>2, <1>3, <2>1
<1>4. \A i \in 1 .. Len(h) : \E k \in 1 .. Len(p) : p[k] = h[i]
  BY <1>2 DEF Thinned
<1>5. \A i, j \in 1 .. Len(h), k, l \in 1 .. Len(p) :
        i < j /\ p[k] = h[i] /\ p[l] = h[j] => k < l
  BY <1>3 DEF Thinned
<1>6. Thinned(p, h)
  BY <1>1, <1>2, <1>4, <1>5 DEF Thinned
<1> QED BY <1>6 DEF p

\* A frame that is offered and kept.
LEMMA AcceptedThinned ==
  ASSUME NEW o, NEW h, NEW frame, Thinned(o, h), IsNew(o, frame)
  PROVE  Thinned(Append(o, frame), Append(h, frame))
<1> DEFINE p == Append(o, frame)
           g == Append(h, frame)
<1>1. o \in Seq(Frame) /\ h \in Seq(Frame) /\ frame \in Frame
  BY DEF Thinned, IsNew
<1>2. /\ p \in Seq(Frame) /\ Len(p) = Len(o) + 1 /\ Len(o) \in Nat
      /\ \A k \in 1 .. Len(o) : p[k] = o[k]
      /\ p[Len(o) + 1] = frame
  BY <1>1, AppendProperties, LenProperties
<1>3. /\ g \in Seq(Frame) /\ Len(g) = Len(h) + 1 /\ Len(h) \in Nat
      /\ \A k \in 1 .. Len(h) : g[k] = h[k]
      /\ g[Len(h) + 1] = frame
  BY <1>1, AppendProperties, LenProperties
<1> HIDE DEF p, g
<1>4. \A i \in 1 .. Len(g) : \E k \in 1 .. Len(p) : p[k] = g[i]
  <2> SUFFICES ASSUME NEW i \in 1 .. Len(g) PROVE \E k \in 1 .. Len(p) : p[k] = g[i]
    OBVIOUS
  <2>1. CASE i = Len(h) + 1
    <3>1. Len(o) + 1 \in 1 .. Len(p)
      BY <1>2
    <3> QED BY <1>2, <1>3, <2>1, <3>1
  <2>2. CASE i # Len(h) + 1
    <3>1. i \in 1 .. Len(h) /\ g[i] = h[i]
      BY <1>3, <2>2
    <3>2. PICK k \in 1 .. Len(o) : o[k] = h[i]
      BY <3>1 DEF Thinned
    <3> QED BY <1>2, <3>1, <3>2
  <2> QED BY <2>1, <2>2
<1>5. ASSUME NEW i \in 1 .. Len(g), NEW k \in 1 .. Len(p), p[k] = g[i]
      PROVE  i \in 1 .. Len(h) <=> k \in 1 .. Len(o)
  <2>1. \A j \in 1 .. Len(h) : h[j] # frame
    BY DEF Thinned, IsNew
  <2>2. \A l \in 1 .. Len(o) : o[l] # frame
    BY DEF IsNew
  <2> QED BY <1>2, <1>3, <1>5, <2>1, <2>2
<1>6. ASSUME NEW i \in 1 .. Len(g), NEW j \in 1 .. Len(g), NEW k \in 1 .. Len(p),
             NEW l \in 1 .. Len(p), i < j, p[k] = g[i], p[l] = g[j]
      PROVE  k < l
  <2>1. i \in 1 .. Len(h) /\ k \in 1 .. Len(o)
    BY <1>3, <1>5, <1>6
  <2>2. CASE j \in 1 .. Len(h)
    <3>1. l \in 1 .. Len(o)
      BY <1>5, <1>6, <2>2
    <3> QED BY <1>2, <1>3, <1>6, <2>1, <2>2, <3>1 DEF Thinned
  <2>3. CASE j \notin 1 .. Len(h)
    <3>1. l \notin 1 .. Len(o)
      BY <1>5, <1>6, <2>3
    <3> QED BY <1>2, <2>1, <3>1
  <2> QED BY <2>2, <2>3
<1>7. Thinned(p, g)
  BY <1>2, <1>3, <1>4, <1>6 DEF Thinned
<1> QED BY <1>7 DEF p, g

\* One more offer takes away none of the critical frames that follow another.
LEMMA LaterCriticals ==
  ASSUME NEW o \in Seq(Frame), NEW frame \in Frame, NEW k \in 1 .. Len(o)
  PROVE  /\ IsFiniteSet(CriticalsAfter(Append(o, frame), k))
         /\ Cardinality(CriticalsAfter(o, k)) <= Cardinality(CriticalsAfter(Append(o, frame), k))
         /\ Cardinality(CriticalsAfter(o, k)) \in Nat
         /\ Cardinality(CriticalsAfter(Append(o, frame), k)) \in Nat
<1> DEFINE p == Append(o, frame)
<1>1. /\ p \in Seq(Frame) /\ Len(p) = Len(o) + 1 /\ Len(o) \in Nat
      /\ \A i \in 1 .. Len(o) : p[i] = o[i]
      /\ DOMAIN p = 1 .. Len(p) /\ DOMAIN o = 1 .. Len(o)
  BY AppendProperties, LenProperties
<1> HIDE DEF p
<1>2. CriticalsAfter(o, k) \subseteq CriticalsAfter(p, k)
  BY <1>1 DEF CriticalsAfter
<1>3. IsFiniteSet(CriticalsAfter(p, k))
  <2>1. IsFiniteSet(1 .. Len(p))
    BY <1>1, FS_Interval
  <2>2. CriticalsAfter(p, k) \in SUBSET (1 .. Len(p))
    BY <1>1 DEF CriticalsAfter
  <2> QED BY <2>1, <2>2, FS_Subset
<1>4. /\ IsFiniteSet(CriticalsAfter(o, k))
      /\ Cardinality(CriticalsAfter(o, k)) <= Cardinality(CriticalsAfter(p, k))
  BY <1>2, <1>3, FS_Subset
<1>5. Cardinality(CriticalsAfter(o, k)) \in Nat /\ Cardinality(CriticalsAfter(p, k)) \in Nat
  BY <1>3, <1>4, FS_CardinalityType
<1> QED BY <1>3, <1>4, <1>5 DEF p

\* A critical frame that the first of a queue full of critical ones gives way to is
\* the last of as many later ones as the queue holds.
LEMMA DisplacedIsFollowed ==
  ASSUME NEW o, NEW h, NEW m \in 1 .. Len(h), NEW frame, NEW k \in 1 .. Len(o),
         Thinned(o, h), frame \in Frame, frame.critical,
         \A i \in m .. Len(h) : h[i].critical,
         Len(h) - m + 1 >= Capacity, o[k] = h[m]
  PROVE  Cardinality(CriticalsAfter(Append(o, frame), k)) >= Capacity
<1> DEFINE p == Append(o, frame)
           place(i) == CHOOSE l \in 1 .. Len(o) : o[l] = h[i]
           later == [i \in 1 .. Capacity |-> IF i < Capacity THEN place(m + i) ELSE Len(o) + 1]
           T == CriticalsAfter(p, k)
<1>1. o \in Seq(Frame) /\ h \in Seq(Frame) /\ Len(h) \in Nat /\ Capacity \in Nat \ {0}
  BY CapacityAssumption, LenProperties DEF Thinned
<1>2. /\ p \in Seq(Frame) /\ Len(p) = Len(o) + 1 /\ Len(o) \in Nat
      /\ \A i \in 1 .. Len(o) : p[i] = o[i]
      /\ p[Len(o) + 1] = frame
      /\ DOMAIN p = 1 .. Len(p)
  BY <1>1, AppendProperties, LenProperties
<1> HIDE DEF p
<1>3. \A i \in 1 .. Len(h) : place(i) \in 1 .. Len(o) /\ o[place(i)] = h[i]
  BY DEF Thinned
<1> HIDE DEF place
<1>4. ASSUME NEW i \in 1 .. Capacity - 1
      PROVE  /\ place(m + i) \in 1 .. Len(o) /\ place(m + i) > k
             /\ o[place(m + i)].critical
  <2>1. m + i \in m .. Len(h) /\ m + i \in 1 .. Len(h) /\ m < m + i
    BY <1>1
  <2>2. h[m + i].critical
    BY <2>1
  <2>3. place(m + i) \in 1 .. Len(o) /\ o[place(m + i)] = h[m + i]
    BY <1>3, <2>1
  <2>4. k < place(m + i)
    BY <2>1, <2>3 DEF Thinned
  <2> QED BY <2>2, <2>3, <2>4
<1>5. ASSUME NEW i \in 1 .. Capacity - 1, NEW j \in 1 .. Capacity - 1, i < j
      PROVE  place(m + i) < place(m + j)
  <2>1. m + i \in 1 .. Len(h) /\ m + j \in 1 .. Len(h) /\ m + i < m + j
    BY <1>1, <1>5, SMTT(30)
  <2>2. PICK x \in 1 .. Len(o) : x = place(m + i) /\ o[x] = h[m + i]
    BY <1>3, <2>1
  <2>3. PICK y \in 1 .. Len(o) : y = place(m + j) /\ o[y] = h[m + j]
    BY <1>3, <2>1
  <2>4. x < y
    BY <2>1, <2>2, <2>3 DEF Thinned
  <2> QED BY <2>2, <2>3, <2>4
<1>6. later \in [1 .. Capacity -> T]
  <2> SUFFICES ASSUME NEW i \in 1 .. Capacity PROVE later[i] \in T
    OBVIOUS
  <2>1. CASE i < Capacity
    <3>1. i \in 1 .. Capacity - 1
      BY <1>1, <2>1
    <3>2. later[i] = place(m + i)
      BY <2>1
    <3>3. /\ later[i] \in 1 .. Len(o) /\ later[i] > k /\ o[later[i]].critical
      BY <1>4, <3>1, <3>2
    <3> HIDE DEF later
    <3> QED BY <1>2, <3>3 DEF CriticalsAfter
  <2>2. CASE ~(i < Capacity)
    <3>1. later[i] = Len(o) + 1
      BY <2>2
    <3> QED BY <1>2, <3>1 DEF CriticalsAfter
  <2> QED BY <2>1, <2>2
<1>7. \A i, j \in 1 .. Capacity : i < j => later[i] < later[j]
  <2> SUFFICES ASSUME NEW i \in 1 .. Capacity, NEW j \in 1 .. Capacity, i < j
               PROVE  later[i] < later[j]
    OBVIOUS
  <2>1. i \in 1 .. Capacity - 1 /\ later[i] = place(m + i)
    BY <1>1
  <2>2. CASE j < Capacity
    <3>1. j \in 1 .. Capacity - 1 /\ later[j] = place(m + j)
      BY <1>1, <2>2
    <3> HIDE DEF later
    <3> QED BY <1>5, <2>1, <3>1
  <2>3. CASE ~(j < Capacity)
    <3>1. later[j] = Len(o) + 1
      BY <2>3
    <3>2. place(m + i) \in 1 .. Len(o)
      BY <1>4, <2>1
    <3> HIDE DEF later
    <3> QED BY <1>2, <2>1, <3>1, <3>2
  <2> QED BY <2>2, <2>3
<1> HIDE DEF later
<1>8. \A i, j \in 1 .. Capacity : later[i] = later[j] => i = j
  <2>1. \A i \in 1 .. Capacity : later[i] \in Int
    BY <1>2, <1>6 DEF CriticalsAfter
  <2> QED BY <1>1, <1>7, <2>1
<1>9. IsFiniteSet(T)
  BY <1>1, LaterCriticals DEF p
<1>10. Cardinality(1 .. Capacity) <= Cardinality(T)
  <2> HIDE DEF T
  <2>1. later \in Injection(1 .. Capacity, T)
    BY <1>6, <1>8 DEF Injection, IsInjective
  <2> QED BY <1>9, <2>1, FS_Injection
<1>11. Cardinality(1 .. Capacity) = Capacity
  BY <1>1, FS_Interval
<1>12. Cardinality(T) \in Nat
  BY <1>9, FS_CardinalityType
<1>13. Cardinality(T) >= Capacity
  <2> HIDE DEF T
  <2> QED BY <1>1, <1>10, <1>11, <1>12
<1> QED BY <1>13 DEF p

\* What g has to keep when a frame is offered to a client that keeps h.
KeepsCriticals(o, h, g, frame) ==
  /\ frame.critical => \E i \in 1 .. Len(g) : g[i] = frame
  /\ \A k \in 1 .. Len(o) :
       \/ ~o[k].critical
       \/ \A i \in 1 .. Len(h) : h[i] # o[k]
       \/ \E i \in 1 .. Len(g) : g[i] = o[k]
       \/ Cardinality(CriticalsAfter(Append(o, frame), k)) >= Capacity

\* Then critical frames are retained.
LEMMA StillRetained ==
  ASSUME NEW o \in Seq(Frame), NEW h, NEW g, NEW frame \in Frame,
         Retained(o, h), KeepsCriticals(o, h, g, frame)
  PROVE  Retained(Append(o, frame), g)
<1> DEFINE p == Append(o, frame)
<1>1. /\ p \in Seq(Frame) /\ Len(p) = Len(o) + 1 /\ Len(o) \in Nat
      /\ \A i \in 1 .. Len(o) : p[i] = o[i]
      /\ p[Len(o) + 1] = frame
  BY AppendProperties, LenProperties
<1> HIDE DEF p
<1>2. ASSUME NEW k \in 1 .. Len(p)
      PROVE  \/ ~p[k].critical
             \/ \E i \in 1 .. Len(g) : g[i] = p[k]
             \/ Cardinality(CriticalsAfter(p, k)) >= Capacity
  <2>1. CASE k = Len(o) + 1
    BY <1>1, <2>1 DEF KeepsCriticals
  <2>2. CASE k # Len(o) + 1
    <3>1. k \in 1 .. Len(o) /\ p[k] = o[k]
      BY <1>1, <2>2
    <3>2. CASE Cardinality(CriticalsAfter(o, k)) >= Capacity
      <4>1. /\ Cardinality(CriticalsAfter(o, k)) <= Cardinality(CriticalsAfter(p, k))
            /\ Cardinality(CriticalsAfter(o, k)) \in Nat
            /\ Cardinality(CriticalsAfter(p, k)) \in Nat
        BY <3>1, LaterCriticals DEF p
      <4> QED BY <3>2, <4>1, CapacityAssumption
    <3>3. CASE ~(Cardinality(CriticalsAfter(o, k)) >= Capacity)
      BY <3>1, <3>3 DEF Retained, KeepsCriticals, p
    <3> QED BY <3>2, <3>3
  <2> QED BY <2>1, <2>2
<1>3. Retained(p, g)
  BY <1>2 DEF Retained
<1> QED BY <1>3 DEF p

\* A frame dropped from the queue is dropped from what is kept.
LEMMA LeavesOutQueued ==
  ASSUME NEW d \in Seq(Frame), NEW q, NEW r, NEW m, LeavesOut(q, r, m)
  PROVE  LeavesOut(d \o q, d \o r, Len(d) + m)
<1>1. /\ q \in Seq(Frame) /\ r \in Seq(Frame) /\ m \in 1 .. Len(q) /\ Len(r) = Len(q) - 1
      /\ Len(q) \in Nat /\ Len(r) \in Nat /\ Len(d) \in Nat
  BY LenProperties DEF LeavesOut
<1>2. /\ d \o q \in Seq(Frame) /\ Len(d \o q) = Len(d) + Len(q)
      /\ \A i \in 1 .. Len(d) + Len(q) :
           (d \o q)[i] = IF i <= Len(d) THEN d[i] ELSE q[i - Len(d)]
  BY <1>1, ConcatProperties
<1>3. /\ d \o r \in Seq(Frame) /\ Len(d \o r) = Len(d) + Len(r)
      /\ \A i \in 1 .. Len(d) + Len(r) :
           (d \o r)[i] = IF i <= Len(d) THEN d[i] ELSE r[i - Len(d)]
  BY <1>1, ConcatProperties
<1>4. ASSUME NEW j \in 1 .. Len(d) + Len(r)
      PROVE  (d \o r)[j] = IF j < Len(d) + m THEN (d \o q)[j] ELSE (d \o q)[j + 1]
  <2>1. j \in 1 .. Len(d) + Len(q) /\ j + 1 \in 1 .. Len(d) + Len(q)
    BY <1>1
  <2>2. CASE j <= Len(d)
    BY <1>1, <1>2, <1>3, <2>1, <2>2
  <2>3. CASE j > Len(d)
    <3>1. /\ j - Len(d) \in 1 .. Len(r) /\ (j + 1) - Len(d) = (j - Len(d)) + 1
          /\ ~(j <= Len(d)) /\ ~(j + 1 <= Len(d))
          /\ (j - Len(d) < m <=> j < Len(d) + m)
      BY <1>1, <2>3
    <3>2. (d \o r)[j] = r[j - Len(d)] /\ (d \o q)[j] = q[j - Len(d)]
          /\ (d \o q)[j + 1] = q[(j - Len(d)) + 1]
      BY <1>2, <1>3, <2>1, <3>1
    <3>3. r[j - Len(d)] = IF j - Len(d) < m THEN q[j - Len(d)] ELSE q[(j - Len(d)) + 1]
      BY <3>1 DEF LeavesOut
    <3> QED BY <3>1, <3>2, <3>3
  <2> QED BY <1>1, <2>2, <2>3
<1>5. Len(d) + m \in 1 .. Len(d \o q) /\ Len(d \o r) = Len(d \o q) - 1
  BY <1>1, <1>2, <1>3
<1> QED BY <1>2, <1>3, <1>4, <1>5 DEF LeavesOut

\* The ways a queue takes a frame.
Takes(q, n, frame, drops) ==
  \/ n = Append(q, frame) /\ drops = 0
  \/ n = q /\ ~frame.critical /\ drops = 1
  \/ /\ frame.critical /\ drops = 1
     /\ \E r \in Seq(Frame), m \in 1 .. Len(q) :
          /\ LeavesOut(q, r, m)
          /\ n = Append(r, frame)
          /\ \/ ~q[m].critical
             \/ m = 1 /\ Len(q) >= Capacity /\ \A i \in 1 .. Len(q) : q[i].critical

\* push takes a frame in one of them.
LEMMA PushTakes ==
  ASSUME NEW b \in Boxes(Frame), NEW frame \in Frame
  PROVE  \E drops \in 0 .. 1 :
           /\ Takes(b.queue, Push(b, frame).queue, frame, drops)
           /\ DropsOf(Push(b, frame)) = DropsOf(b) + drops
<1> DEFINE q == b.queue
           new == Push(b, frame)
<1>1. /\ b \in Box(Frame)
      /\ q \in Seq(Frame) /\ Len(q) \in Nat /\ b.drops \in Nat /\ b.criticalDrops \in Nat
      /\ DOMAIN q = 1 .. Len(q) /\ Capacity \in Nat \ {0}
  BY CapacityAssumption DEF Box, Boxes
<1>2. CASE Len(q) < Capacity
  <2>1. new = Accept(b, frame)
    BY <1>1, <1>2 DEF Push
  <2>2. new.queue = Append(q, frame) /\ DropsOf(new) = DropsOf(b) + 0
    BY <1>1, <2>1 DEF Accept, Box, DropsOf
  <2> QED BY <2>2 DEF Takes
<1>3. CASE Len(q) >= Capacity /\ ~frame.critical
  <2>1. new = Refuse(b)
    BY <1>1, <1>3 DEF Push
  <2>2. new.queue = q /\ DropsOf(new) = DropsOf(b) + 1
    BY <1>1, <2>1 DEF Refuse, Box, DropsOf
  <2> QED BY <1>3, <2>2 DEF Takes
<1>4. CASE Len(q) >= Capacity /\ frame.critical /\ RoutineIn(q) # {}
  <2> DEFINE m == Min(RoutineIn(q))
             r == RemoveAt(q, m)
  <2>1. m \in 1 .. Len(q) /\ ~q[m].critical
    <3>1. RoutineIn(q) \in SUBSET Nat
      BY <1>1 DEF RoutineIn
    <3>2. m \in RoutineIn(q)
      BY <1>4, <3>1, LeastOf
    <3> QED BY <3>2, <1>1 DEF RoutineIn
  <2>2. new = DisplaceRoutine(b, frame)
    BY <1>1, <1>4 DEF Push
  <2>3. new.queue = Append(r, frame) /\ DropsOf(new) = DropsOf(b) + 1
    BY <1>1, <2>2 DEF DisplaceRoutine, Box, DropsOf
  <2> HIDE DEF m
  <2>4. LeavesOut(q, r, m)
    BY <1>1, <2>1, Removed DEF LeavesOut
  <2> HIDE DEF r
  <2>5. r \in Seq(Frame)
    BY <2>4 DEF LeavesOut
  <2> QED BY <1>4, <2>1, <2>3, <2>4, <2>5 DEF Takes
<1>5. CASE Len(q) >= Capacity /\ frame.critical /\ RoutineIn(q) = {}
  <2>1. new = DisplaceCritical(b, frame)
    BY <1>1, <1>5 DEF Push
  <2>2. new.queue = Append(Tail(q), frame) /\ DropsOf(new) = DropsOf(b) + 1
    BY <1>1, <2>1 DEF DisplaceCritical, Box, DropsOf
  <2>3. q # <<>> /\ 1 \in 1 .. Len(q)
    BY <1>1, <1>5
  <2>4. Tail(q) \in Seq(Frame) /\ LeavesOut(q, Tail(q), 1)
    BY <1>1, <2>3, HeadTailProperties DEF LeavesOut
  <2>5. \A i \in 1 .. Len(q) : q[i].critical
    BY <1>1, <1>5 DEF RoutineIn
  <2>6. Takes(q, new.queue, frame, 1)
    BY <1>5, <2>2, <2>3, <2>4, <2>5 DEF Takes
  <2> QED BY <2>2, <2>6
<1> QED BY <1>1, <1>2, <1>3, <1>4, <1>5

\* What holds between the offers o of a client, the frames d it has popped, its box b,
\* the drops f that were moved into the totals, and the last number of each feed.
Served(o, d, b, f, last) ==
  /\ d \in Seq(Frame) /\ b \in Boxes(Frame) /\ f \in Nat
  /\ Thinned(o, d \o b.queue)
  /\ Retained(o, d \o b.queue)
  /\ Increasing(o)
  /\ \A k \in 1 .. Len(o) : o[k].number <= last[o[k].feed]
  /\ Len(o) = Len(d) + Len(b.queue) + DropsOf(b) + f

\* The feeds have gone on, and this is a frame they have come to.
FeedsGoOn(last, frame, more) ==
  /\ last \in [Feeds -> Nat] /\ more \in [Feeds -> Nat]
  /\ \A feed \in Feeds : last[feed] <= more[feed]
  /\ frame \in Frame
  /\ last[frame.feed] < frame.number /\ frame.number <= more[frame.feed]

\* A client that has just registered.
LEMMA ServedFresh ==
  ASSUME NEW last
  PROVE  Served(<<>>, <<>>, EmptyBox, 0, last)
<1>1. /\ EmptyBox \in Box(Frame) /\ EmptyBox.queue = <<>> /\ DropsOf(EmptyBox) = 0
      /\ <<>> \in Seq(Frame) /\ Len(<<>>) = 0 /\ <<>> \o <<>> = <<>>
      /\ DOMAIN <<>> = {}
  BY DEF EmptyBox, Box, DropsOf
<1>2. EmptyBox \in Boxes(Frame)
  BY <1>1, CapacityAssumption DEF Boxes
<1>3. Thinned(<<>>, <<>>) /\ Retained(<<>>, <<>>) /\ Increasing(<<>>)
  BY <1>1 DEF Thinned, Retained, Increasing
<1> QED BY <1>1, <1>2, <1>3 DEF Served

\* The feeds going on changes nothing about a client.
LEMMA ServedStill ==
  ASSUME NEW o, NEW d, NEW b, NEW f, NEW last \in [Feeds -> Nat], NEW more \in [Feeds -> Nat],
         Served(o, d, b, f, last), \A feed \in Feeds : last[feed] <= more[feed]
  PROVE  Served(o, d, b, f, more)
<1>1. ASSUME NEW k \in 1 .. Len(o) PROVE o[k].number <= more[o[k].feed]
  <2>1. o[k].number <= last[o[k].feed] /\ o \in Seq(Frame)
    BY DEF Served, Thinned
  <2>2. o[k] \in Frame
    BY <2>1, ElementOfSeq
  <2>3. o[k].feed \in Feeds /\ o[k].number \in Int
    BY <2>2 DEF Frame
  <2> QED BY <2>1, <2>3
<1> QED BY <1>1 DEF Served

\* A frame that gets on is new, and keeps the order of its feed.
LEMMA NextOffer ==
  ASSUME NEW o \in Seq(Frame), NEW last, NEW frame, NEW more,
         FeedsGoOn(last, frame, more), Increasing(o),
         \A k \in 1 .. Len(o) : o[k].number <= last[o[k].feed]
  PROVE  /\ IsNew(o, frame)
         /\ Increasing(Append(o, frame))
         /\ \A k \in 1 .. Len(Append(o, frame)) :
              Append(o, frame)[k].number <= more[Append(o, frame)[k].feed]
<1> DEFINE p == Append(o, frame)
<1>1. /\ frame \in Frame /\ p \in Seq(Frame) /\ Len(p) = Len(o) + 1 /\ Len(o) \in Nat
      /\ \A i \in 1 .. Len(o) : p[i] = o[i]
      /\ p[Len(o) + 1] = frame
      /\ DOMAIN p = 1 .. Len(p) /\ DOMAIN o = 1 .. Len(o)
  BY AppendProperties, LenProperties DEF FeedsGoOn
<1> HIDE DEF p
<1>2. ASSUME NEW k \in 1 .. Len(o)
      PROVE  /\ o[k].feed \in Feeds /\ o[k].number \in Int
             /\ o[k].number <= last[o[k].feed]
             /\ last[o[k].feed] <= more[o[k].feed]
             /\ last[o[k].feed] \in Int /\ more[o[k].feed] \in Int
  <2>1. o[k] \in Frame
    BY ElementOfSeq
  <2> QED BY <2>1 DEF Frame, FeedsGoOn
<1>3. frame.feed \in Feeds /\ frame.number \in Int
  BY <1>1 DEF Frame
<1>4. IsNew(o, frame)
  <2>1. ASSUME NEW k \in 1 .. Len(o), o[k] = frame PROVE FALSE
    BY <1>2, <1>3, <2>1 DEF FeedsGoOn
  <2> QED BY <1>1, <2>1 DEF IsNew
<1>5. \A k \in 1 .. Len(p) : p[k].number <= more[p[k].feed]
  BY <1>1, <1>2 DEF FeedsGoOn
<1>6. ASSUME NEW i \in DOMAIN p, NEW j \in DOMAIN p, i < j, p[i].feed = p[j].feed
      PROVE  p[i].number < p[j].number
  <2>1. i \in 1 .. Len(o)
    BY <1>1, <1>6
  <2>2. CASE j = Len(o) + 1
    <3>1. o[i].number <= last[frame.feed] /\ o[i].feed = frame.feed /\ o[i].number \in Int
      BY <1>1, <1>2, <1>6, <2>1, <2>2
    <3>2. last[frame.feed] < frame.number /\ last[frame.feed] \in Int
      BY <1>3 DEF FeedsGoOn
    <3> QED BY <1>1, <1>3, <2>1, <2>2, <3>1, <3>2
  <2>3. CASE j # Len(o) + 1
    <3>1. j \in 1 .. Len(o)
      BY <1>1, <2>3
    <3> QED BY <1>1, <1>6, <2>1, <3>1 DEF Increasing
  <2> QED BY <2>2, <2>3
<1>7. Increasing(p)
  BY <1>6 DEF Increasing
<1> QED BY <1>4, <1>5, <1>7 DEF p

\* A frame dropped from h leaves the criticals of the others.
LEMMA OthersKept ==
  ASSUME NEW o, NEW h, NEW r, NEW m, NEW frame \in Frame,
         LeavesOut(h, r, m), frame.critical,
         \/ ~h[m].critical
         \/ \A k \in 1 .. Len(o) :
              o[k] = h[m] => Cardinality(CriticalsAfter(Append(o, frame), k)) >= Capacity
  PROVE  KeepsCriticals(o, h, Append(r, frame), frame)
<1> DEFINE g == Append(r, frame)
<1>1. /\ r \in Seq(Frame) /\ m \in 1 .. Len(h) /\ Len(r) = Len(h) - 1
      /\ Len(h) \in Nat /\ Len(r) \in Nat
      /\ \A j \in 1 .. Len(r) : r[j] = IF j < m THEN h[j] ELSE h[j + 1]
  BY LenProperties DEF LeavesOut
<1>2. /\ Len(g) = Len(r) + 1 /\ g[Len(r) + 1] = frame
      /\ \A j \in 1 .. Len(r) : g[j] = r[j]
  BY <1>1, AppendProperties
<1> HIDE DEF g
<1>3. ASSUME NEW i \in 1 .. Len(h), i # m PROVE \E j \in 1 .. Len(g) : g[j] = h[i]
  <2>1. CASE i < m
    <3>1. i \in 1 .. Len(r) /\ i \in 1 .. Len(g) /\ r[i] = h[i]
      BY <1>1, <1>2, <2>1
    <3> QED BY <1>2, <3>1
  <2>2. CASE i > m
    <3>1. /\ i - 1 \in 1 .. Len(r) /\ i - 1 \in 1 .. Len(g) /\ ~(i - 1 < m)
          /\ (i - 1) + 1 = i
      BY <1>1, <1>2, <2>2
    <3>2. r[i - 1] = h[i]
      BY <1>1, <3>1
    <3> QED BY <1>2, <3>1, <3>2
  <2> QED BY <1>1, <1>3, <2>1, <2>2
<1>4. \E j \in 1 .. Len(g) : g[j] = frame
  <2>1. Len(r) + 1 \in 1 .. Len(g)
    BY <1>1, <1>2
  <2> QED BY <1>2, <2>1
<1>5. ASSUME NEW k \in 1 .. Len(o)
      PROVE  \/ ~o[k].critical
             \/ \A i \in 1 .. Len(h) : h[i] # o[k]
             \/ \E i \in 1 .. Len(g) : g[i] = o[k]
             \/ Cardinality(CriticalsAfter(Append(o, frame), k)) >= Capacity
  <2>1. CASE o[k] = h[m]
    BY <2>1
  <2>2. CASE o[k] # h[m]
    BY <1>3, <2>2
  <2> QED BY <2>1, <2>2
<1>6. KeepsCriticals(o, h, g, frame)
  BY <1>4, <1>5 DEF KeepsCriticals
<1> QED BY <1>6 DEF g

\* A frame that is appended to a part is appended to the whole.
LEMMA AppendedLater ==
  ASSUME NEW d \in Seq(Frame), NEW r \in Seq(Frame), NEW frame \in Frame
  PROVE  d \o Append(r, frame) = Append(d \o r, frame)
<1>1. PICK e : e = <<frame>>
  OBVIOUS
<1>2. e \in Seq(Frame)
  BY <1>1
<1>3. d \o r \in Seq(Frame)
  BY ConcatProperties
<1>4. Append(r, frame) = r \o e /\ Append(d \o r, frame) = (d \o r) \o e
  BY <1>1, <1>3, AppendIsConcat
<1>5. (d \o r) \o e = d \o (r \o e)
  BY <1>2, ConcatAssociative
<1> QED BY <1>4, <1>5

\* What taking a frame into the queue makes of what is kept.
LEMMA TakenKept ==
  ASSUME NEW o, NEW d, NEW q \in Seq(Frame), NEW n \in Seq(Frame), NEW frame, NEW drops,
         d \in Seq(Frame), Thinned(o, d \o q), Retained(o, d \o q),
         IsNew(o, frame), Takes(q, n, frame, drops)
  PROVE  /\ Thinned(Append(o, frame), d \o n)
         /\ Retained(Append(o, frame), d \o n)
         /\ Len(n) + drops = Len(q) + 1
<1>1. o \in Seq(Frame) /\ frame \in Frame /\ Len(q) \in Nat /\ d \o q \in Seq(Frame)
  BY LenProperties, ConcatProperties DEF Thinned, IsNew
<1>2. CASE n = Append(q, frame) /\ drops = 0
  <2>1. d \o n = Append(d \o q, frame)
    BY <1>1, <1>2, AppendedLater
  <2>2. Thinned(Append(o, frame), d \o n)
    BY <2>1, AcceptedThinned
  <2>3. KeepsCriticals(o, d \o q, d \o n, frame)
    <3>1. PICK h \in Seq(Frame) : h = d \o q
      BY <1>1
    <3>2. /\ Len(Append(h, frame)) = Len(h) + 1 /\ Len(h) \in Nat
          /\ Append(h, frame)[Len(h) + 1] = frame
          /\ \A i \in 1 .. Len(h) : Append(h, frame)[i] = h[i]
      BY <1>1, AppendProperties, LenProperties
    <3>3. Len(h) + 1 \in 1 .. Len(Append(h, frame))
          /\ \A i \in 1 .. Len(h) : i \in 1 .. Len(Append(h, frame))
      BY <3>2
    <3>4. KeepsCriticals(o, h, Append(h, frame), frame)
      BY <3>2, <3>3 DEF KeepsCriticals
    <3> QED BY <2>1, <3>1, <3>4
  <2>4. Retained(Append(o, frame), d \o n)
    BY <1>1, <2>3, StillRetained
  <2>5. Len(n) = Len(q) + 1
    BY <1>1, <1>2, AppendProperties
  <2> QED BY <1>1, <1>2, <2>2, <2>4, <2>5
<1>3. CASE n = q /\ ~frame.critical /\ drops = 1
  <2>1. Thinned(Append(o, frame), d \o n)
    BY <1>3, RefusedThinned
  <2>2. KeepsCriticals(o, d \o q, d \o n, frame)
    BY <1>3 DEF KeepsCriticals
  <2>3. Retained(Append(o, frame), d \o n)
    BY <1>1, <2>2, StillRetained
  <2> QED BY <1>1, <1>3, <2>1, <2>3
<1>4. ASSUME frame.critical, drops = 1,
             NEW r \in Seq(Frame), NEW m \in 1 .. Len(q), LeavesOut(q, r, m),
             n = Append(r, frame),
             \/ ~q[m].critical
             \/ m = 1 /\ Len(q) >= Capacity /\ \A i \in 1 .. Len(q) : q[i].critical
      PROVE  /\ Thinned(Append(o, frame), d \o n)
             /\ Retained(Append(o, frame), d \o n)
             /\ Len(n) + drops = Len(q) + 1
  <2>1. PICK h \in Seq(Frame) : h = d \o q
    BY <1>1
  <2>2. PICK s \in Seq(Frame) : s = d \o r
    BY <1>4, ConcatProperties
  <2>3. LeavesOut(h, s, Len(d) + m)
    BY <1>4, <2>1, <2>2, LeavesOutQueued
  <2>4. d \o n = Append(s, frame)
    BY <1>1, <1>4, <2>2, AppendedLater
  <2>5. Thinned(o, s)
    BY <2>1, <2>3, LeavesOutThinned
  <2>6. Thinned(Append(o, frame), d \o n)
    BY <2>4, <2>5, AcceptedThinned
  <2>7. /\ Len(d) \in Nat /\ Len(h) = Len(d) + Len(q)
        /\ \A i \in 1 .. Len(q) : h[Len(d) + i] = q[i]
    <3>1. Len(d) \in Nat
      BY LenProperties
    <3>2. /\ Len(d \o q) = Len(d) + Len(q)
          /\ \A i \in 1 .. Len(d) + Len(q) :
               (d \o q)[i] = IF i <= Len(d) THEN d[i] ELSE q[i - Len(d)]
      BY ConcatProperties
    <3>3. ASSUME NEW i \in 1 .. Len(q) PROVE h[Len(d) + i] = q[i]
      <4>1. /\ Len(d) + i \in 1 .. Len(d) + Len(q) /\ ~(Len(d) + i <= Len(d))
            /\ (Len(d) + i) - Len(d) = i
        BY <1>1, <3>1
      <4> QED BY <2>1, <3>2, <4>1
    <3> QED BY <2>1, <3>1, <3>2, <3>3
  <2>8. KeepsCriticals(o, h, Append(s, frame), frame)
    <3>1. CASE ~q[m].critical
      <4>1. ~h[Len(d) + m].critical
        BY <2>7, <3>1
      <4> QED BY <1>1, <1>4, <2>3, <4>1, OthersKept
    <3>2. CASE m = 1 /\ Len(q) >= Capacity /\ \A i \in 1 .. Len(q) : q[i].critical
      <4>1. PICK x \in 1 .. Len(h) : x = Len(d) + 1
        BY <1>1, <2>7, <3>2
      <4>2. \A i \in x .. Len(h) : h[i].critical
        <5> SUFFICES ASSUME NEW i \in x .. Len(h) PROVE h[i].critical
          OBVIOUS
        <5>1. i - Len(d) \in 1 .. Len(q) /\ Len(d) + (i - Len(d)) = i
          BY <1>1, <2>7, <4>1
        <5> QED BY <2>7, <3>2, <5>1
      <4>3. Len(h) - x + 1 >= Capacity
        BY <1>1, <2>7, <3>2, <4>1, CapacityAssumption
      <4>4. Thinned(o, h)
        BY <2>1
      <4>5. \A k \in 1 .. Len(o) :
              o[k] = h[x] => Cardinality(CriticalsAfter(Append(o, frame), k)) >= Capacity
        BY <1>1, <1>4, <4>2, <4>3, <4>4, DisplacedIsFollowed
      <4>6. LeavesOut(h, s, x)
        BY <2>3, <3>2, <4>1
      <4> QED BY <1>1, <1>4, <4>5, <4>6, OthersKept
    <3> QED BY <1>4, <3>1, <3>2
  <2>9. Retained(Append(o, frame), d \o n)
    BY <1>1, <2>1, <2>4, <2>8, StillRetained
  <2>10. Len(n) + drops = Len(q) + 1
    <3>1. Len(r) = Len(q) - 1 /\ Len(n) = Len(r) + 1
      BY <1>1, <1>4, AppendProperties DEF LeavesOut
    <3> QED BY <1>1, <1>4, <3>1
  <2> QED BY <2>6, <2>9, <2>10
<1> QED BY <1>2, <1>3, <1>4 DEF Takes

\* push at the queue of a client keeps what holds of it.
LEMMA ServedPush ==
  ASSUME NEW o, NEW d, NEW b, NEW f, NEW last, NEW frame, NEW more,
         Served(o, d, b, f, last), FeedsGoOn(last, frame, more)
  PROVE  Served(Append(o, frame), d, Push(b, frame), f, more)
<1>1. /\ o \in Seq(Frame) /\ d \in Seq(Frame) /\ b \in Boxes(Frame) /\ f \in Nat
      /\ frame \in Frame
  BY DEF Served, Thinned, FeedsGoOn
<1>2. /\ IsNew(o, frame)
      /\ Increasing(Append(o, frame))
      /\ \A k \in 1 .. Len(Append(o, frame)) :
           Append(o, frame)[k].number <= more[Append(o, frame)[k].feed]
  BY <1>1, NextOffer DEF Served
<1>3. PICK new \in Boxes(Frame) : new = Push(b, frame)
  BY <1>1, PushedBox
<1>4. PICK drops \in 0 .. 1 :
        Takes(b.queue, new.queue, frame, drops) /\ DropsOf(new) = DropsOf(b) + drops
  BY <1>1, <1>3, PushTakes
<1>5. /\ b.queue \in Seq(Frame) /\ new.queue \in Seq(Frame)
      /\ DropsOf(b) \in Nat
  BY <1>1 DEF Boxes, Box, DropsOf
<1>6. /\ Thinned(Append(o, frame), d \o new.queue)
      /\ Retained(Append(o, frame), d \o new.queue)
      /\ Len(new.queue) + drops = Len(b.queue) + 1
  <2>1. PICK q \in Seq(Frame), n \in Seq(Frame) : q = b.queue /\ n = new.queue
    BY <1>5
  <2>2. Thinned(o, d \o q) /\ Retained(o, d \o q)
    BY <2>1 DEF Served
  <2>3. Takes(q, n, frame, drops)
    BY <1>4, <2>1
  <2>4. /\ Thinned(Append(o, frame), d \o n)
        /\ Retained(Append(o, frame), d \o n)
        /\ Len(n) + drops = Len(q) + 1
    BY <1>1, <1>2, <2>2, <2>3, TakenKept
  <2> QED BY <2>1, <2>4
<1>7. Len(Append(o, frame)) = Len(d) + Len(new.queue) + DropsOf(new) + f
  <2>1. Len(Append(o, frame)) = Len(o) + 1
    BY <1>1, AppendProperties
  <2>2. /\ Len(o) \in Nat /\ Len(d) \in Nat /\ Len(b.queue) \in Nat /\ Len(new.queue) \in Nat
        /\ Len(o) = Len(d) + Len(b.queue) + DropsOf(b) + f
    BY <1>1, <1>5, LenProperties DEF Served
  <2>3. /\ f \in Nat /\ drops \in Nat /\ DropsOf(b) \in Nat
        /\ DropsOf(new) = DropsOf(b) + drops
        /\ Len(new.queue) + drops = Len(b.queue) + 1
    BY <1>1, <1>4, <1>5, <1>6
  <2>4. PICK x \in Nat, y \in Nat, v \in Nat, z \in Nat :
          x = Len(d) /\ y = Len(b.queue) /\ v = Len(new.queue) /\ z = DropsOf(b)
    BY <2>2, <2>3
  <2>5. Len(o) = x + y + z + f /\ v + drops = y + 1 /\ DropsOf(new) = z + drops
    BY <2>2, <2>3, <2>4
  <2>6. Len(Append(o, frame)) = x + v + (z + drops) + f
    BY <2>1, <2>3, <2>5
  <2> QED BY <2>4, <2>5, <2>6
<1> QED BY <1>1, <1>2, <1>3, <1>6, <1>7 DEF Served

\* pop of a queue moves its first frame to the ones popped.
LEMMA ServedPop ==
  ASSUME NEW o, NEW d, NEW b, NEW f, NEW last,
         Served(o, d, b, f, last), b.queue # <<>>
  PROVE  Served(o, Append(d, Head(b.queue)), Popped(b), f, last)
<1>1. /\ d \in Seq(Frame) /\ b \in Boxes(Frame) /\ b \in Box(Frame) /\ b.queue \in Seq(Frame)
      /\ b.drops \in Nat /\ b.criticalDrops \in Nat
      /\ Len(b.queue) <= Capacity /\ Capacity \in Nat
  BY CapacityAssumption DEF Served, Boxes, Box
<1>2. /\ Head(b.queue) \in Frame /\ Tail(b.queue) \in Seq(Frame)
      /\ Len(Tail(b.queue)) = Len(b.queue) - 1
      /\ b.queue = <<Head(b.queue)>> \o Tail(b.queue)
      /\ Len(b.queue) \in Nat
  BY <1>1, HeadTailProperties, LenProperties
<1>3. Append(d, Head(b.queue)) \o Tail(b.queue) = d \o b.queue
  <2>1. PICK x \in Frame : x = Head(b.queue)
    BY <1>2
  <2>2. PICK t \in Seq(Frame) : t = Tail(b.queue)
    BY <1>2
  <2>3. Append(d, x) = d \o <<x>> /\ <<x>> \in Seq(Frame)
    BY <1>1, AppendIsConcat
  <2>4. (d \o <<x>>) \o t = d \o (<<x>> \o t)
    BY <1>1, <2>3, ConcatAssociative
  <2> QED BY <1>2, <2>1, <2>2, <2>3, <2>4
<1>4. /\ Popped(b).queue = Tail(b.queue) /\ DropsOf(Popped(b)) = DropsOf(b)
      /\ Popped(b) \in Box(Frame)
  BY <1>1, <1>2 DEF Popped, Box, DropsOf
<1>5. Popped(b) \in Boxes(Frame)
  <2>1. Len(Popped(b).queue) <= Capacity
    <3>1. Len(Popped(b).queue) = Len(b.queue) - 1
      BY <1>2, <1>4
    <3>2. Len(b.queue) \in Nat /\ Len(b.queue) <= Capacity /\ Capacity \in Nat
      BY <1>1, <1>2
    <3> QED BY <3>1, <3>2
  <2> QED BY <1>4, <2>1 DEF Boxes
<1>6. Append(d, Head(b.queue)) \in Seq(Frame) /\ Len(Append(d, Head(b.queue))) = Len(d) + 1
      /\ Len(d) \in Nat
  BY <1>1, <1>2, AppendProperties, LenProperties
<1>7. Len(o) = Len(Append(d, Head(b.queue))) + Len(Popped(b).queue) + DropsOf(Popped(b)) + f
  <2>1. Len(o) = Len(d) + Len(b.queue) + DropsOf(b) + f /\ DropsOf(b) \in Nat /\ f \in Nat
    BY <1>1 DEF Served, DropsOf
  <2>2. /\ Len(Append(d, Head(b.queue))) = Len(d) + 1
        /\ Len(Popped(b).queue) = Len(b.queue) - 1
        /\ DropsOf(Popped(b)) = DropsOf(b)
        /\ Len(d) \in Nat /\ Len(b.queue) \in Nat
    BY <1>2, <1>4, <1>6
  <2>3. PICK x \in Nat, y \in Nat, z \in Nat :
          x = Len(d) /\ y = Len(b.queue) /\ z = DropsOf(b)
    BY <2>1, <2>2
  <2>4. Len(o) = x + y + z + f
    BY <2>1, <2>3
  <2>5. Len(o) = (x + 1) + (y - 1) + z + f
    BY <2>1, <2>4
  <2> QED BY <2>2, <2>3, <2>5
<1> QED BY <1>3, <1>4, <1>5, <1>6, <1>7 DEF Served

\* broadcast moves the counters of a client into the totals.
LEMMA ServedReset ==
  ASSUME NEW o, NEW d, NEW b, NEW f, NEW last, Served(o, d, b, f, last)
  PROVE  Served(o, d, ResetCounters(b), f + DropsOf(b), last)
<1>1. b \in Boxes(Frame) /\ b \in Box(Frame) /\ b.drops \in Nat /\ b.criticalDrops \in Nat
      /\ f \in Nat
  BY DEF Served, Boxes, Box
<1>2. /\ ResetCounters(b) \in Box(Frame) /\ ResetCounters(b).queue = b.queue
      /\ DropsOf(ResetCounters(b)) = 0 /\ DropsOf(b) \in Nat
  <2>1. ResetCounters(b) = [queue |-> b.queue, drops |-> 0, criticalDrops |-> 0]
    <3>1. b \in Box(Frame)
      BY <1>1
    <3>2. PICK k : k = [b EXCEPT !.drops = 0]
      OBVIOUS
    <3>3. k = [queue |-> b.queue, drops |-> 0, criticalDrops |-> b.criticalDrops]
      BY <3>1, <3>2 DEF Box
    <3>4. [k EXCEPT !.criticalDrops = 0] = [queue |-> b.queue, drops |-> 0, criticalDrops |-> 0]
      BY <3>3
    <3>5. ResetCounters(b) = [k EXCEPT !.criticalDrops = 0]
      BY <3>2 DEF ResetCounters
    <3> QED BY <3>4, <3>5
  <2>2. b.queue \in Seq(Frame)
    BY <1>1 DEF Box
  <2> QED BY <1>1, <2>1, <2>2 DEF Box, DropsOf
<1>3. ResetCounters(b) \in Boxes(Frame)
  BY <1>1, <1>2 DEF Boxes
<1>4. Len(o) = Len(d) + Len(ResetCounters(b).queue) + DropsOf(ResetCounters(b)) + (f + DropsOf(b))
  <2>1. Len(o) = Len(d) + Len(b.queue) + DropsOf(b) + f
    BY DEF Served
  <2>2. Len(d) \in Nat /\ Len(b.queue) \in Nat
    BY <1>1, LenProperties DEF Served, Box
  <2> QED BY <1>1, <1>2, <2>1, <2>2
<1> QED BY <1>1, <1>2, <1>3, <1>4 DEF Served

\* A batch of the records that follow the last one, and no broadcast.
BatchFollows(batch, n, last, more) ==
  /\ n \in Nat /\ batch \in [1 .. n -> Frame]
  /\ last \in [Feeds -> Nat] /\ more \in [Feeds -> Nat]
  /\ more["fusion"] = last["fusion"] + n /\ more["broadcast"] = last["broadcast"]
  /\ \A k \in 1 .. n : batch[k].feed = "fusion" /\ batch[k].number = last["fusion"] + k

\* A batch that is pushed at the queue of a client keeps what holds of it.
LEMMA ServedBatch ==
  ASSUME NEW o, NEW d, NEW b, NEW f, NEW last, NEW batch, NEW n, NEW more,
         Served(o, d, b, f, last), BatchFollows(batch, n, last, more)
  PROVE  Served(o \o batch, d, FoldLeft(Push, b, batch), f, more)
<1>1. /\ n \in Nat /\ batch \in [1 .. n -> Frame] /\ batch \in Seq(Frame) /\ Len(batch) = n
      /\ last \in [Feeds -> Nat] /\ more \in [Feeds -> Nat]
      /\ o \in Seq(Frame) /\ b \in Boxes(Frame)
  BY DEF BatchFollows, Served, Thinned
<1>2. PICK acc \in [0 .. n -> Boxes(Frame)] :
        ArePushes(acc, b, batch, n) /\ acc[n] = FoldLeft(Push, b, batch)
  BY <1>1, BatchPushed
<1> DEFINE at(k) == [feed \in Feeds |-> IF feed = "fusion" THEN last["fusion"] + k
                                                           ELSE last["broadcast"]]
           offers(k) == o \o SubSeq(batch, 1, k)
           Holds(k) == Served(offers(k), d, acc[k], f, at(k))
           Bad == {k \in 0 .. n : ~Holds(k)}
<1>3. Holds(0)
  <2>1. offers(0) = o
    BY <1>1, SubSeqEmpty, ConcatEmptySeq
  <2>2. at(0) = last
    BY <1>1 DEF Feeds
  <2> HIDE DEF offers, at
  <2> QED BY <1>2, <2>1, <2>2 DEF ArePushes
<1>4. ASSUME NEW k \in 1 .. n, Holds(k - 1) PROVE Holds(k)
  <2>1. batch[k] \in Frame /\ k \in 1 .. Len(batch) /\ 1 \in 1 .. Len(batch)
        /\ k \in 1 .. Len(batch) /\ k - 1 \in 0 .. n
    BY <1>1
  <2>2. SubSeq(batch, 1, k) = SubSeq(batch, 1, k - 1) \o <<batch[k]>>
    BY <1>1, <2>1, SubSeqRecursiveSecond
  <2>3. SubSeq(batch, 1, k - 1) \in Seq(Frame)
    BY <1>1, <2>1, SubSeqProperties
  <2>4. SubSeq(batch, 1, k) = Append(SubSeq(batch, 1, k - 1), batch[k])
    BY <2>1, <2>2, <2>3, AppendIsConcat
  <2>5. offers(k) = Append(offers(k - 1), batch[k])
    BY <1>1, <2>1, <2>3, <2>4, AppendedLater
  <2>6. FeedsGoOn(at(k - 1), batch[k], at(k))
    <3>1. last["fusion"] \in Nat /\ last["broadcast"] \in Nat
      BY <1>1 DEF Feeds
    <3>2. batch[k].feed = "fusion" /\ batch[k].number = last["fusion"] + k
      BY DEF BatchFollows
    <3>3. at(k - 1) \in [Feeds -> Nat] /\ at(k) \in [Feeds -> Nat]
      BY <3>1, <2>1
    <3>4. \A feed \in Feeds : at(k - 1)[feed] <= at(k)[feed]
      BY <3>1, <2>1
    <3>5. at(k - 1)["fusion"] < last["fusion"] + k /\ last["fusion"] + k <= at(k)["fusion"]
      BY <3>1, <2>1 DEF Feeds
    <3> QED BY <2>1, <3>2, <3>3, <3>4, <3>5 DEF FeedsGoOn
  <2>7. acc[k] = Push(acc[k - 1], batch[k])
    BY <1>2 DEF ArePushes
  <2> HIDE DEF offers, at
  <2> QED BY <1>4, <2>5, <2>6, <2>7, ServedPush
<1>5. Bad = {}
  <2> SUFFICES ASSUME Bad # {} PROVE FALSE
    OBVIOUS
  <2> HIDE DEF Holds
  <2>1. Bad \in SUBSET Nat
    OBVIOUS
  <2>2. PICK k \in Bad : \A j \in Bad : k <= j
    <3> HIDE DEF Bad
    <3> QED BY <2>1, LeastNumber
  <2>3. k \in 1 .. n
    BY <1>3
  <2>4. k - 1 \in 0 .. n /\ k - 1 \notin Bad
    BY <1>1, <2>2, <2>3
  <2> QED BY <1>4, <2>3, <2>4
<1>6. Holds(n)
  <2> HIDE DEF Holds
  <2>1. n \in 0 .. n
    BY <1>1
  <2> QED BY <1>5, <2>1
<1>7. offers(n) = o \o batch
  BY <1>1, SubSeqFull
<1>8. at(n) = more
  <2>1. \A feed \in Feeds : at(n)[feed] = more[feed]
    BY DEF BatchFollows, Feeds
  <2> QED BY <1>1, <2>1
<1> HIDE DEF offers, at
<1> QED BY <1>2, <1>6, <1>7, <1>8

-----------------------------------------------------------------------------
(***************************************************************************)
(* The inductive invariant of the delivery plane.                          *)
(***************************************************************************)

\* The last number each feed has offered to the clients.
LastOffered == [feed \in Feeds |-> IF feed = "fusion" THEN readPtr ELSE broadcasts]

\* The ring holds the records between its pointers, each in its slot.
RingHolds ==
  /\ slots \in [Slots -> Frame \cup {ZeroRecord}]
  /\ \A p \in readPtr .. writePtr - 1 :
       LET record == slots[p % RingCapacity] IN
         record.feed = "fusion" /\ record.number = p + 1

\* What is kept of the clients has its type, and holds of each of them.
ClientsServed ==
  /\ registered \subseteq Clients /\ IsFiniteSet(registered)
  /\ box \in [Clients -> Boxes(Frame)]
  /\ offered \in [Clients -> Seq(Frame)]
  /\ delivered \in [Clients -> Seq(Frame)]
  /\ folded \in [Clients -> Nat]
  /\ \A c \in Clients : Served(offered[c], delivered[c], box[c], folded[c], LastOffered)

\* The whole of it.
DeliveryInv ==
  /\ RingInv
  /\ writePtr <= NumStrides
  /\ broadcasts \in 0 .. NumBroadcasts
  /\ RingHolds
  /\ ClientsServed
  /\ totalDrops \in Nat
  /\ congested \in Nat

\* The pointers and the counts of the feeds are numbers.
LEMMA DeliveryNumbers ==
  ASSUME DeliveryInv
  PROVE  /\ readPtr \in Nat /\ writePtr \in Nat /\ broadcasts \in Nat
         /\ readPtr <= writePtr /\ writePtr <= NumStrides /\ broadcasts <= NumBroadcasts
         /\ writePtr - readPtr <= RingCapacity
         /\ NumStrides \in Nat /\ NumBroadcasts \in Nat
         /\ RingCapacity \in Nat \ {0}
         /\ LastOffered \in [Feeds -> Nat]
         /\ LastOffered["fusion"] = readPtr /\ LastOffered["broadcast"] = broadcasts
BY BoundsAssumption, RingCapacityAssumption
   DEF DeliveryInv, RingInv, RingAccounts, Available, LastOffered, Feeds

\* Init has no records and no clients.
LEMMA DeliveryInit == Init => DeliveryInv
<1> SUFFICES ASSUME Init PROVE DeliveryInv
  OBVIOUS
<1>1. RingInv
  BY RingInit
<1>2. /\ writePtr = 0 /\ readPtr = 0 /\ broadcasts = 0 /\ totalDrops = 0 /\ congested = 0
      /\ NumStrides \in Nat /\ NumBroadcasts \in Nat
  BY BoundsAssumption DEF Init
<1>3. RingHolds
  BY <1>2 DEF Init, RingHolds
<1>4. ClientsServed
  <2>1. EmptyBox \in Boxes(Frame) /\ <<>> \in Seq(Frame)
    BY ServedFresh DEF Served
  <2>2. Served(<<>>, <<>>, EmptyBox, 0, LastOffered)
    BY ServedFresh
  <2>3. registered \subseteq Clients /\ IsFiniteSet(registered)
    BY FS_EmptySet DEF Init
  <2>4. /\ box = [c \in Clients |-> EmptyBox]
        /\ offered = [c \in Clients |-> <<>>]
        /\ delivered = [c \in Clients |-> <<>>]
        /\ folded = [c \in Clients |-> 0]
    BY DEF Init
  <2> QED BY <2>1, <2>2, <2>3, <2>4 DEF ClientsServed
<1> QED BY <1>1, <1>2, <1>3, <1>4 DEF DeliveryInv

\* The clients see only how far the feeds have come.
LEMMA ClientsStill ==
  ASSUME ClientsServed, UNCHANGED clientVars,
         LastOffered \in [Feeds -> Nat], LastOffered' \in [Feeds -> Nat],
         \A feed \in Feeds : LastOffered[feed] <= LastOffered'[feed]
  PROVE  ClientsServed'
<1>1. ASSUME NEW c \in Clients
      PROVE  Served(offered[c], delivered[c], box[c], folded[c], LastOffered')
  <2>1. PICK last \in [Feeds -> Nat] : last = LastOffered
    OBVIOUS
  <2>2. PICK more \in [Feeds -> Nat] : more = LastOffered'
    OBVIOUS
  <2>3. Served(offered[c], delivered[c], box[c], folded[c], last)
    BY <2>1 DEF ClientsServed
  <2>4. \A feed \in Feeds : last[feed] <= more[feed]
    BY <2>1, <2>2
  <2>5. Served(offered[c], delivered[c], box[c], folded[c], more)
    BY <2>3, <2>4, ServedStill
  <2> QED BY <2>2, <2>5
<1> QED BY <1>1 DEF ClientsServed, clientVars

\* A stride's record goes into a slot that holds no record that is still to be read.
LEMMA IngestRing ==
  ASSUME DeliveryInv, NEW sight \in Sights, Ingest(sight)
  PROVE  RingHolds' /\ readPtr <= readPtr' /\ writePtr' <= NumStrides
<1>1. /\ readPtr \in Nat /\ writePtr \in Nat /\ RingCapacity \in Nat \ {0}
      /\ NumStrides \in Nat /\ NumBroadcasts \in Nat /\ readPtr <= writePtr
  BY DeliveryNumbers
<1>2. /\ writePtr < NumStrides /\ writePtr' = writePtr + 1
      /\ readPtr' = IF (writePtr + 1) - readPtr > RingCapacity
                      THEN (writePtr + 1) - RingCapacity ELSE readPtr
  BY DEF Ingest, Overflow
<1>3. PICK critical \in BOOLEAN :
        slots' = [slots EXCEPT ![writePtr % RingCapacity] =
                   [feed |-> "fusion", number |-> writePtr + 1, critical |-> critical]]
  BY DEF Ingest
<1>4. PICK record \in Frame : record = [feed |-> "fusion", number |-> writePtr + 1,
                                        critical |-> critical]
  BY <1>1, <1>2, <1>3 DEF Frame, Feeds
<1>5. /\ readPtr <= readPtr' /\ readPtr' \in Nat /\ writePtr' <= NumStrides
      /\ \A p \in readPtr' .. writePtr : writePtr - p < RingCapacity
  BY <1>1, <1>2
<1>6. /\ slots \in [Slots -> Frame \cup {ZeroRecord}]
      /\ \A p \in readPtr .. writePtr - 1 :
           slots[p % RingCapacity].feed = "fusion" /\ slots[p % RingCapacity].number = p + 1
  BY DEF DeliveryInv, RingHolds
<1>7. \A p \in Nat : p % RingCapacity \in Slots
  BY <1>1, DivMod DEF Slots
<1>8. slots' \in [Slots -> Frame \cup {ZeroRecord}]
  BY <1>3, <1>4, <1>6
<1>9. ASSUME NEW p \in readPtr' .. writePtr' - 1
      PROVE  slots'[p % RingCapacity].feed = "fusion" /\ slots'[p % RingCapacity].number = p + 1
  <2>1. p \in Nat /\ p % RingCapacity \in Slots /\ writePtr % RingCapacity \in Slots
    BY <1>1, <1>5, <1>7
  <2>2. CASE p = writePtr
    BY <1>3, <1>4, <1>6, <2>1, <2>2
  <2>3. CASE p # writePtr
    <3>1. p \in readPtr .. writePtr - 1 /\ p \in readPtr' .. writePtr
      BY <1>1, <1>2, <1>5, <2>1, <2>3
    <3>2. p <= writePtr /\ writePtr - p < RingCapacity
      BY <1>5, <3>1
    <3>3. p % RingCapacity # writePtr % RingCapacity
      <4>1. RingCapacity \in Nat \ {0} /\ p \in Int /\ writePtr \in Int
        BY <1>1, <2>1
      <4> QED BY <2>3, <3>2, <4>1, SameSlot, Zenon
    <3>4. slots'[p % RingCapacity] = slots[p % RingCapacity]
      BY <1>3, <1>6, <2>1, <3>3
    <3> QED BY <1>6, <3>1, <3>4
  <2> QED BY <2>2, <2>3
<1>10. RingHolds'
  BY <1>8, <1>9 DEF RingHolds
<1> QED BY <1>5, <1>10

\* A stride changes nothing for the clients.
LEMMA IngestDelivers ==
  ASSUME DeliveryInv, NEW sight \in Sights, Ingest(sight)
  PROVE  DeliveryInv'
<1>1. RingInv'
  BY IngestStep DEF DeliveryInv
<1>2. RingHolds' /\ readPtr <= readPtr' /\ writePtr' <= NumStrides
  BY IngestRing
<1>3. UNCHANGED <<clientVars, totalDrops, congested, broadcasts>>
  BY DEF Ingest
<1>4. ClientsServed'
  <2>1. readPtr \in Nat /\ broadcasts \in Nat /\ LastOffered \in [Feeds -> Nat]
    BY DeliveryNumbers
  <2>2. readPtr' \in Nat
    BY <1>1 DEF RingInv
  <2>3. /\ LastOffered' \in [Feeds -> Nat]
        /\ \A feed \in Feeds : LastOffered[feed] <= LastOffered'[feed]
    BY <1>2, <1>3, <2>1, <2>2 DEF LastOffered
  <2> QED BY <1>3, <2>1, <2>3, ClientsStill DEF DeliveryInv
<1> QED BY <1>1, <1>2, <1>3, <1>4 DEF DeliveryInv

-----------------------------------------------------------------------------
\* pop_batch takes the records that come next.
LEMMA BatchTaken ==
  ASSUME DeliveryInv, Dispatch
  PROVE  \E more \in [Feeds -> Nat] :
           /\ more = LastOffered'
           /\ BatchFollows(Batch, Len(Batch), LastOffered, more)
<1>1. /\ readPtr \in Nat /\ writePtr \in Nat /\ broadcasts \in Nat
      /\ readPtr <= writePtr /\ writePtr <= NumStrides
      /\ NumStrides \in Nat /\ NumBroadcasts \in Nat /\ RingCapacity \in Nat \ {0}
      /\ LastOffered \in [Feeds -> Nat]
      /\ LastOffered["fusion"] = readPtr /\ LastOffered["broadcast"] = broadcasts
  BY DeliveryNumbers
<1>2. /\ Len(Batch) \in Nat /\ Len(Batch) <= writePtr - readPtr
  BY <1>1, BatchLength DEF Available
<1>3. PICK n \in Nat : n = Len(Batch) /\ readPtr + n <= writePtr
  BY <1>1, <1>2
<1>4. Batch = [i \in 1 .. n |-> slots[(readPtr + i - 1) % RingCapacity]]
  <2>1. DOMAIN Batch = 1 .. Len(Batch)
    <3>1. PICK m : Batch = [i \in 1 .. m |-> slots[(readPtr + i - 1) % RingCapacity]]
                   /\ m \in Nat
      <4>1. Min({Available, BatchSize}) \in Nat
        <5>1. {Available, BatchSize} \in SUBSET Nat /\ {Available, BatchSize} # {}
          BY <1>1, BatchSizeAssumption DEF Available
        <5> QED BY <5>1, LeastOf
      <4> QED BY <4>1 DEF Batch
    <3> QED BY <3>1
  <2> QED BY <1>3, <2>1 DEF Batch
<1>5. ASSUME NEW k \in 1 .. n
      PROVE  Batch[k] \in Frame /\ Batch[k].feed = "fusion" /\ Batch[k].number = readPtr + k
  <2>1. PICK p \in readPtr .. writePtr - 1 : p = readPtr + k - 1
    BY <1>1, <1>3
  <2>2. p % RingCapacity \in Slots /\ p + 1 = readPtr + k /\ p + 1 > 0
    BY <1>1, <2>1, DivMod DEF Slots
  <2>3. /\ slots[p % RingCapacity] \in Frame \cup {ZeroRecord}
        /\ slots[p % RingCapacity].feed = "fusion" /\ slots[p % RingCapacity].number = p + 1
    BY <2>2 DEF DeliveryInv, RingHolds
  <2>4. slots[p % RingCapacity] # ZeroRecord
    BY <2>2, <2>3 DEF ZeroRecord
  <2>5. Batch[k] = slots[p % RingCapacity]
    BY <1>4, <2>1
  <2> QED BY <2>2, <2>3, <2>4, <2>5
<1>6. Batch \in [1 .. n -> Frame]
  BY <1>4, <1>5
<1>7. readPtr' = readPtr + n /\ broadcasts' = broadcasts
  BY <1>3 DEF Dispatch
<1>8. PICK more \in [Feeds -> Nat] :
        /\ more = LastOffered'
        /\ more["fusion"] = readPtr + n /\ more["broadcast"] = broadcasts
  <2>1. LastOffered' = [feed \in Feeds |-> IF feed = "fusion" THEN readPtr + n ELSE broadcasts]
    BY <1>7 DEF LastOffered
  <2> QED BY <1>1, <2>1 DEF Feeds
<1>9. BatchFollows(Batch, n, LastOffered, more)
  BY <1>1, <1>5, <1>6, <1>8 DEF BatchFollows
<1> QED BY <1>3, <1>8, <1>9

\* A batch is a sequence, however long.
LEMMA BatchDomain ==
  ASSUME Available \in Nat
  PROVE  \E n \in Nat : DOMAIN Batch = 1 .. n
<1>1. Min({Available, BatchSize}) \in Nat
  <2>1. {Available, BatchSize} \in SUBSET Nat /\ {Available, BatchSize} # {}
    BY BatchSizeAssumption
  <2> QED BY <2>1, LeastOf
<1> QED BY <1>1 DEF Batch

\* The clients that find a frame of a batch congested are a count.
LEMMA CongestedSum ==
  ASSUME Available \in Nat, IsFiniteSet(registered)
  PROVE  MapThenSumSet(LAMBDA c : CongestedBy(box[c]), registered) \in Nat
<1> DEFINE S == registered
           w == [c \in S |-> CongestedBy(box[c])]
           it == CHOOSE g : g = [s \in SUBSET S |->
                   IF s = {} THEN 0
                             ELSE CongestedBy(box[CHOOSE x \in s : TRUE])
                                  + g[s \ {CHOOSE x \in s : TRUE}]]
<1>1. MapThenSumSet(LAMBDA c : CongestedBy(box[c]), registered) = it[S]
  BY DEF MapThenSumSet, MapThenFoldSet
<1>2. w \in [S -> Nat]
  <2> SUFFICES ASSUME NEW c \in S PROVE CongestedBy(box[c]) \in Nat
    OBVIOUS
  <2> DEFINE T == {i \in DOMAIN Batch :
                     IsCongested(FoldLeft(Push, box[c], SubSeq(Batch, 1, i - 1)))}
  <2>1. IsFiniteSet(DOMAIN Batch)
    BY BatchDomain, FS_Interval
  <2>2. T \in SUBSET (DOMAIN Batch)
    OBVIOUS
  <2>3. Cardinality(T) \in Nat
    <3> HIDE DEF T
    <3> QED BY <2>1, <2>2, FS_Subset, FS_CardinalityType
  <2> QED BY <2>3 DEF CongestedBy
<1>3. PICK t \in [SUBSET S -> Nat] : \A s \in SUBSET S : IsSum(t, w, s)
  <2> HIDE DEF w
  <2> QED BY <1>2, SumExists
<1>4. \A s \in SUBSET S : s # {} =>
        w[CHOOSE x \in s : TRUE] = CongestedBy(box[CHOOSE x \in s : TRUE])
  OBVIOUS
<1> HIDE DEF w
<1>5. t = [s \in SUBSET S |-> IF s = {} THEN 0
                               ELSE CongestedBy(box[CHOOSE x \in s : TRUE])
                                    + t[s \ {CHOOSE x \in s : TRUE}]]
  BY <1>3, <1>4 DEF IsSum
<1>6. it = [s \in SUBSET S |-> IF s = {} THEN 0
                               ELSE CongestedBy(box[CHOOSE x \in s : TRUE])
                                    + it[s \ {CHOOSE x \in s : TRUE}]]
  BY <1>5
<1>7. PICK h : h = it
  OBVIOUS
<1> HIDE DEF it
<1>8. \A s \in SUBSET S : IsSum(h, w, s)
  BY <1>4, <1>6, <1>7 DEF IsSum
<1>9. h[S] \in Nat
  BY <1>2, <1>8, SumIsNat
<1> QED BY <1>1, <1>7, <1>9

\* What a broadcast moves out of the boxes is a count.
LEMMA DroppedSum ==
  ASSUME IsFiniteSet(registered), NEW pushed \in [registered -> Box(Frame)]
  PROVE  MapThenSumSet(LAMBDA c : DropsOf(pushed[c]), registered) \in Nat
<1> DEFINE S == registered
           w == [c \in S |-> DropsOf(pushed[c])]
           it == CHOOSE g : g = [s \in SUBSET S |->
                   IF s = {} THEN 0
                             ELSE DropsOf(pushed[CHOOSE x \in s : TRUE])
                                  + g[s \ {CHOOSE x \in s : TRUE}]]
<1>1. MapThenSumSet(LAMBDA c : DropsOf(pushed[c]), registered) = it[S]
  BY DEF MapThenSumSet, MapThenFoldSet
<1>2. w \in [S -> Nat]
  BY DEF DropsOf, Box
<1>3. PICK t \in [SUBSET S -> Nat] : \A s \in SUBSET S : IsSum(t, w, s)
  <2> HIDE DEF w
  <2> QED BY <1>2, SumExists
<1>4. \A s \in SUBSET S : s # {} =>
        w[CHOOSE x \in s : TRUE] = DropsOf(pushed[CHOOSE x \in s : TRUE])
  OBVIOUS
<1> HIDE DEF w
<1>5. t = [s \in SUBSET S |-> IF s = {} THEN 0
                               ELSE DropsOf(pushed[CHOOSE x \in s : TRUE])
                                    + t[s \ {CHOOSE x \in s : TRUE}]]
  BY <1>3, <1>4 DEF IsSum
<1>6. it = [s \in SUBSET S |-> IF s = {} THEN 0
                               ELSE DropsOf(pushed[CHOOSE x \in s : TRUE])
                                    + it[s \ {CHOOSE x \in s : TRUE}]]
  BY <1>5
<1>7. PICK h : h = it
  OBVIOUS
<1> HIDE DEF it
<1>8. \A s \in SUBSET S : IsSum(h, w, s)
  BY <1>4, <1>6, <1>7 DEF IsSum
<1>9. h[S] \in Nat
  BY <1>2, <1>8, SumIsNat
<1> QED BY <1>1, <1>7, <1>9

\* A dispatch offers the batch to the clients that are registered.
LEMMA DispatchDelivers ==
  ASSUME DeliveryInv, Dispatch
  PROVE  DeliveryInv'
<1>1. RingInv'
  BY DispatchStep DEF DeliveryInv
<1>2. PICK more \in [Feeds -> Nat] :
        more = LastOffered' /\ BatchFollows(Batch, Len(Batch), LastOffered, more)
  BY BatchTaken
<1>3. UNCHANGED <<slots, writePtr, broadcasts, registered, delivered, folded, totalDrops>>
  BY DEF Dispatch
<1>4. /\ readPtr \in Nat /\ Len(Batch) \in Nat /\ readPtr' = readPtr + Len(Batch)
      /\ Available \in Nat
  BY DeliveryNumbers, BatchLength DEF Available, Dispatch
<1>5. RingHolds'
  <2>1. \A p \in readPtr' .. writePtr' - 1 : p \in readPtr .. writePtr - 1
    BY <1>3, <1>4, DeliveryNumbers
  <2> QED BY <1>3, <2>1 DEF DeliveryInv, RingHolds
<1>6. congested' \in Nat
  <2>1. MapThenSumSet(LAMBDA c : CongestedBy(box[c]), registered) \in Nat
    BY <1>4, CongestedSum DEF DeliveryInv, ClientsServed
  <2>2. congested' = congested + MapThenSumSet(LAMBDA c : CongestedBy(box[c]), registered)
    BY DEF Dispatch
  <2> QED BY <2>1, <2>2 DEF DeliveryInv
<1>7. ASSUME NEW c \in Clients
      PROVE  Served(offered'[c], delivered'[c], box'[c], folded'[c], more)
  <2>1. Served(offered[c], delivered[c], box[c], folded[c], LastOffered)
    BY DEF DeliveryInv, ClientsServed
  <2>2. CASE c \in registered
    <3>1. /\ offered'[c] = offered[c] \o Batch
          /\ box'[c] = FoldLeft(Push, box[c], Batch)
      BY <2>2 DEF Dispatch, AfterBatch
    <3>2. Served(offered[c] \o Batch, delivered[c], FoldLeft(Push, box[c], Batch), folded[c], more)
      BY <1>2, <2>1, ServedBatch
    <3> QED BY <1>3, <3>1, <3>2
  <2>3. CASE c \notin registered
    <3>1. offered'[c] = offered[c] /\ box'[c] = box[c]
      BY <2>3 DEF Dispatch
    <3>2. LastOffered \in [Feeds -> Nat] /\ \A feed \in Feeds : LastOffered[feed] <= more[feed]
      BY <1>2, DeliveryNumbers DEF BatchFollows, Feeds
    <3>3. PICK last \in [Feeds -> Nat] : last = LastOffered
      BY <3>2
    <3>4. Served(offered[c], delivered[c], box[c], folded[c], more)
      BY <1>2, <2>1, <3>2, <3>3, ServedStill
    <3> QED BY <1>3, <3>1, <3>4
  <2> QED BY <2>2, <2>3
<1>8. ClientsServed'
  <2>1. /\ \A c \in Clients : offered'[c] \in Seq(Frame) /\ box'[c] \in Boxes(Frame)
    BY <1>7 DEF Served, Thinned
  <2>2. box' \in [Clients -> Boxes(Frame)] /\ offered' \in [Clients -> Seq(Frame)]
    BY <2>1 DEF Dispatch
  <2>3. \A c \in Clients : Served(offered'[c], delivered'[c], box'[c], folded'[c], LastOffered')
    BY <1>2, <1>7
  <2> QED BY <1>3, <2>2, <2>3 DEF DeliveryInv, ClientsServed
<1> QED BY <1>1, <1>3, <1>5, <1>6, <1>8 DEF DeliveryInv

\* A broadcast offers its frame to them and moves their counters.
LEMMA BroadcastDelivers ==
  ASSUME DeliveryInv, NEW critical \in BOOLEAN, Broadcast(critical)
  PROVE  DeliveryInv'
<1>1. PICK frame : frame = [feed |-> "broadcast", number |-> broadcasts + 1, critical |-> critical]
  OBVIOUS
<1>2. PICK pushed : pushed = [c \in registered |-> Push(box[c], frame)]
  OBVIOUS
<1>3. UNCHANGED <<ringVars, dispatched, registered, delivered, congested>>
  BY DEF Broadcast, computeVars
<1>4. /\ broadcasts < NumBroadcasts /\ broadcasts' = broadcasts + 1
      /\ box' = [c \in Clients |-> IF c \in registered THEN ResetCounters(pushed[c])
                                                       ELSE box[c]]
      /\ offered' = [c \in Clients |-> IF c \in registered THEN Append(offered[c], frame)
                                                           ELSE offered[c]]
      /\ folded' = [c \in Clients |-> IF c \in registered
                                        THEN folded[c] + DropsOf(pushed[c])
                                        ELSE folded[c]]
      /\ totalDrops' = totalDrops + MapThenSumSet(LAMBDA c : DropsOf(pushed[c]), registered)
  BY <1>1, <1>2 DEF Broadcast
<1>5. /\ readPtr \in Nat /\ broadcasts \in Nat /\ NumBroadcasts \in Nat /\ NumStrides \in Nat
      /\ LastOffered \in [Feeds -> Nat]
      /\ LastOffered["fusion"] = readPtr /\ LastOffered["broadcast"] = broadcasts
  BY DeliveryNumbers
<1>6. PICK more \in [Feeds -> Nat] : 
        more = LastOffered' /\ more["fusion"] = readPtr /\ more["broadcast"] = broadcasts + 1
  <2>1. LastOffered' = [feed \in Feeds |-> IF feed = "fusion" THEN readPtr ELSE broadcasts + 1]
    BY <1>3, <1>4 DEF LastOffered, ringVars
  <2> QED BY <1>5, <2>1 DEF Feeds
<1>7. frame \in Frame /\ frame.feed = "broadcast" /\ frame.number = broadcasts + 1
  BY <1>1, <1>4, <1>5 DEF Frame, Feeds
<1>8. FeedsGoOn(LastOffered, frame, more)
  BY <1>5, <1>6, <1>7 DEF FeedsGoOn, Feeds
<1>9. pushed \in [registered -> Box(Frame)]
  <2>1. ASSUME NEW c \in registered PROVE Push(box[c], frame) \in Box(Frame)
    <3>1. box[c] \in Boxes(Frame)
      BY DEF DeliveryInv, ClientsServed
    <3> QED BY <1>7, <3>1, PushedBox DEF Boxes
  <2> QED BY <1>2, <2>1
<1>10. totalDrops' \in Nat
  <2>1. MapThenSumSet(LAMBDA c : DropsOf(pushed[c]), registered) \in Nat
    BY <1>9, DroppedSum DEF DeliveryInv, ClientsServed
  <2> QED BY <1>4, <2>1 DEF DeliveryInv
<1>11. ASSUME NEW c \in Clients
       PROVE  Served(offered'[c], delivered'[c], box'[c], folded'[c], more)
  <2>1. Served(offered[c], delivered[c], box[c], folded[c], LastOffered)
    BY DEF DeliveryInv, ClientsServed
  <2>2. CASE c \in registered
    <3>1. /\ offered'[c] = Append(offered[c], frame)
          /\ pushed[c] = Push(box[c], frame)
          /\ box'[c] = ResetCounters(pushed[c])
          /\ folded'[c] = folded[c] + DropsOf(pushed[c])
      BY <1>2, <1>4, <2>2
    <3>2. Served(Append(offered[c], frame), delivered[c], Push(box[c], frame), folded[c], more)
      BY <1>8, <2>1, ServedPush
    <3>3. Served(Append(offered[c], frame), delivered[c], ResetCounters(pushed[c]),
                 folded[c] + DropsOf(pushed[c]), more)
      BY <3>1, <3>2, ServedReset
    <3> QED BY <1>3, <3>1, <3>3
  <2>3. CASE c \notin registered
    <3>1. offered'[c] = offered[c] /\ box'[c] = box[c] /\ folded'[c] = folded[c]
      BY <1>4, <2>3
    <3>2. LastOffered \in [Feeds -> Nat] /\ \A feed \in Feeds : LastOffered[feed] <= more[feed]
      BY <1>5, <1>6 DEF Feeds
    <3>3. PICK last \in [Feeds -> Nat] : last = LastOffered
      BY <3>2
    <3>4. Served(offered[c], delivered[c], box[c], folded[c], more)
      BY <1>6, <2>1, <3>2, <3>3, ServedStill
    <3> QED BY <1>3, <3>1, <3>4
  <2> QED BY <2>2, <2>3
<1>12. ClientsServed'
  <2>1. /\ \A c \in Clients : /\ offered'[c] \in Seq(Frame) /\ box'[c] \in Boxes(Frame)
                              /\ folded'[c] \in Nat
    BY <1>11 DEF Served, Thinned
  <2>2. /\ box' \in [Clients -> Boxes(Frame)] /\ offered' \in [Clients -> Seq(Frame)]
        /\ folded' \in [Clients -> Nat]
    BY <1>4, <2>1
  <2>3. \A c \in Clients : Served(offered'[c], delivered'[c], box'[c], folded'[c], LastOffered')
    BY <1>6, <1>11
  <2> QED BY <1>3, <2>2, <2>3 DEF DeliveryInv, ClientsServed
<1>13. RingInv' /\ RingHolds' /\ writePtr' = writePtr
  <2>1. RingInv'
    BY <1>3, RingKept DEF DeliveryInv
  <2> QED BY <1>3, <2>1 DEF DeliveryInv, RingHolds, ringVars
<1> QED BY <1>3, <1>4, <1>5, <1>10, <1>12, <1>13 DEF DeliveryInv

\* What one client does leaves the ring and the counts of the others.
LEMMA OneClient ==
  ASSUME DeliveryInv, NEW c \in Clients,
         UNCHANGED <<computeVars, dispatched, broadcasts, totalDrops, congested>>,
         registered' \subseteq Clients, IsFiniteSet(registered'),
         NEW o, NEW d, NEW b, NEW f,
         offered' = [offered EXCEPT ![c] = o], delivered' = [delivered EXCEPT ![c] = d],
         box' = [box EXCEPT ![c] = b], folded' = [folded EXCEPT ![c] = f],
         Served(o, d, b, f, LastOffered)
  PROVE  DeliveryInv'
<1>1. UNCHANGED <<ringVars, dispatched, broadcasts, totalDrops, congested>>
  BY DEF computeVars
<1>2. RingInv'
  BY <1>1, RingKept DEF DeliveryInv
<1>3. RingHolds' /\ writePtr' = writePtr /\ LastOffered' = LastOffered
  BY <1>1 DEF DeliveryInv, RingHolds, ringVars, LastOffered
<1>4. o \in Seq(Frame) /\ d \in Seq(Frame) /\ b \in Boxes(Frame) /\ f \in Nat
  BY DEF Served, Thinned
<1>5. /\ box \in [Clients -> Boxes(Frame)] /\ offered \in [Clients -> Seq(Frame)]
      /\ delivered \in [Clients -> Seq(Frame)] /\ folded \in [Clients -> Nat]
      /\ \A e \in Clients : Served(offered[e], delivered[e], box[e], folded[e], LastOffered)
  BY DEF DeliveryInv, ClientsServed
<1>6. /\ box' \in [Clients -> Boxes(Frame)] /\ offered' \in [Clients -> Seq(Frame)]
      /\ delivered' \in [Clients -> Seq(Frame)] /\ folded' \in [Clients -> Nat]
  BY <1>4, <1>5
<1>7. ASSUME NEW e \in Clients
      PROVE  Served(offered'[e], delivered'[e], box'[e], folded'[e], LastOffered')
  <2>1. CASE e = c
    <3>1. offered'[e] = o /\ delivered'[e] = d /\ box'[e] = b /\ folded'[e] = f
      BY <1>5, <2>1
    <3> QED BY <1>3, <3>1
  <2>2. CASE e # c
    <3>1. /\ offered'[e] = offered[e] /\ delivered'[e] = delivered[e] /\ box'[e] = box[e]
          /\ folded'[e] = folded[e]
      BY <1>5, <2>2
    <3> QED BY <1>3, <1>5, <3>1
  <2> QED BY <2>1, <2>2
<1>8. ClientsServed'
  BY <1>6, <1>7 DEF ClientsServed
<1> QED BY <1>1, <1>2, <1>3, <1>8 DEF DeliveryInv

\* A client that comes or goes.
LEMMA ClientDelivers ==
  ASSUME DeliveryInv, NEW c \in Clients, Register(c) \/ Unregister(c)
  PROVE  DeliveryInv'
<1>1. /\ registered' \subseteq Clients /\ IsFiniteSet(registered')
  <2>1. registered \subseteq Clients /\ IsFiniteSet(registered)
    BY DEF DeliveryInv, ClientsServed
  <2>2. CASE registered' = registered \cup {c}
    BY <2>1, <2>2, FS_AddElement
  <2>3. CASE registered' = registered \ {c}
    BY <2>1, <2>3, FS_RemoveElement
  <2> QED BY <2>2, <2>3 DEF Register, Unregister
<1>2. UNCHANGED <<computeVars, dispatched, broadcasts, totalDrops, congested>> /\ Fresh(c)
  BY DEF Register, Unregister
<1>3. PICK last : last = LastOffered
  OBVIOUS
<1>4. Served(<<>>, <<>>, EmptyBox, 0, LastOffered)
  BY <1>3, ServedFresh
<1>5. /\ offered' = [offered EXCEPT ![c] = <<>>] /\ delivered' = [delivered EXCEPT ![c] = <<>>]
      /\ box' = [box EXCEPT ![c] = EmptyBox] /\ folded' = [folded EXCEPT ![c] = 0]
  BY <1>2 DEF Fresh
<1> QED BY <1>1, <1>2, <1>4, <1>5, OneClient

\* A client that pops.
LEMMA PopDelivers ==
  ASSUME DeliveryInv, NEW c \in Clients, ClientPops(c)
  PROVE  DeliveryInv'
<1>1. /\ box \in [Clients -> Boxes(Frame)] /\ offered \in [Clients -> Seq(Frame)]
      /\ delivered \in [Clients -> Seq(Frame)] /\ folded \in [Clients -> Nat]
      /\ Served(offered[c], delivered[c], box[c], folded[c], LastOffered)
      /\ registered \subseteq Clients /\ IsFiniteSet(registered)
  BY DEF DeliveryInv, ClientsServed
<1>2. /\ UNCHANGED <<computeVars, dispatched, broadcasts, registered, offered, folded,
                     totalDrops, congested>>
      /\ box[c].queue # <<>>
      /\ delivered' = [delivered EXCEPT ![c] = Append(delivered[c], Head(box[c].queue))]
      /\ box' = [box EXCEPT ![c] = Popped(box[c])]
  BY DEF ClientPops
<1>3. offered' = [offered EXCEPT ![c] = offered[c]] /\ folded' = [folded EXCEPT ![c] = folded[c]]
  BY <1>1, <1>2
<1>4. Served(offered[c], Append(delivered[c], Head(box[c].queue)), Popped(box[c]), folded[c],
             LastOffered)
  BY <1>1, <1>2, ServedPop
<1>5. registered' \subseteq Clients /\ IsFiniteSet(registered')
  BY <1>1, <1>2
<1> QED BY <1>2, <1>3, <1>4, <1>5, OneClient, ZenonT(30)

\* All clients go.
LEMMA ShutdownDelivers ==
  ASSUME DeliveryInv, Shutdown
  PROVE  DeliveryInv'
<1>1. UNCHANGED <<ringVars, dispatched, broadcasts, totalDrops, congested>>
  BY DEF Shutdown, computeVars
<1>2. RingInv'
  BY <1>1, RingKept DEF DeliveryInv
<1>3. RingHolds' /\ writePtr' = writePtr
  BY <1>1 DEF DeliveryInv, RingHolds, ringVars
<1>4. ClientsServed'
  <2>1. EmptyBox \in Boxes(Frame) /\ <<>> \in Seq(Frame)
    BY ServedFresh DEF Served
  <2>2. \A last : Served(<<>>, <<>>, EmptyBox, 0, last)
    BY ServedFresh
  <2>3. PICK more : more = LastOffered'
    OBVIOUS
  <2>4. Served(<<>>, <<>>, EmptyBox, 0, LastOffered')
    BY <2>2, <2>3
  <2>5. registered' \subseteq Clients /\ IsFiniteSet(registered')
    BY FS_EmptySet DEF Shutdown
  <2>6. /\ box' = [c \in Clients |-> EmptyBox]
        /\ offered' = [c \in Clients |-> <<>>]
        /\ delivered' = [c \in Clients |-> <<>>]
        /\ folded' = [c \in Clients |-> 0]
    BY DEF Shutdown
  <2> QED BY <2>1, <2>4, <2>5, <2>6 DEF ClientsServed
<1> QED BY <1>1, <1>2, <1>3, <1>4 DEF DeliveryInv

\* Every step keeps the invariant.
LEMMA DeliveryStep ==
  ASSUME DeliveryInv, [Next]_vars
  PROVE  DeliveryInv'
<1>1. ASSUME NEW sight \in Sights, Ingest(sight) PROVE DeliveryInv'
  BY <1>1, IngestDelivers
<1>2. ASSUME NEW critical \in BOOLEAN, Broadcast(critical) PROVE DeliveryInv'
  BY <1>2, BroadcastDelivers
<1>3. CASE Dispatch
  BY <1>3, DispatchDelivers
<1>4. ASSUME NEW c \in Clients, Register(c) \/ Unregister(c) \/ ClientPops(c)
      PROVE  DeliveryInv'
  BY <1>4, ClientDelivers, PopDelivers
<1>5. CASE Shutdown
  BY <1>5, ShutdownDelivers
<1>6. CASE UNCHANGED vars
  <2>1. UNCHANGED <<ringVars, dispatched, broadcasts, totalDrops, congested, clientVars>>
    BY <1>6 DEF vars
  <2>2. RingInv'
    BY <2>1, RingKept DEF DeliveryInv
  <2>3. RingHolds' /\ writePtr' = writePtr /\ LastOffered' = LastOffered
    BY <2>1 DEF DeliveryInv, RingHolds, ringVars, LastOffered
  <2>4. ClientsServed'
    BY <2>1, <2>3 DEF DeliveryInv, ClientsServed, clientVars
  <2> QED BY <2>1, <2>2, <2>3, <2>4 DEF DeliveryInv
<1> QED BY <1>1, <1>2, <1>3, <1>4, <1>5, <1>6 DEF Next

-----------------------------------------------------------------------------
\* What is kept of the offers is in their order, each frame once.
LEMMA KeptIncreasing ==
  ASSUME NEW o, NEW h, Thinned(o, h), Increasing(o)
  PROVE  Increasing(h)
<1>1. DOMAIN o = 1 .. Len(o) /\ DOMAIN h = 1 .. Len(h)
  BY DEF Thinned
<1>2. ASSUME NEW i \in 1 .. Len(h), NEW j \in 1 .. Len(h), i < j, h[i].feed = h[j].feed
      PROVE  h[i].number < h[j].number
  <2>1. PICK k \in 1 .. Len(o) : o[k] = h[i]
    BY DEF Thinned
  <2>2. PICK l \in 1 .. Len(o) : o[l] = h[j]
    BY DEF Thinned
  <2>3. k < l
    BY <1>2, <2>1, <2>2 DEF Thinned
  <2> QED BY <1>1, <1>2, <2>1, <2>2, <2>3 DEF Increasing
<1> QED BY <1>1, <1>2 DEF Increasing

\* A sequence that increases has as many frames as entries.
LEMMA FramesCount ==
  ASSUME NEW s \in Seq(Frame), Increasing(s)
  PROVE  IsFiniteSet(FramesIn(s)) /\ Cardinality(FramesIn(s)) = Len(s)
<1>1. Len(s) \in Nat /\ DOMAIN s = 1 .. Len(s)
  BY LenProperties
<1>2. s \in [1 .. Len(s) -> FramesIn(s)]
  BY <1>1 DEF FramesIn
<1>3. ASSUME NEW i \in 1 .. Len(s), NEW j \in 1 .. Len(s), s[i] = s[j] PROVE i = j
  <2>1. s[i].number \in Int /\ s[i] \in Frame
    <3>1. s[i] \in Frame
      BY ElementOfSeq
    <3> QED BY <3>1 DEF Frame
  <2>2. ~(i < j) /\ ~(j < i)
    BY <1>1, <1>3, <2>1 DEF Increasing
  <2> QED BY <1>1, <2>2
<1>4. \A x \in FramesIn(s) : \E i \in 1 .. Len(s) : s[i] = x
  BY <1>1 DEF FramesIn
<1>5. s \in Injection(1 .. Len(s), FramesIn(s)) /\ s \in Surjection(1 .. Len(s), FramesIn(s))
  BY <1>2, <1>3, <1>4 DEF Injection, Surjection, IsInjective
<1>6. IsFiniteSet(1 .. Len(s)) /\ Cardinality(1 .. Len(s)) = Len(s)
  BY <1>1, FS_Interval
<1>7. /\ IsFiniteSet(FramesIn(s))
      /\ Cardinality(FramesIn(s)) = Cardinality(1 .. Len(s))
  BY <1>5, <1>6, FS_Surjection
<1> QED BY <1>6, <1>7

\* The frames that are not kept are as many as the offers that are not.
LEMMA LostCount ==
  ASSUME NEW o, NEW h, Thinned(o, h), Increasing(o)
  PROVE  Cardinality(FramesIn(o) \ FramesIn(h)) = Len(o) - Len(h)
<1>1. o \in Seq(Frame) /\ h \in Seq(Frame) /\ Increasing(h)
  BY KeptIncreasing DEF Thinned
<1>2. /\ IsFiniteSet(FramesIn(o)) /\ Cardinality(FramesIn(o)) = Len(o)
      /\ IsFiniteSet(FramesIn(h)) /\ Cardinality(FramesIn(h)) = Len(h)
  BY <1>1, FramesCount
<1>3. FramesIn(h) \subseteq FramesIn(o)
  <2>1. DOMAIN o = 1 .. Len(o) /\ DOMAIN h = 1 .. Len(h)
    BY <1>1
  <2> QED BY <2>1 DEF Thinned, FramesIn
<1>4. FramesIn(o) \cap FramesIn(h) = FramesIn(h)
  BY <1>3
<1>5. Cardinality(FramesIn(o) \ FramesIn(h)) =
        Cardinality(FramesIn(o)) - Cardinality(FramesIn(o) \cap FramesIn(h))
  BY <1>2, FS_Difference
<1> QED BY <1>2, <1>4, <1>5

\* The inductive invariant: the ring holds the records between its pointers, the frames
\* a client has popped and queued are the ones it was offered, in their order and less
\* the ones its counters and the totals report, and the fusion has counted the strides
\* in a row that ask for another state.
THEOREM DeliveryInvariant == Spec => [](DeliveryInv /\ CountsInv)
<1>1. Init => DeliveryInv /\ CountsInv
  BY DeliveryInit, CountsInit
<1>2. (DeliveryInv /\ CountsInv) /\ [Next]_vars => (DeliveryInv /\ CountsInv)'
  BY DeliveryStep, FusionStep
<1> QED BY <1>1, <1>2, PTL DEF Spec

\* Every pointer, counter and frame of the delivery plane has its type, and no queue
\* grows beyond its capacity, whatever overflows and however clients come and go.
THEOREM DeliveryTypeCorrect == Spec => []TypeOK
<1>1. DeliveryInv /\ CountsInv => TypeOK
  <2> SUFFICES ASSUME DeliveryInv, CountsInv PROVE TypeOK
    OBVIOUS
  <2>1. fusion \in [state : States, persistence : [States -> 0 .. Hysteresis - 1]]
    <3>1. /\ fusion = [state |-> fusion.state, persistence |-> fusion.persistence]
          /\ fusion.state \in States
          /\ fusion.persistence =
               [s \in States |-> IF s = asked /\ s # fusion.state THEN times ELSE 0]
          /\ times \in 0 .. Hysteresis /\ (asked # fusion.state => times < Hysteresis)
          /\ Hysteresis \in Nat \ {0}
      BY HysteresisAssumption DEF CountsInv
    <3>2. fusion.persistence \in [States -> 0 .. Hysteresis - 1]
      BY <3>1
    <3> QED BY <3>1, <3>2
  <2>2. asked \in States /\ times \in 0 .. Hysteresis
    BY DEF CountsInv
  <2>3. /\ slots \in [Slots -> Frame \cup {ZeroRecord}]
        /\ writePtr \in 0 .. NumStrides /\ readPtr \in 0 .. writePtr
        /\ ringDrops \in Nat /\ dispatched \in Nat /\ broadcasts \in 0 .. NumBroadcasts
    BY DeliveryNumbers DEF DeliveryInv, RingInv, RingHolds
  <2>4. /\ registered \subseteq Clients
        /\ box \in [Clients -> [queue : Seq(Frame), drops : Nat, criticalDrops : Nat]]
        /\ \A c \in Clients : Len(box[c].queue) <= Capacity
        /\ offered \in [Clients -> Seq(Frame)]
        /\ delivered \in [Clients -> Seq(Frame)]
        /\ folded \in [Clients -> Nat]
    BY DEF DeliveryInv, ClientsServed, Boxes, Box
  <2>5. totalDrops \in Nat /\ congested \in Nat
    BY DEF DeliveryInv
  <2> QED BY <2>1, <2>2, <2>3, <2>4, <2>5 DEF TypeOK
<1> QED BY <1>1, DeliveryInvariant, PTL

\* What the invariant says of one client.
LEMMA OfClient ==
  ASSUME DeliveryInv, NEW c \in Clients
  PROVE  \E o, h :
           /\ o = offered[c] /\ h = delivered[c] \o box[c].queue
           /\ Thinned(o, h) /\ Retained(o, h) /\ Increasing(o)
           /\ Len(o) - Len(h) = DropsOf(box[c]) + folded[c]
<1>1. Served(offered[c], delivered[c], box[c], folded[c], LastOffered)
  BY DEF DeliveryInv, ClientsServed
<1>2. /\ offered[c] \in Seq(Frame) /\ delivered[c] \in Seq(Frame)
      /\ box[c].queue \in Seq(Frame) /\ DropsOf(box[c]) \in Nat /\ folded[c] \in Nat
  BY <1>1 DEF Served, Thinned, Boxes, Box, DropsOf
<1>3. /\ Len(delivered[c] \o box[c].queue) = Len(delivered[c]) + Len(box[c].queue)
      /\ Len(delivered[c]) \in Nat /\ Len(box[c].queue) \in Nat
  BY <1>2, ConcatProperties, LenProperties
<1>4. PICK x \in Nat, y \in Nat, z \in Nat, f \in Nat :
        x = Len(delivered[c]) /\ y = Len(box[c].queue) /\ z = DropsOf(box[c]) /\ f = folded[c]
  BY <1>2, <1>3
<1>5. Len(offered[c]) = x + y + z + f
  BY <1>1, <1>4 DEF Served
<1>6. Len(delivered[c] \o box[c].queue) = x + y
  BY <1>3, <1>4
<1>7. Len(offered[c]) - Len(delivered[c] \o box[c].queue) = DropsOf(box[c]) + folded[c]
  <2>1. Len(offered[c]) - Len(delivered[c] \o box[c].queue) = z + f
    BY <1>5, <1>6
  <2> QED BY <1>4, <2>1
<1> QED BY <1>1, <1>7 DEF Served

\* A client gets the frames of each feed in the order they were made, whatever the
\* overflow policy of its queue removed between them, however batches and broadcasts
\* interleave, and whatever the ring dropped before.
THEOREM FramesStayInOrder == Spec => []DeliveredInOrder
<1>1. DeliveryInv => DeliveredInOrder
  <2> SUFFICES ASSUME DeliveryInv, NEW c \in Clients
               PROVE  Increasing(delivered[c] \o box[c].queue)
    BY DEF DeliveredInOrder
  <2> QED BY OfClient, KeptIncreasing
<1> QED BY <1>1, DeliveryInvariant, PTL

\* A critical alert is lost only to a queue full of later critical alerts, for every
\* capacity of the queues, whatever routine frames are offered between them.
THEOREM CriticalsAreRetained == Spec => []CriticalsRetained
<1>1. DeliveryInv => CriticalsRetained
  <2> SUFFICES ASSUME DeliveryInv, NEW c \in Clients, NEW frame \in Lost(c), frame.critical
               PROVE  Cardinality({i \in DOMAIN offered[c] :
                        i > PlaceOf(c, frame) /\ offered[c][i].critical}) >= Capacity
    BY DEF CriticalsRetained
  <2>1. PICK o, h : /\ o = offered[c] /\ h = delivered[c] \o box[c].queue
                    /\ Thinned(o, h) /\ Retained(o, h)
    BY OfClient
  <2>2. DOMAIN o = 1 .. Len(o) /\ DOMAIN h = 1 .. Len(h)
    BY <2>1 DEF Thinned
  <2>3. (\E i \in DOMAIN o : o[i] = frame) /\ ~\E i \in DOMAIN h : h[i] = frame
    BY <2>1 DEF Lost, FramesIn
  <2>4. PICK k : k = PlaceOf(c, frame)
    OBVIOUS
  <2>5. k \in 1 .. Len(o) /\ o[k] = frame
    BY <2>1, <2>2, <2>3, <2>4 DEF PlaceOf
  <2>6. Cardinality(CriticalsAfter(o, k)) >= Capacity
    BY <2>1, <2>2, <2>3, <2>5 DEF Retained
  <2> QED BY <2>1, <2>4, <2>6 DEF CriticalsAfter
<1> QED BY <1>1, DeliveryInvariant, PTL

\* Every frame a client is offered and does not get is counted exactly once, in its
\* queue's counters or in the totals they were moved into.
THEOREM DropsAreCounted == Spec => []DropsCounted
<1>1. DeliveryInv => DropsCounted
  <2> SUFFICES ASSUME DeliveryInv, NEW c \in Clients
               PROVE  Cardinality(Lost(c)) = DropsOf(box[c]) + folded[c]
    BY DEF DropsCounted
  <2>1. PICK o, h : /\ o = offered[c] /\ h = delivered[c] \o box[c].queue
                    /\ Thinned(o, h) /\ Increasing(o)
                    /\ Len(o) - Len(h) = DropsOf(box[c]) + folded[c]
    BY OfClient
  <2>2. Cardinality(FramesIn(o) \ FramesIn(h)) = Len(o) - Len(h)
    BY <2>1, LostCount
  <2> QED BY <2>1, <2>2 DEF Lost
<1> QED BY <1>1, DeliveryInvariant, PTL
=============================================================================
