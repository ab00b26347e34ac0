------------------------- MODULE SampleHarness_proofs -------------------------
(***************************************************************************)
(* Proofs about the hardware harnesses, for any number of workers, any     *)
(* capacities and any number of blocks.                                    *)
(***************************************************************************)
EXTENDS SampleHarness, FiniteSetTheorems, TLAPS

-----------------------------------------------------------------------------
(***************************************************************************)
(* Counting the workers by the place they are in.                          *)
(***************************************************************************)

\* The workers in given places are finitely many, so their number is a number.
LEMMA NumberIsNat ==
  ASSUME NEW places
  PROVE  Number(places) \in Nat
<1>1. IsFiniteSet({w \in Workers : worker[w] \in places})
  BY WorkersAssumption, FS_Subset
<1> QED
  BY <1>1, FS_CardinalityType DEF Number

\* More places hold at least as many workers.
LEMMA NumberGrows ==
  ASSUME NEW some, NEW more, some \subseteq more
  PROVE  Number(some) <= Number(more)
<1> DEFINE At(places) == {w \in Workers : worker[w] \in places}
<1>1. At(some) \subseteq At(more)
  OBVIOUS
<1>2. IsFiniteSet(At(more))
  BY WorkersAssumption, FS_Subset
<1>3. Cardinality(At(some)) <= Cardinality(At(more))
  BY <1>1, <1>2, FS_Subset
<1> QED
  BY <1>3 DEF Number

\* A worker that moves is counted where it goes and no longer where it was.
LEMMA NumberMoves ==
  ASSUME NEW places, NEW w \in Workers, NEW to,
         worker \in [Workers -> Positions],
         worker' = [worker EXCEPT ![w] = to]
  PROVE  /\ worker[w] \in places /\ to \notin places => Number(places)' = Number(places) - 1
         /\ worker[w] \notin places /\ to \in places => Number(places)' = Number(places) + 1
         /\ (worker[w] \in places <=> to \in places) => Number(places)' = Number(places)
<1> DEFINE At == {x \in Workers : worker[x] \in places}
           Then == {x \in Workers : worker'[x] \in places}
<1>1. IsFiniteSet(At) /\ IsFiniteSet(Then)
  BY WorkersAssumption, FS_Subset
<1>2. Cardinality(At) \in Nat /\ Cardinality(Then) \in Nat
  BY <1>1, FS_CardinalityType
<1>3. Number(places) = Cardinality(At) /\ Number(places)' = Cardinality(Then)
  BY DEF Number
<1>4. \A x \in Workers : worker'[x] = IF x = w THEN to ELSE worker[x]
  OBVIOUS
<1>5. CASE worker[w] \in places /\ to \notin places
  <2>1. Then = At \ {w} /\ w \in At
    BY <1>4, <1>5
  <2>2. Cardinality(Then) = Cardinality(At) - 1
    BY <1>1, <2>1, FS_RemoveElement
  <2> QED
    BY <1>3, <1>5, <2>2
<1>6. CASE worker[w] \notin places /\ to \in places
  <2>1. Then = At \cup {w} /\ w \notin At
    BY <1>4, <1>6
  <2>2. Cardinality(Then) = Cardinality(At) + 1
    BY <1>1, <2>1, FS_AddElement
  <2> QED
    BY <1>3, <1>6, <2>2
<1>7. CASE worker[w] \in places <=> to \in places
  <2>1. Then = At
    BY <1>4, <1>7
  <2> QED
    BY <1>3, <1>7, <2>1
<1> QED
  BY <1>5, <1>6, <1>7

\* While no worker moves, nobody is counted anew.
LEMMA NumberStays ==
  ASSUME NEW places, worker' = worker
  PROVE  Number(places)' = Number(places)
BY DEF Number

\* The four counts the invariant uses, and how they compare.
Counts ==
  /\ Number({"busy"}) \in Nat
  /\ Number({"count"}) \in Nat
  /\ Number({"busy", "count"}) \in Nat
  /\ Held \in Nat
  /\ Number({"busy"}) <= Number({"busy", "count"})
  /\ Number({"count"}) <= Number({"busy", "count"})
  /\ Number({"busy", "count"}) <= Held

LEMMA CountsCompare == Counts
<1>1. /\ Number({"busy"}) \in Nat /\ Number({"count"}) \in Nat
      /\ Number({"busy", "count"}) \in Nat /\ Held \in Nat
  BY NumberIsNat DEF Held
<1>2. Number({"busy"}) <= Number({"busy", "count"})
  BY NumberGrows, {"busy"} \subseteq {"busy", "count"}
<1>3. Number({"count"}) <= Number({"busy", "count"})
  BY NumberGrows, {"count"} \subseteq {"busy", "count"}
<1>4. Number({"busy", "count"}) <= Number({"busy", "count", "settle"})
  BY NumberGrows, {"busy", "count"} \subseteq {"busy", "count", "settle"}
<1> QED
  BY <1>1, <1>2, <1>3, <1>4 DEF Counts, Held

LEMMA CountsStay ==
  ASSUME worker' = worker
  PROVE  /\ Number({"busy"})' = Number({"busy"})
         /\ Number({"count"})' = Number({"count"})
         /\ Number({"busy", "count"})' = Number({"busy", "count"})
         /\ Held' = Held
BY DEF Number, Held

-----------------------------------------------------------------------------
(***************************************************************************)
(* Each thread keeps the invariant.                                        *)
(***************************************************************************)
LEMMA StreamKeeps ==
  ASSUME HarnessInv, Stream
  PROVE  HarnessInv'
<1> USE IqCapacityAssumption, LogCapacityAssumption, NumBlocksAssumption
<1>0. worker' = worker
  BY DEF Stream, Make, Enqueue, Drop, EndOfStream
<1>1. Counts /\ Counts'
  BY CountsCompare, PTL
<1>2. /\ Number({"busy"})' = Number({"busy"}) /\ Number({"count"})' = Number({"count"})
      /\ Number({"busy", "count"})' = Number({"busy", "count"}) /\ Held' = Held
  BY <1>0, CountsStay
<1> USE DEF HarnessInv, Counts
<1>3. CASE Make
  <2>1. /\ tally'.made = tally.made + 1 /\ tally'.dropped = tally.dropped
        /\ tally'.processed = tally.processed /\ tally'.failed = tally.failed
        /\ tally'.raised = tally.raised /\ tally'.written = tally.written
    BY <1>3 DEF Make, TypeOK
  <2>2. TypeOK'
    BY <1>3 DEF Make, TypeOK
  <2>3. BlocksKept'
    BY <1>1, <1>2, <1>3, <2>1 DEF Make, BlocksKept, Pending, InHand, FromReceiver, TypeOK
  <2>4. TasksKept'
    BY <1>1, <1>2, <1>3, <2>1 DEF Make, TasksKept, InHand, TypeOK
  <2>5. IncidentsKept'
    BY <1>1, <1>2, <1>3, <2>1 DEF Make, IncidentsKept, Writing, TypeOK
  <2>6. Closing'
    BY <1>1, <1>2, <1>3 DEF Make, Closing, Parallel, FromReceiver, TypeOK
  <2> QED
    BY <2>2, <2>3, <2>4, <2>5, <2>6
<1>4. CASE Enqueue
  <2>1. iq'.size = iq.size + 1 /\ iq'.unfinished = iq.unfinished + 1
    BY <1>4 DEF Enqueue, WithOneMore
  <2>2. TypeOK'
    BY <1>1, <1>4, <2>1 DEF Enqueue, WithOneMore, TypeOK, TasksKept, InHand
  <2>3. BlocksKept'
    BY <1>1, <1>2, <1>4, <2>1 DEF Enqueue, BlocksKept, Pending, InHand, FromReceiver, TypeOK
  <2>4. TasksKept'
    BY <1>1, <1>2, <1>4, <2>1 DEF Enqueue, TasksKept, InHand, TypeOK
  <2>5. IncidentsKept'
    BY <1>1, <1>2, <1>4 DEF Enqueue, IncidentsKept, Writing, TypeOK
  <2>6. Closing'
    BY <1>1, <1>2, <1>4, <2>1
       DEF Enqueue, Closing, Parallel, FromReceiver, Pending, Unwritten, Missed, InHand, TypeOK
  <2> QED
    BY <2>2, <2>3, <2>4, <2>5, <2>6
<1>5. CASE Drop
  <2>1. /\ tally'.made = tally.made
        /\ tally'.dropped = IF FromReceiver THEN tally.dropped ELSE tally.dropped + 1
        /\ tally'.processed = tally.processed /\ tally'.failed = tally.failed
        /\ tally'.raised = tally.raised /\ tally'.written = tally.written
    BY <1>5 DEF Drop, TypeOK
  <2>2. tally.dropped + 1 <= NumBlocks
    BY <1>1, <1>5 DEF Drop, BlocksKept, Pending, InHand, TypeOK
  <2>3. TypeOK'
    BY <1>5, <2>2 DEF Drop, TypeOK
  <2>4. BlocksKept'
    BY <1>1, <1>2, <1>5, <2>1 DEF Drop, BlocksKept, Pending, InHand, FromReceiver, TypeOK
  <2>5. TasksKept'
    BY <1>1, <1>2, <1>5, <2>1 DEF Drop, TasksKept, InHand, TypeOK
  <2>6. IncidentsKept'
    BY <1>1, <1>2, <1>5, <2>1 DEF Drop, IncidentsKept, Writing, TypeOK
  <2>7. Closing'
    BY <1>1, <1>2, <1>5
       DEF Drop, Closing, Parallel, FromReceiver, Pending, Unwritten, Missed, InHand, TypeOK
  <2> QED
    BY <2>3, <2>4, <2>5, <2>6, <2>7
<1>6. CASE EndOfStream
  <2>1. TypeOK'
    BY <1>6 DEF EndOfStream, TypeOK
  <2>2. InHand' = InHand
    BY <1>6 DEF EndOfStream, InHand
  <2>3. BlocksKept' /\ TasksKept'
    BY <1>2, <1>6, <2>2 DEF EndOfStream, BlocksKept, TasksKept, Pending, FromReceiver
  <2>4. IncidentsKept'
    BY <1>2, <1>6 DEF EndOfStream, IncidentsKept, Writing
  <2>5. Closing'
    BY <1>2, <1>6, <2>2
       DEF EndOfStream, Closing, Parallel, FromReceiver, Pending, Unwritten, Missed
  <2> QED
    BY <2>1, <2>3, <2>4, <2>5
<1> QED
  BY <1>3, <1>4, <1>5, <1>6 DEF Stream

\* How a worker's move from one place to another changes the counts.
LEMMA CountsMove ==
  ASSUME NEW w \in Workers, NEW from, NEW to,
         worker \in [Workers -> Positions], WorkerGoes(w, from, to)
  PROVE  /\ Counts /\ Counts'
         /\ \A places \in {{"busy"}, {"count"}, {"busy", "count"}} :
              /\ from \in places /\ to \notin places => Number(places)' = Number(places) - 1
              /\ from \notin places /\ to \in places => Number(places)' = Number(places) + 1
              /\ (from \in places <=> to \in places) => Number(places)' = Number(places)
         /\ LET places == {"busy", "count", "settle"} IN
              /\ from \in places /\ to \notin places => Held' = Held - 1
              /\ from \notin places /\ to \in places => Held' = Held + 1
              /\ (from \in places <=> to \in places) => Held' = Held
<1>1. Counts /\ Counts'
  BY CountsCompare, PTL
<1>2. worker[w] = from /\ worker' = [worker EXCEPT ![w] = to]
  BY DEF WorkerGoes
<1>3. ASSUME NEW places
      PROVE  /\ from \in places /\ to \notin places => Number(places)' = Number(places) - 1
             /\ from \notin places /\ to \in places => Number(places)' = Number(places) + 1
             /\ (from \in places <=> to \in places) => Number(places)' = Number(places)
  BY <1>2, NumberMoves
<1> QED
  BY <1>1, <1>3 DEF Held

LEMMA WorkerKeeps ==
  ASSUME HarnessInv, NEW w \in Workers, Worker(w)
  PROVE  HarnessInv'
<1> USE IqCapacityAssumption, LogCapacityAssumption, NumBlocksAssumption
<1>0. worker \in [Workers -> Positions]
  BY DEF HarnessInv, TypeOK
<1> USE DEF HarnessInv, Counts
<1>1. ASSUME NEW to \in {"get", "test", "gone"}, NEW from \in {"test", "get"},
             WorkerGoes(w, from, to), UNCHANGED <<iq, log, tally>>
      PROVE  HarnessInv'
  <2>1. /\ Number({"busy"})' = Number({"busy"}) /\ Number({"count"})' = Number({"count"})
        /\ Number({"busy", "count"})' = Number({"busy", "count"}) /\ Held' = Held
    BY <1>0, <1>1, CountsMove
  <2>2. TypeOK'
    BY <1>1 DEF WorkerGoes, TypeOK, Positions
  <2>3. InHand' = InHand /\ Writing' = Writing
    BY <1>1 DEF WorkerGoes, InHand, Writing
  <2>4. BlocksKept' /\ TasksKept' /\ IncidentsKept'
    BY <1>1, <2>1, <2>3
       DEF WorkerGoes, BlocksKept, TasksKept, IncidentsKept, Pending, FromReceiver
  <2>5. Closing'
    BY <1>1, <2>1, <2>3
       DEF WorkerGoes, Closing, Parallel, FromReceiver, Pending, Unwritten, Missed
  <2> QED
    BY <2>2, <2>4, <2>5
<1>2. CASE Test(w)
  <2>1. CASE running \/ iq.size > 0
    BY <1>1, <1>2, <2>1 DEF Test
  <2>2. CASE ~(running \/ iq.size > 0)
    BY <1>1, <1>2, <2>2 DEF Test
  <2> QED
    BY <2>1, <2>2
<1>3. CASE TimeOut(w)
  BY <1>1, <1>3 DEF TimeOut
<1>4. CASE Take(w)
  <2>1. /\ Number({"busy"})' = Number({"busy"}) + 1 /\ Number({"count"})' = Number({"count"})
        /\ Number({"busy", "count"})' = Number({"busy", "count"}) + 1 /\ Held' = Held + 1
    BY <1>0, <1>4, CountsMove DEF Take
  <2>2. iq'.size = iq.size - 1 /\ iq'.unfinished = iq.unfinished /\ iq.size > 0
    BY <1>4 DEF Take, WithoutFirst
  <2>3. TypeOK'
    BY <1>4, <2>2 DEF Take, WithoutFirst, WorkerGoes, TypeOK, Positions
  <2>4. Counts
    BY CountsCompare
  <2>5. InHand' = InHand /\ Writing' = Writing
    BY <1>4 DEF Take, WorkerGoes, InHand, Writing
  <2>6. InHand \in Nat
    BY DEF InHand
  <2>7. BlocksKept' /\ TasksKept' /\ IncidentsKept'
    BY <1>4, <2>1, <2>2, <2>4, <2>5, <2>6
       DEF Take, WorkerGoes, BlocksKept, TasksKept, IncidentsKept, Pending, FromReceiver, TypeOK
  <2>8. Pending' = Pending /\ Unwritten' = Unwritten
    BY <1>4, <2>1, <2>2, <2>4, <2>5, <2>6 DEF Take, Pending, Unwritten, TypeOK
  <2>9. Closing'
    BY <1>4, <2>8 DEF Take, WorkerGoes, Closing, Parallel, FromReceiver, Missed
  <2> QED
    BY <2>3, <2>7, <2>9
<1>5. CASE Quiet(w) \/ Raise(w)
  <2>1. /\ Number({"busy"})' = Number({"busy"}) - 1 /\ Number({"count"})' = Number({"count"}) + 1
        /\ Number({"busy", "count"})' = Number({"busy", "count"}) /\ Held' = Held
    BY <1>0, <1>5, CountsMove DEF Quiet, Raise
  <2>2. Counts /\ Counts'
    BY CountsCompare, PTL
  <2>3. InHand' = InHand /\ Writing' = Writing /\ InHand \in Nat /\ Writing \in Nat
    BY <1>5 DEF Quiet, Raise, WorkerGoes, InHand, Writing
  <2>4. UNCHANGED <<setup, running, iq, source, logger, main, interrupted>>
    BY <1>5 DEF Quiet, Raise, WorkerGoes
  <2>5. worker' \in [Workers -> Positions]
    BY <1>0, <1>5 DEF Quiet, Raise, WorkerGoes, Positions
  <2>6. \/ UNCHANGED <<log, tally>>
        \/ /\ log.size < LogCapacity
           /\ log' = WithOneMore(log)
           /\ tally' = [made |-> tally.made, dropped |-> tally.dropped,
                        processed |-> tally.processed, failed |-> tally.failed,
                        raised |-> tally.raised + 1, written |-> tally.written]
    BY <1>5 DEF Quiet, Raise, TypeOK
  <2>7. CASE UNCHANGED <<log, tally>>
    <3>1. TypeOK'
      BY <2>4, <2>5, <2>7 DEF TypeOK
    <3>2. BlocksKept' /\ TasksKept' /\ IncidentsKept'
      BY <2>1, <2>2, <2>3, <2>4, <2>7
         DEF BlocksKept, TasksKept, IncidentsKept, Pending, FromReceiver, TypeOK
    <3>3. Pending' = Pending /\ Unwritten' <= Unwritten
      BY <2>1, <2>2, <2>3, <2>4, <2>7 DEF Pending, Unwritten, TypeOK
    <3>4. Unwritten \in Int /\ Unwritten' \in Int /\ Missed' = Missed /\ Missed \in Int
      BY <2>2, <2>3, <2>4, <2>7 DEF Unwritten, Missed, Parallel, TypeOK
    <3>5. Closing'
      BY <2>4, <3>3, <3>4 DEF Closing, Parallel, FromReceiver
    <3> QED
      BY <3>1, <3>2, <3>5
  <2>8. CASE /\ log.size < LogCapacity
             /\ log' = WithOneMore(log)
             /\ tally' = [made |-> tally.made, dropped |-> tally.dropped,
                          processed |-> tally.processed, failed |-> tally.failed,
                          raised |-> tally.raised + 1, written |-> tally.written]
    <3>1. log'.size = log.size + 1 /\ log'.unfinished = log.unfinished + 1
      BY <2>8 DEF WithOneMore
    <3>2. /\ tally'.made = tally.made /\ tally'.dropped = tally.dropped
          /\ tally'.processed = tally.processed /\ tally'.failed = tally.failed
          /\ tally'.raised = tally.raised + 1 /\ tally'.written = tally.written
      BY <2>8
    <3>3. BlocksKept' /\ TasksKept'
      BY <2>1, <2>2, <2>3, <2>4, <3>2 DEF BlocksKept, TasksKept, Pending, FromReceiver, TypeOK
    <3>4. IncidentsKept'
      BY <2>1, <2>2, <2>3, <3>1, <3>2 DEF IncidentsKept, TypeOK
    <3>5. tally.raised + 1 <= NumBlocks
      BY <2>1, <2>2, <2>3, <2>4, <3>2, <3>3, <3>4
         DEF IncidentsKept, BlocksKept, Pending, TypeOK
    <3>6. log.unfinished + 1 <= NumBlocks
      BY <2>2, <2>3, <3>5 DEF IncidentsKept, TypeOK
    <3>7. log' \in [size : 0 .. LogCapacity, unfinished : 0 .. NumBlocks]
      BY <2>8, <3>6 DEF TypeOK, WithOneMore
    <3>8. tally' \in [made : 0 .. NumBlocks, dropped : 0 .. NumBlocks,
                      processed : 0 .. NumBlocks, failed : 0 .. NumBlocks,
                      raised : 0 .. NumBlocks, written : 0 .. NumBlocks]
      BY <2>8, <3>5 DEF TypeOK
    <3>9. TypeOK'
      BY <2>4, <2>5, <3>7, <3>8 DEF TypeOK
    <3>10. Pending' = Pending /\ Unwritten' = Unwritten /\ Missed' = Missed
      BY <2>1, <2>2, <2>3, <2>4, <3>1 DEF Pending, Unwritten, Missed, Parallel, TypeOK
    <3>11. Closing'
      BY <2>4, <3>10 DEF Closing, Parallel, FromReceiver
    <3> QED
      BY <3>3, <3>4, <3>9, <3>11
  <2> QED
    BY <2>6, <2>7, <2>8
<1>6. CASE Fail(w) \/ Count(w)
  <2>1. PICK place \in {"busy", "count"}, to \in {"test", "settle"} :
           /\ WorkerGoes(w, place, to)
           /\ UNCHANGED <<iq, log>>
           /\ \/ /\ place = "busy"
                 /\ tally' = [made |-> tally.made, dropped |-> tally.dropped,
                              processed |-> tally.processed, failed |-> tally.failed + 1,
                              raised |-> tally.raised, written |-> tally.written]
              \/ /\ place = "count"
                 /\ tally' = [made |-> tally.made, dropped |-> tally.dropped,
                              processed |-> tally.processed + 1, failed |-> tally.failed,
                              raised |-> tally.raised, written |-> tally.written]
    <3>1. CASE Fail(w)
      BY <3>1 DEF Fail, TypeOK
    <3>2. CASE Count(w)
      BY <3>2 DEF Count, TypeOK
    <3> QED
      BY <1>6, <3>1, <3>2
  <2>2. /\ Number({"busy", "count"})' = Number({"busy", "count"}) - 1
        /\ Held' <= Held
        /\ place = "busy" => /\ Number({"busy"})' = Number({"busy"}) - 1
                            /\ Number({"count"})' = Number({"count"})
        /\ place = "count" => /\ Number({"busy"})' = Number({"busy"})
                             /\ Number({"count"})' = Number({"count"}) - 1
    BY <1>0, <2>1, CountsMove
  <2>3. Counts /\ Counts'
    BY CountsCompare, PTL
  <2>4. InHand' = InHand /\ Writing' = Writing /\ InHand \in Nat /\ Writing \in Nat
    BY <2>1 DEF WorkerGoes, InHand, Writing
  <2>5. UNCHANGED <<setup, running, iq, log, source, logger, main, interrupted>>
    BY <2>1 DEF WorkerGoes
  <2>6. tally.processed + 1 <= NumBlocks /\ tally.failed + 1 <= NumBlocks
    BY <2>2, <2>3, <2>4 DEF BlocksKept, Pending, TypeOK
  <2>7. tally' \in [made : 0 .. NumBlocks, dropped : 0 .. NumBlocks,
                    processed : 0 .. NumBlocks, failed : 0 .. NumBlocks,
                    raised : 0 .. NumBlocks, written : 0 .. NumBlocks]
    BY <2>1, <2>6 DEF TypeOK
  <2>8. TypeOK'
    BY <2>1, <2>5, <2>7 DEF WorkerGoes, TypeOK, Positions
  <2>9. /\ tally'.made = tally.made /\ tally'.dropped = tally.dropped
        /\ tally'.raised = tally.raised /\ tally'.written = tally.written
        /\ tally'.processed + tally'.failed = tally.processed + tally.failed + 1
        /\ tally'.processed = IF place = "count" THEN tally.processed + 1 ELSE tally.processed
    BY <2>1 DEF TypeOK
  <2>10. Pending' = Pending - 1 /\ Unwritten' <= Unwritten /\ Pending \in Int
         /\ Unwritten \in Int /\ Unwritten' \in Int /\ Missed' = Missed /\ Missed \in Int
    BY <2>1, <2>2, <2>3, <2>4, <2>5 DEF Pending, Unwritten, Missed, Parallel, TypeOK
  <2>11. BlocksKept'
    BY <2>5, <2>8, <2>9, <2>10 DEF BlocksKept, FromReceiver, TypeOK
  <2>12. TasksKept'
    BY <2>2, <2>3, <2>4, <2>5, <2>9 DEF TasksKept, TypeOK
  <2>13. IncidentsKept'
    BY <2>1, <2>2, <2>3, <2>4, <2>5, <2>8, <2>9 DEF IncidentsKept, TypeOK
  <2>14. Closing'
    BY <2>5, <2>10 DEF Closing, Parallel, FromReceiver
  <2> QED
    BY <2>8, <2>11, <2>12, <2>13, <2>14
<1>7. CASE Settle(w)
  <2>1. /\ Number({"busy"})' = Number({"busy"}) /\ Number({"count"})' = Number({"count"})
        /\ Number({"busy", "count"})' = Number({"busy", "count"}) /\ Held' = Held - 1
    BY <1>0, <1>7, CountsMove DEF Settle
  <2>2. Counts /\ Counts'
    BY CountsCompare, PTL
  <2>3. iq'.size = iq.size /\ iq'.unfinished = iq.unfinished - 1
    BY <1>7 DEF Settle, TaskDone
  <2>4. InHand' = InHand /\ Writing' = Writing /\ InHand \in Nat /\ Writing \in Nat
    BY <1>7 DEF Settle, WorkerGoes, InHand, Writing
  <2>5. UNCHANGED <<setup, running, log, tally, source, logger, main, interrupted>>
    BY <1>7 DEF Settle, WorkerGoes
  <2>6. iq.unfinished >= 1
    BY <2>1, <2>2 DEF TasksKept, TypeOK
  <2>7. TypeOK'
    BY <1>7, <2>5, <2>6 DEF Settle, TaskDone, WorkerGoes, TypeOK, Positions
  <2>8. Pending' = Pending /\ Unwritten' = Unwritten /\ Missed' = Missed
    BY <2>1, <2>3, <2>4, <2>5 DEF Pending, Unwritten, Missed, Parallel
  <2>9. BlocksKept' /\ IncidentsKept'
    BY <2>1, <2>4, <2>5, <2>8 DEF BlocksKept, IncidentsKept, FromReceiver
  <2>10. TasksKept'
    BY <2>1, <2>2, <2>3, <2>4, <2>5 DEF TasksKept, TypeOK
  <2>11. Closing'
    BY <2>5, <2>8 DEF Closing, Parallel, FromReceiver
  <2> QED
    BY <2>7, <2>9, <2>10, <2>11
<1> QED
  BY <1>2, <1>3, <1>4, <1>5, <1>6, <1>7 DEF Worker

LEMMA LoggerKeeps ==
  ASSUME HarnessInv, Logger
  PROVE  HarnessInv'
<1> USE IqCapacityAssumption, LogCapacityAssumption, NumBlocksAssumption
<1> USE DEF HarnessInv, Counts
<1>1. UNCHANGED <<setup, running, iq, source, worker, main, interrupted>>
  BY DEF Logger, LoggerTests, LoggerTakes, LoggerTimesOut, Write, WriteRaises, LoggerGoes
<1>2. /\ Number({"busy"})' = Number({"busy"}) /\ Number({"count"})' = Number({"count"})
      /\ Number({"busy", "count"})' = Number({"busy", "count"}) /\ Held' = Held
  BY <1>1, CountsStay
<1>3. Counts
  BY CountsCompare
<1>4. InHand' = InHand /\ InHand \in Nat /\ Missed' = Missed /\ Missed \in Nat
  BY <1>1 DEF InHand, Missed, Parallel
<1>5. ASSUME TypeOK', IncidentsKept', log'.unfinished <= log.unfinished,
             /\ tally'.made = tally.made /\ tally'.dropped = tally.dropped
             /\ tally'.processed = tally.processed /\ tally'.failed = tally.failed
      PROVE  HarnessInv'
  <2>1. Pending' = Pending /\ Unwritten' <= Unwritten /\ Unwritten \in Int /\ Unwritten' \in Int
    BY <1>1, <1>2, <1>3, <1>4, <1>5 DEF Pending, Unwritten, TypeOK
  <2>2. BlocksKept' /\ TasksKept'
    BY <1>1, <1>2, <1>4, <1>5, <2>1 DEF BlocksKept, TasksKept, FromReceiver
  <2>3. Closing'
    BY <1>1, <1>4, <2>1 DEF Closing, Parallel, FromReceiver
  <2> QED
    BY <1>5, <2>2, <2>3
<1>6. CASE LoggerTests \/ LoggerTimesOut \/ WriteRaises
  <2>1. UNCHANGED <<log, tally>> /\ logger' \in {"test", "get", "gone"}
    BY <1>6 DEF LoggerTests, LoggerTimesOut, WriteRaises, LoggerGoes
  <2>2. Writing' = 0 /\ Writing \in Nat
    BY <2>1 DEF Writing
  <2>3. TypeOK'
    BY <1>1, <2>1 DEF TypeOK
  <2>4. IncidentsKept'
    BY <1>2, <1>3, <2>1, <2>2 DEF IncidentsKept, TypeOK
  <2>5. log'.unfinished <= log.unfinished
    BY <2>1 DEF TypeOK
  <2> QED
    BY <1>5, <2>1, <2>3, <2>4, <2>5
<1>7. CASE LoggerTakes
  <2>1. /\ log'.size = log.size - 1 /\ log'.unfinished = log.unfinished
        /\ log.size > 0 /\ logger = "get" /\ logger' = "write" /\ tally' = tally
    BY <1>7 DEF LoggerTakes, LoggerGoes, WithoutFirst
  <2>2. TypeOK'
    BY <1>1, <1>7, <2>1 DEF LoggerTakes, WithoutFirst, TypeOK
  <2>3. IncidentsKept'
    BY <1>2, <1>3, <2>1 DEF IncidentsKept, Writing, TypeOK
  <2>4. log'.unfinished <= log.unfinished
    BY <2>1 DEF TypeOK
  <2> QED
    BY <1>5, <2>1, <2>2, <2>3, <2>4
<1>8. CASE Write
  <2>1. /\ log'.size = log.size /\ log'.unfinished = log.unfinished - 1
        /\ logger = "write" /\ logger' = "test"
    BY <1>8 DEF Write, LoggerGoes, TaskDone
  <2>2. tally' = [made |-> tally.made, dropped |-> tally.dropped,
                  processed |-> tally.processed, failed |-> tally.failed,
                  raised |-> tally.raised, written |-> tally.written + 1]
    BY <1>8 DEF Write, TypeOK
  <2>3. log.unfinished >= 1
    BY <2>1 DEF IncidentsKept, Writing, TypeOK
  <2>4. tally.written + 1 <= NumBlocks
    BY <2>3 DEF IncidentsKept, TypeOK
  <2>5. log' \in [size : 0 .. LogCapacity, unfinished : 0 .. NumBlocks]
    BY <1>8, <2>3 DEF Write, TaskDone, TypeOK
  <2>6. TypeOK'
    BY <1>1, <2>1, <2>2, <2>4, <2>5 DEF TypeOK
  <2>7. IncidentsKept'
    BY <1>2, <1>3, <2>1, <2>2 DEF IncidentsKept, Writing, TypeOK
  <2>8. log'.unfinished <= log.unfinished
    BY <2>1 DEF TypeOK
  <2> QED
    BY <1>5, <2>2, <2>6, <2>7, <2>8
<1> QED
  BY <1>6, <1>7, <1>8 DEF Logger

LEMMA MainKeeps ==
  ASSUME HarnessInv, Execute \/ StopFromOutside \/ Interrupt
  PROVE  HarnessInv'
<1> USE IqCapacityAssumption, LogCapacityAssumption, NumBlocksAssumption
<1> USE DEF HarnessInv, Counts
<1>1. UNCHANGED <<setup, iq, log, tally, source, worker, logger>>
  BY DEF Execute, Stop, JoinIq, JoinLog, JoinSource, JoinWorkers, JoinLogger, StopBridge,
         StopFromOutside, Interrupt, MainGoes
<1>2. /\ Number({"busy"})' = Number({"busy"}) /\ Number({"count"})' = Number({"count"})
      /\ Number({"busy", "count"})' = Number({"busy", "count"}) /\ Held' = Held
  BY <1>1, CountsStay
<1>3. Counts
  BY CountsCompare
<1>4. TypeOK'
  BY <1>1 DEF Execute, Stop, JoinIq, JoinLog, JoinSource, JoinWorkers, JoinLogger, StopBridge,
              StopFromOutside, Interrupt, MainGoes, TypeOK
<1>5. /\ InHand' = InHand /\ Writing' = Writing /\ Pending' = Pending
      /\ Unwritten' = Unwritten /\ Missed' = Missed
  BY <1>1, <1>2 DEF InHand, Writing, Pending, Unwritten, Missed, Parallel
<1>6. BlocksKept' /\ TasksKept' /\ IncidentsKept'
  BY <1>1, <1>2, <1>5 DEF BlocksKept, TasksKept, IncidentsKept, FromReceiver
<1>7. Closing'
  <2>1. CASE Stop
    BY <1>1, <1>5, <2>1 DEF Stop, MainGoes, Closing, Parallel, FromReceiver
  <2>2. CASE StopFromOutside
    BY <1>1, <1>5, <2>2 DEF StopFromOutside, MainGoes, Closing, Parallel, FromReceiver
  <2>3. CASE JoinIq
    <3>1. iq.size = 0 /\ Number({"busy", "count"}) = 0
      BY <1>3, <2>3 DEF JoinIq, Joined, TasksKept, TypeOK
    <3>2. Pending = InHand
      BY <3>1 DEF Pending, InHand
    <3>3. ~interrupted /\ ~FromReceiver => InHand <= Missed
      BY <2>3 DEF JoinIq, MainGoes, Closing, InHand, Missed, Parallel
    <3> QED
      BY <1>1, <1>5, <2>3, <3>2, <3>3 DEF JoinIq, MainGoes, Closing, Parallel, FromReceiver
  <2>4. CASE JoinLog
    <3>1. Unwritten <= Pending /\ Unwritten \in Int /\ Pending \in Int /\ Missed \in Int
      BY <1>3, <2>4 DEF JoinLog, Joined, Unwritten, Pending, InHand, Missed, TypeOK
    <3> QED
      BY <1>1, <1>5, <2>4, <3>1 DEF JoinLog, MainGoes, Closing, Parallel, FromReceiver
  <2>5. CASE JoinSource
    BY <2>5 DEF JoinSource, MainGoes, Closing
  <2>6. CASE JoinWorkers \/ JoinLogger \/ StopBridge
    BY <1>1, <1>5, <2>6
       DEF JoinWorkers, JoinLogger, StopBridge, MainGoes, Closing, Parallel, FromReceiver
  <2>7. CASE Interrupt
    BY <1>1, <2>7 DEF Interrupt, MainGoes, Closing
  <2> QED
    BY <2>1, <2>2, <2>3, <2>4, <2>5, <2>6, <2>7 DEF Execute
<1> QED
  BY <1>4, <1>6, <1>7

-----------------------------------------------------------------------------
(***************************************************************************)
(* The theorems.                                                           *)
(***************************************************************************)

\* The inductive invariant: every block is in the source's hands, queued, with a
\* worker or counted; a queue's task count covers what is queued and held; and a
\* join that has returned leaves at most what the source still held.
THEOREM HarnessInvariant == Spec => []HarnessInv
<1>1. Init => HarnessInv
  <2> SUFFICES ASSUME Init PROVE HarnessInv
    OBVIOUS
  <2>1. ASSUME NEW places, "test" \notin places
        PROVE  Number(places) = 0
    <3>1. {w \in Workers : worker[w] \in places} = {}
      BY <2>1 DEF Init
    <3> QED
      BY <3>1, FS_EmptySet DEF Number
  <2>2. /\ Number({"busy"}) = 0 /\ Number({"count"}) = 0
        /\ Number({"busy", "count"}) = 0 /\ Held = 0
    BY <2>1 DEF Held
  <2>3. TypeOK
    <3> USE IqCapacityAssumption, LogCapacityAssumption, NumBlocksAssumption
    <3>1. 0 \in 0 .. NumBlocks /\ 0 \in 0 .. IqCapacity /\ 0 \in 0 .. LogCapacity
      OBVIOUS
    <3>2. /\ iq \in [size : 0 .. IqCapacity, unfinished : 0 .. NumBlocks]
          /\ log \in [size : 0 .. LogCapacity, unfinished : 0 .. NumBlocks]
      BY <3>1 DEF Init
    <3>3. tally \in [made : 0 .. NumBlocks, dropped : 0 .. NumBlocks,
                     processed : 0 .. NumBlocks, failed : 0 .. NumBlocks,
                     raised : 0 .. NumBlocks, written : 0 .. NumBlocks]
      BY <3>1 DEF Init
    <3>4. worker \in [Workers -> Positions]
      BY DEF Init, Positions
    <3> QED
      BY <3>2, <3>3, <3>4 DEF Init, TypeOK
  <2> QED
    BY <2>2, <2>3 DEF Init, HarnessInv, BlocksKept, TasksKept, IncidentsKept, Closing,
                      Pending, Unwritten, InHand, Writing
<1>2. HarnessInv /\ [Next]_vars => HarnessInv'
  <2> SUFFICES ASSUME HarnessInv, [Next]_vars PROVE HarnessInv'
    OBVIOUS
  <2>1. CASE Next
    BY <2>1, StreamKeeps, WorkerKeeps, LoggerKeeps, MainKeeps DEF Next
  <2>2. CASE UNCHANGED vars
    BY <2>2
       DEF vars, HarnessInv, TypeOK, BlocksKept, TasksKept, IncidentsKept, Closing, Pending,
           Unwritten, InHand, Writing, Missed, Parallel, FromReceiver, Held, Number
  <2> QED
    BY <2>1, <2>2
<1> QED
  BY <1>1, <1>2, PTL DEF Spec

\* No queue outgrows its size, no task_done comes once too often and no counter
\* outgrows the blocks made, in either harness.
THEOREM HarnessTypeCorrect == Spec => []TypeOK
<1>1. HarnessInv => TypeOK
  BY DEF HarnessInv
<1> QED
  BY <1>1, HarnessInvariant, PTL

\* When execute returns and nobody interrupted it, the parallel harness has
\* accounted every block and written every incident it queued, and the spatial one
\* misses at most the block its producer held and the incident it raised.
THEOREM HarnessAccountsAtTheEnd == Spec => []EndAccounts
<1>1. HarnessInv => EndAccounts
  <2> SUFFICES ASSUME HarnessInv, main = "done", ~interrupted, ~FromReceiver
               PROVE  LET missed == IF Parallel THEN 0 ELSE 1 IN
                        /\ tally.made - (tally.processed + tally.failed + tally.dropped)
                             \in 0 .. missed
                        /\ tally.raised - tally.written \in 0 .. missed
    BY DEF EndAccounts
  <2>1. Pending <= Missed /\ Unwritten <= Missed
    BY DEF HarnessInv, Closing
  <2>2. Counts /\ InHand \in Nat
    BY CountsCompare DEF InHand
  <2>3. tally.made - (tally.processed + tally.failed + tally.dropped) = Pending
        /\ Pending \in Nat
    BY <2>2 DEF HarnessInv, BlocksKept, Pending, Counts, TypeOK
  <2>4. tally.raised - tally.written = log.unfinished /\ log.unfinished \in Nat
    BY DEF HarnessInv, IncidentsKept, TypeOK
  <2>5. log.unfinished <= Unwritten /\ Unwritten \in Nat
    BY <2>2, <2>4 DEF HarnessInv, Unwritten, Counts, TypeOK
  <2> QED
    BY <2>1, <2>3, <2>4, <2>5 DEF Missed
<1> QED
  BY <1>1, HarnessInvariant, PTL
=============================================================================
