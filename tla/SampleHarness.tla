---------------------------- MODULE SampleHarness -----------------------------
(***************************************************************************)
(* The hardware harnesses (src/backend/src/satcom_core/                    *)
(* parallel_hardware_harness.py and spatial_hardware_harness.py): a source *)
(* of sample blocks, a pool of workers, an incident logger and the thread  *)
(* that runs execute, joined by two queue.Queue.                           *)
(*                                                                         *)
(* A queue is its length and its count of unfinished tasks, the one that   *)
(* Queue.join waits for.  What the workers compute is left out: a block is *)
(* quiet, raises an incident or fails.  The two harnesses differ in who    *)
(* stops whom, in when task_done is called and in what the incident writer *)
(* makes of their features: the spatial harness leaves out in_ratio_db,    *)
(* which write_certin_compliance_log reads, so there every write raises.   *)
(***************************************************************************)
EXTENDS Integers, FiniteSets

CONSTANTS
  Workers,      \* the worker threads
  IqCapacity,   \* maxsize of iq_queue
  LogCapacity,  \* maxsize of log_queue
  NumBlocks     \* bound: how many blocks the source makes

ASSUME IqCapacityAssumption == IqCapacity \in Nat \ {0}
ASSUME LogCapacityAssumption == LogCapacity \in Nat \ {0}
ASSUME NumBlocksAssumption == NumBlocks \in Nat
ASSUME WorkersAssumption == IsFiniteSet(Workers)

VARIABLES
  setup,        \* which harness, and whether a thread or the receiver feeds it
  running,      \* running
  iq,           \* iq_queue: its length and its unfinished tasks
  log,          \* log_queue: likewise
  tally,        \* the metrics, and history: blocks made, incidents queued and written
  source,       \* where sample_producer, stream_to_harness or _capture_loop is
  worker,       \* where each processing_worker is
  logger,       \* where logging_worker is
  main,         \* where execute is
  interrupted   \* whether execute was interrupted from the keyboard

vars == <<setup, running, iq, log, tally, source, worker, logger, main, interrupted>>

Setups ==
  {[kind |-> "parallel", feed |-> "thread"],
   [kind |-> "spatial", feed |-> "thread"],
   [kind |-> "spatial", feed |-> "receiver"]}

Parallel == setup.kind = "parallel"
FromReceiver == setup.feed = "receiver"

\* execute has started the threads.
Init ==
  /\ setup \in Setups
  /\ running = TRUE
  /\ iq = [size |-> 0, unfinished |-> 0]
  /\ log = [size |-> 0, unfinished |-> 0]
  /\ tally = [made |-> 0, dropped |-> 0, processed |-> 0, failed |-> 0,
              raised |-> 0, written |-> 0]
  /\ source = "test"
  /\ worker = [w \in Workers |-> "test"]
  /\ logger = "test"
  /\ main = "watch"
  /\ interrupted = FALSE

-----------------------------------------------------------------------------
(***************************************************************************)
(* queue.Queue.                                                            *)
(***************************************************************************)
WithOneMore(q) == [size |-> q.size + 1, unfinished |-> q.unfinished + 1]
WithoutFirst(q) == [size |-> q.size - 1, unfinished |-> q.unfinished]
TaskDone(q) == [size |-> q.size, unfinished |-> q.unfinished - 1]

\* A slip: join looks at the length of the queue.
JoinedWhenEmpty(q) == q.size = 0

Joined(q) == q.unfinished = 0

-----------------------------------------------------------------------------
(***************************************************************************)
(* The source of blocks.  A thread that synthesizes or plays a file back   *)
(* leaves when it sees running reset, when its time is over or at the end  *)
(* of the file; the receiver bridge has a flag of its own, which only      *)
(* execute resets, in its last step.                                       *)
(***************************************************************************)
Make ==
  /\ source = "test"
  /\ IF FromReceiver THEN main \notin {"bridge", "done"} ELSE running
  /\ tally.made < NumBlocks
  /\ source' = "put"
  /\ tally' = [tally EXCEPT !.made = @ + 1]
  /\ UNCHANGED <<setup, running, iq, log, worker, logger, main, interrupted>>

Enqueue ==
  /\ source = "put"
  /\ iq.size < IqCapacity
  /\ iq' = WithOneMore(iq)
  /\ source' = "test"
  /\ UNCHANGED <<setup, running, log, tally, worker, logger, main, interrupted>>

\* The bridge only warns of a block it cannot queue.
Drop ==
  /\ source = "put"
  /\ iq.size = IqCapacity
  /\ tally' = [tally EXCEPT !.dropped = IF FromReceiver THEN @ ELSE @ + 1]
  /\ source' = "test"
  /\ UNCHANGED <<setup, running, iq, log, worker, logger, main, interrupted>>

EndOfStream ==
  /\ source = "test"
  /\ FromReceiver => main \in {"bridge", "done"}
  /\ source' = "gone"
  /\ UNCHANGED <<setup, running, iq, log, tally, worker, logger, main, interrupted>>

-----------------------------------------------------------------------------
(***************************************************************************)
(* processing_worker.                                                      *)
(***************************************************************************)
WorkerGoes(w, from, to) ==
  /\ worker[w] = from
  /\ worker' = [worker EXCEPT ![w] = to]
  /\ UNCHANGED <<setup, running, source, logger, main, interrupted>>

\* A slip: a worker leaves as soon as running is reset.
TestOnlyRunning(w) ==
  /\ WorkerGoes(w, "test", IF running THEN "get" ELSE "gone")
  /\ UNCHANGED <<iq, log, tally>>

\* running is only ever reset, so reading it and then the queue is one look.
Test(w) ==
  /\ WorkerGoes(w, "test", IF running \/ iq.size > 0 THEN "get" ELSE "gone")
  /\ UNCHANGED <<iq, log, tally>>

Take(w) ==
  /\ iq.size > 0
  /\ WorkerGoes(w, "get", "busy")
  /\ iq' = WithoutFirst(iq)
  /\ UNCHANGED <<log, tally>>

TimeOut(w) ==
  /\ iq.size = 0
  /\ WorkerGoes(w, "get", "test")
  /\ UNCHANGED <<iq, log, tally>>

\* Nothing is found, or the incident comes too soon after the last one.
Quiet(w) ==
  /\ WorkerGoes(w, "busy", "count")
  /\ UNCHANGED <<iq, log, tally>>

\* An incident is queued, or lost when its queue is full.
Raise(w) ==
  /\ WorkerGoes(w, "busy", "count")
  /\ IF log.size < LogCapacity
       THEN /\ log' = WithOneMore(log)
            /\ tally' = [tally EXCEPT !.raised = @ + 1]
       ELSE UNCHANGED <<log, tally>>
  /\ UNCHANGED iq

\* The parallel harness calls task_done only for a block that went well.
Fail(w) ==
  /\ WorkerGoes(w, "busy", IF Parallel THEN "test" ELSE "settle")
  /\ tally' = [tally EXCEPT !.failed = @ + 1]
  /\ UNCHANGED <<iq, log>>

\* A slip: the task is reported done as soon as it is counted, and again.
CountAndSettle(w) ==
  /\ WorkerGoes(w, "count", "settle")
  /\ tally' = [tally EXCEPT !.processed = @ + 1]
  /\ iq' = TaskDone(iq)
  /\ UNCHANGED log

Count(w) ==
  /\ WorkerGoes(w, "count", "settle")
  /\ tally' = [tally EXCEPT !.processed = @ + 1]
  /\ UNCHANGED <<iq, log>>

Settle(w) ==
  /\ WorkerGoes(w, "settle", "test")
  /\ iq' = TaskDone(iq)
  /\ UNCHANGED <<log, tally>>

-----------------------------------------------------------------------------
(***************************************************************************)
(* logging_worker.                                                         *)
(***************************************************************************)
LoggerGoes(from, to) ==
  /\ logger = from
  /\ logger' = to
  /\ UNCHANGED <<setup, running, iq, source, worker, main, interrupted>>

LoggerTests ==
  /\ LoggerGoes("test", IF running \/ log.size > 0 THEN "get" ELSE "gone")
  /\ UNCHANGED <<log, tally>>

LoggerTakes ==
  /\ log.size > 0
  /\ LoggerGoes("get", "write")
  /\ log' = WithoutFirst(log)
  /\ UNCHANGED tally

LoggerTimesOut ==
  /\ log.size = 0
  /\ LoggerGoes("get", "test")
  /\ UNCHANGED <<log, tally>>

Write ==
  /\ Parallel
  /\ LoggerGoes("write", "test")
  /\ log' = TaskDone(log)
  /\ tally' = [tally EXCEPT !.written = @ + 1]

\* The exception is swallowed, and task_done with it.
WriteRaises ==
  /\ LoggerGoes("write", "test")
  /\ UNCHANGED <<log, tally>>

-----------------------------------------------------------------------------
(***************************************************************************)
(* execute.                                                                *)
(***************************************************************************)
MainGoes(from, to) ==
  /\ main = from
  /\ main' = to
  /\ UNCHANGED <<setup, iq, log, tally, source, worker, logger>>

\* The parallel harness waits for its producer, the spatial one for its time.
Stop ==
  /\ MainGoes("watch", "iq_join")
  /\ Parallel => source = "gone"
  /\ running' = FALSE
  /\ UNCHANGED interrupted

\* The gateway's on_shutdown.
StopFromOutside ==
  /\ ~Parallel
  /\ running
  /\ MainGoes("watch", "watch")
  /\ running' = FALSE
  /\ UNCHANGED interrupted

JoinIq ==
  /\ Joined(iq)
  /\ MainGoes("iq_join", "log_join")
  /\ UNCHANGED <<running, interrupted>>

JoinLog ==
  /\ Joined(log)
  /\ MainGoes("log_join", IF Parallel THEN "workers" ELSE "bridge")
  /\ UNCHANGED <<running, interrupted>>

JoinSource ==
  /\ source = "gone"
  /\ MainGoes("source", "workers")
  /\ UNCHANGED <<running, interrupted>>

JoinWorkers ==
  /\ \A w \in Workers : worker[w] = "gone"
  /\ MainGoes("workers", "logger")
  /\ UNCHANGED <<running, interrupted>>

JoinLogger ==
  /\ logger = "gone"
  /\ MainGoes("logger", "done")
  /\ UNCHANGED <<running, interrupted>>

\* The bridge, if there is one, is joined for two seconds at most.
StopBridge ==
  /\ MainGoes("bridge", "done")
  /\ UNCHANGED <<running, interrupted>>

Interrupt ==
  /\ ~interrupted
  /\ main \notin {"bridge", "done"}
  /\ MainGoes(main, IF Parallel THEN "source" ELSE "bridge")
  /\ interrupted' = TRUE
  /\ running' = FALSE

-----------------------------------------------------------------------------
Stream == Make \/ Enqueue \/ Drop \/ EndOfStream

Worker(w) ==
  \/ Test(w)
  \/ Take(w)
  \/ TimeOut(w)
  \/ Quiet(w)
  \/ Raise(w)
  \/ Fail(w)
  \/ Count(w)
  \/ Settle(w)

Logger ==
  \/ LoggerTests
  \/ LoggerTakes
  \/ LoggerTimesOut
  \/ Write
  \/ WriteRaises

Execute ==
  \/ Stop
  \/ JoinIq
  \/ JoinLog
  \/ JoinSource
  \/ JoinWorkers
  \/ JoinLogger
  \/ StopBridge

Next ==
  \/ Stream
  \/ \E w \in Workers : Worker(w)
  \/ Logger
  \/ Execute
  \/ StopFromOutside
  \/ Interrupt

Spec == Init /\ [][Next]_vars

\* Every thread goes on.  A source that is fed for ever need not stop by itself,
\* but one that has seen running reset leaves.
FairSpec ==
  /\ Spec
  /\ WF_vars(Enqueue \/ Drop)
  /\ WF_vars(~running /\ EndOfStream)
  /\ \A w \in Workers : WF_vars(Worker(w))
  /\ WF_vars(Logger)
  /\ WF_vars(~running /\ Execute)

-----------------------------------------------------------------------------
Positions == {"test", "get", "busy", "count", "settle", "gone"}

\* A queue stays within its size and its task count never falls below zero, which
\* a task_done called once too often would answer by raising.
TypeOK ==
  /\ setup \in Setups
  /\ running \in BOOLEAN
  /\ iq \in [size : 0 .. IqCapacity, unfinished : 0 .. NumBlocks]
  /\ log \in [size : 0 .. LogCapacity, unfinished : 0 .. NumBlocks]
  /\ tally \in [made : 0 .. NumBlocks, dropped : 0 .. NumBlocks,
                processed : 0 .. NumBlocks, failed : 0 .. NumBlocks,
                raised : 0 .. NumBlocks, written : 0 .. NumBlocks]
  /\ source \in {"test", "put", "gone"}
  /\ worker \in [Workers -> Positions]
  /\ logger \in {"test", "get", "write", "gone"}
  /\ main \in {"watch", "iq_join", "log_join", "source", "workers", "logger", "bridge", "done"}
  /\ interrupted \in BOOLEAN

\* What the last line execute prints is worth, when a thread fed the harness and
\* nobody interrupted it.  The parallel harness has processed or counted as dropped
\* every block, and written every incident it queued.  The spatial one stops its
\* producer without joining it, so it may miss the one block in the producer's
\* hands and the incident that block raises, and no other.
EndAccounts ==
  main = "done" /\ ~interrupted /\ ~FromReceiver =>
    LET missed == IF Parallel THEN 0 ELSE 1 IN
      /\ tally.made - (tally.processed + tally.failed + tally.dropped) \in 0 .. missed
      /\ tally.raised - tally.written \in 0 .. missed

\* How many workers are in one of these places.
Number(places) == Cardinality({w \in Workers : worker[w] \in places})

\* Tasks that nobody will report done.
Orphaned(q, held) == q.unfinished > q.size + held

Gone == \A w \in Workers : worker[w] = "gone"
Held == Number({"busy", "count", "settle"})

\* Once running is reset execute returns, but for the hangs the code has: a block
\* that failed in the parallel harness, the spatial producer's last block arriving
\* after the workers have left, an incident whose write raised, and one queued
\* after the logger has left.  A join can hang for no other reason.
Returns ==
  ~running /\ ~FromReceiver ~>
    \/ main = "done"
    \/ Parallel /\ tally.failed > 0 /\ Orphaned(iq, Held)
    \/ ~Parallel /\ Gone /\ iq.size > 0
    \/ Orphaned(log, IF logger = "write" THEN 1 ELSE 0)
    \/ logger = "gone" /\ log.size > 0

-----------------------------------------------------------------------------
(***************************************************************************)
(* Why EndAccounts holds: nothing is forgotten on the way, and a join that *)
(* has returned leaves little that may still come.                         *)
(***************************************************************************)
InHand == IF source = "put" THEN 1 ELSE 0
Writing == IF logger = "write" THEN 1 ELSE 0

\* Blocks that have been made and are not accounted yet.
Pending == InHand + iq.size + Number({"busy", "count"})

\* What may still be an incident that is not written when execute ends.
Unwritten == InHand + iq.size + Number({"busy"}) + log.unfinished

BlocksKept ==
  LET seen == Pending + tally.processed + tally.failed + tally.dropped IN
    /\ seen <= tally.made
    /\ ~FromReceiver => seen = tally.made

TasksKept ==
  /\ iq.size + Held <= iq.unfinished
  /\ iq.unfinished + InHand <= tally.made

IncidentsKept ==
  /\ tally.raised = tally.written + log.unfinished
  /\ log.size + Writing <= log.unfinished
  /\ tally.raised <= tally.processed + Number({"count"})

\* The blocks and incidents that execute may miss.
Missed == IF Parallel THEN 0 ELSE 1

Closing ==
  /\ main # "watch" => ~running
  /\ main = "source" => interrupted
  /\ ~interrupted /\ ~FromReceiver =>
       /\ Parallel /\ main # "watch" => source = "gone"
       /\ main \in {"log_join", "workers", "logger", "bridge", "done"} => Pending <= Missed
       /\ main \in {"workers", "logger", "bridge", "done"} => Unwritten <= Missed

HarnessInv ==
  /\ TypeOK
  /\ BlocksKept
  /\ TasksKept
  /\ IncidentsKept
  /\ Closing
=============================================================================
