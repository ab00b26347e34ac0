----------------------------- MODULE MitigationLoop ----------------------------
(***************************************************************************)
(* The closed mitigation loop of LiveBenchRFValidation (src/backend/src/   *)
(* satcom_core/live_bench_rf_validation.py): a stride judges the sweep's   *)
(* power, debounces the judgement (MitigationHysteresisFilter), pushes the *)
(* command it comes to at the receiver's registers (SDRRegisterActuator)   *)
(* and looks whether the hardware has acknowledged it                      *)
(* (SDRRegisterFeedbackMonitor).  Between strides the operator pushes      *)
(* commands and clears the interlock, and the hardware acknowledges.       *)
(*                                                                         *)
(* One thread runs the loop, so each call is one step.  Time passes        *)
(* between strides and is kept as ages: how long ago a command was pushed, *)
(* a register written, a write announced.  A call takes no time.           *)
(*                                                                         *)
(* The command ring is the sequence of its unread commands, and becomes    *)
(* empty when its write index comes round to the read index.  Left out,    *)
(* because nothing reads them: consecutive_slips, which counts with        *)
(* consecutive_critical here, action_duration, and the bench's own history *)
(* of raw actions.  Of the monitor's rows only the sample rate's is used.  *)
(***************************************************************************)
EXTENDS Integers, SequencesExt, FiniteSetsExt

CONSTANTS
  UpWindow,         \* up_window
  DownWindow,       \* down_window
  HistoryLength,    \* history_len
  QueueLength,      \* q_len
  CriticalStrides,  \* the 3 desynchronised strides after which the loop acts
  MinInterval,      \* min_write_interval_ns
  Timeout,          \* timeout_ns
  Elapses,          \* the times that pass before a stride
  OperatorActions,  \* action codes the operator pushes
  MaxPushes,        \* bound: how many times the operator pushes or clears
  MaxCritical       \* bound: high power is not seen beyond this count

ASSUME WindowsAssumption ==
  /\ UpWindow \in 1 .. HistoryLength
  /\ DownWindow \in 1 .. HistoryLength
  /\ HistoryLength \in Nat
ASSUME LimitsAssumption ==
  /\ {QueueLength, CriticalStrides, MinInterval, Timeout, MaxPushes, MaxCritical} \subseteq Nat
  /\ QueueLength > 1
  /\ Elapses \subseteq Nat \ {0} /\ Elapses # {} /\ IsFiniteSet(Elapses)
  /\ OperatorActions \subseteq 2 .. 4

VARIABLES
  registers,   \* hardware_registers, but for the acknowledgement
  ack,         \* hardware_registers[REG_ACK_SAMPLE_RATE]
  written,     \* how long ago each register was written, up to Old
  queue,       \* the commands in command_queue
  history,     \* action_history of the filter
  historyIdx,  \* history_idx
  filtered,    \* current_filtered_action
  critical,    \* consecutive_critical
  announced,   \* pending_writes[0]: how long ago the rate's write was announced, or None
  status,      \* monitor_status, as the last stride reported it
  pushes,      \* how many times the operator has pushed or cleared
  asked,       \* history: the last raw action
  times        \* history: how many times in a row, up to its window

actuatorVars == <<registers, written, queue>>
filterVars == <<history, historyIdx, filtered, asked, times>>
vars == <<actuatorVars, ack, filterVars, critical, announced, status, pushes>>

None == -1
Old == MinInterval + Max(Elapses)
NoAction == 0
ReduceRate == 1

Registers == {"rate", "handover", "gain", "interlock"}
Command(action) ==
  CASE action = 1 -> [register |-> "rate", value |-> 2, age |-> 0]
    [] action = 2 -> [register |-> "handover", value |-> 0, age |-> 0]
    [] action = 3 -> [register |-> "gain", value |-> 204, age |-> 0]
    [] action = 4 -> [register |-> "interlock", value |-> 1, age |-> 0]
Unlock == [register |-> "interlock", value |-> 0, age |-> 0]

Init ==
  /\ registers = [r \in Registers |->
       CASE r \in {"rate", "handover"} -> 1 [] r = "gain" -> 819 [] r = "interlock" -> 0]
  /\ ack = 0
  /\ written = [r \in Registers |-> Old]
  /\ queue = <<>>
  /\ history = [i \in 0 .. HistoryLength - 1 |-> NoAction]
  /\ historyIdx = 0
  /\ filtered = NoAction
  /\ critical = 0
  /\ announced = None
  /\ status = "clean"
  /\ pushes = 0
  /\ asked = NoAction
  /\ times = 0

-----------------------------------------------------------------------------
(***************************************************************************)
(* The actuator.                                                           *)
(***************************************************************************)
\* A slip: the write index never comes round.
PushedBeyond(commands, command) == Append(commands, command)

\* _push_command_jit.  A full ring looks empty.
Pushed(commands, command) ==
  IF Len(commands) + 1 = QueueLength THEN <<>> ELSE Append(commands, command)

Locked(regs) == regs["interlock"] = 1

\* The checks of _process_queue_jit; lock is the interlock as it was before.
Passes(wrote, command, lock) ==
  \/ command.register = "interlock"
  \/ ~lock /\ wrote[command.register] - command.age >= MinInterval

\* _process_queue_jit, of a state of the actuator and a queue.
Processed(state, commands, lock) ==
  FoldLeft(LAMBDA s, c :
             IF Passes(s.written, c, lock)
               THEN [registers |-> [s.registers EXCEPT ![c.register] = c.value],
                     written |-> [s.written EXCEPT ![c.register] = c.age]]
               ELSE s,
           state, commands)

\* A slip: the command is pushed only when the action changes.
OrderedOnce(commands, action) ==
  IF action \in {NoAction, filtered} THEN commands ELSE Pushed(commands, Command(action))

\* The loop pushes its action in every stride that comes to one.
Ordered(commands, action) ==
  IF action = NoAction THEN commands ELSE Pushed(commands, Command(action))

\* What a time that passes does to an age.
Aged(age, d, limit) == IF age = None THEN None ELSE Min({age + d, limit})

-----------------------------------------------------------------------------
(***************************************************************************)
(* The filter.                                                             *)
(***************************************************************************)
WindowOf == [a \in {NoAction, ReduceRate} |-> IF a = NoAction THEN DownWindow ELSE UpWindow]
Debounced == INSTANCE Debounce WITH
  Values <- {NoAction, ReduceRate}, First <- NoAction, Window <- WindowOf,
  settled <- filtered

\* The entry i places before j in the ring of the history.
Back(j, i) == (j - i + HistoryLength) % HistoryLength

\* The filter's history with the raw action in it.
Noted(raw) == [history EXCEPT ![historyIdx] = raw]

\* A slip: the walk back through the ring begins at the next entry.
OneBehind(raw, window) ==
  \A i \in 0 .. window - 1 :
    Noted(raw)[Back(historyIdx + 1, i)] = raw

\* The loop of _evaluate_hysteresis_jit that walks back through the ring.
Consecutive(raw, window) ==
  \A i \in 0 .. window - 1 :
    Noted(raw)[Back(historyIdx, i)] = raw

\* _evaluate_hysteresis_jit: the action that comes out.
Filtered(raw) ==
  IF raw # filtered /\ Consecutive(raw, WindowOf[raw]) THEN raw ELSE filtered

-----------------------------------------------------------------------------
(***************************************************************************)
(* The bench.                                                              *)
(***************************************************************************)
\* A slip: the reduced rate is out of step under high power, too.
DesyncAtAnyRate(high) == high

\* High power puts the full rate out of step.
Desync(high) == high /\ registers["rate"] = 1

CriticalAfter(high) ==
  IF Desync(high) THEN critical + 1 ELSE Max({0, critical - 1})

\* _run_live_bench_stride_jit: the interlock stops every action.
RawAction(high) ==
  IF ~Locked(registers) /\ CriticalAfter(high) >= CriticalStrides
    THEN ReduceRate ELSE NoAction

\* _check_register_acknowledgment_jit: the row that is left, and what it reports.
Checked(regs, age) ==
  CASE age = None \/ regs["rate"] = ack -> [announced |-> None, status |-> "clean"]
    [] age # None /\ regs["rate"] # ack ->
         [announced |-> age, status |-> IF age > Timeout THEN "timeout" ELSE "pending"]

\* run_sweep_step, with the time since the step before.
Stride(high, d) ==
  LET raw == RawAction(high)
      action == Filtered(raw)
      waiting == [i \in DOMAIN queue |-> [queue[i] EXCEPT !.age = @ + d]]
      before == [registers |-> registers,
                 written |-> [r \in Registers |-> Aged(written[r], d, Old)]]
      after == Processed(before, Ordered(waiting, action), Locked(registers))
      seen == Checked(after.registers,
                IF action = ReduceRate THEN 0 ELSE Aged(announced, d, Timeout + 1))
  IN /\ high => critical < MaxCritical
     /\ critical' = CriticalAfter(high)
     /\ history' = Noted(raw)
     /\ historyIdx' = (historyIdx + 1) % HistoryLength
     /\ filtered' = action
     /\ asked' = raw
     /\ times' = Debounced!InARow(raw)
     /\ registers' = after.registers
     /\ written' = after.written
     /\ queue' = <<>>
     /\ announced' = seen.announced
     /\ status' = seen.status
     /\ UNCHANGED <<ack, pushes>>

-----------------------------------------------------------------------------
\* push_mitigation_action, called by the operator.
Push(action) ==
  /\ pushes < MaxPushes
  /\ pushes' = pushes + 1
  /\ queue' = Pushed(queue, Command(action))
  /\ UNCHANGED <<registers, written, ack, filterVars, critical, announced, status>>

\* clear_safety_interlock: the whole queue is processed past the interlock.
ClearInterlock ==
  LET after == Processed([registers |-> registers, written |-> written],
                         Pushed(queue, Unlock), FALSE)
  IN /\ pushes < MaxPushes
     /\ pushes' = pushes + 1
     /\ registers' = after.registers
     /\ written' = after.written
     /\ queue' = <<>>
     /\ UNCHANGED <<ack, filterVars, critical, announced, status>>

\* The hardware reads back the rate it runs at.
Acknowledge ==
  /\ ack # registers["rate"]
  /\ ack' = registers["rate"]
  /\ UNCHANGED <<actuatorVars, filterVars, critical, announced, status, pushes>>

Sweep == \E high \in BOOLEAN, d \in Elapses : Stride(high, d)

Next ==
  \/ Sweep
  \/ \E action \in OperatorActions : Push(action)
  \/ ClearInterlock
  \/ Acknowledge

Spec == Init /\ [][Next]_vars

\* The bench keeps striding.
FairSpec == Spec /\ WF_vars(Sweep)

-----------------------------------------------------------------------------
\* Registers hold values of their own, ages stay within their limits, and the
\* loop's own action is to reduce the rate or none.
TypeOK ==
  /\ registers \in [Registers -> {0, 1, 2, 204, 819}]
  /\ registers["rate"] \in {1, 2} /\ registers["interlock"] \in {0, 1}
  /\ ack \in 0 .. 2
  /\ written \in [Registers -> 0 .. Old]
  /\ queue \in Seq([register : Registers, value : Nat, age : 0 .. Max(Elapses)])
  /\ Len(queue) < QueueLength
  /\ history \in [0 .. HistoryLength - 1 -> {NoAction, ReduceRate}]
  /\ historyIdx \in 0 .. HistoryLength - 1
  /\ filtered \in {NoAction, ReduceRate}
  /\ critical \in 0 .. MaxCritical
  /\ announced \in {None} \cup 0 .. Timeout + 1
  /\ status \in {"clean", "pending", "timeout"}
  /\ pushes \in 0 .. MaxPushes
  /\ asked \in {NoAction, ReduceRate}
  /\ times \in 0 .. Max({UpWindow, DownWindow})

\* The filter's output changes when its window of strides in a row has asked for the
\* other action, in the last of them, and never otherwise, wherever in the ring of
\* the history the window lies.
FilterIsDebounced == Debounced!Spec

\* A reduction the filter has decided on is written in the end, unless the strides stop
\* asking for it, although the ring may come round and drop it or the interlock refuse
\* it: the operator's calls are finitely many.
ReductionIsWritten ==
  filtered = ReduceRate ~> registers["rate"] = 2 \/ filtered = NoAction

\* A pending row is cleared or reported as stalled, although each stride that still asks
\* for the reduction announces it anew and so restarts the clock.
PendingIsReported == announced # None ~> announced = None \/ status = "timeout"

\* A decided reduction hangs neither on its way to the register nor in the monitor.
\* That its row is cleared does not mean that it was written: the monitor compares the
\* register with its acknowledgement, and never with the value that was asked for.
ReductionSettles == ReductionIsWritten /\ PendingIsReported

-----------------------------------------------------------------------------
(***************************************************************************)
(* The inductive invariant behind FilterIsDebounced: what the last entries *)
(* of the ring are.                                                        *)
(***************************************************************************)
FilterInv ==
  /\ history \in [0 .. HistoryLength - 1 -> {NoAction, ReduceRate}]
  /\ historyIdx \in 0 .. HistoryLength - 1
  /\ filtered \in {NoAction, ReduceRate}
  /\ asked \in {NoAction, ReduceRate}
  /\ times \in 0 .. WindowOf[asked]
  /\ history[Back(historyIdx, 1)] = asked
  /\ \A i \in 1 .. times : history[Back(historyIdx, i)] = asked
  /\ asked # filtered =>
       times < WindowOf[asked] /\ history[Back(historyIdx, times + 1)] # asked
=============================================================================
