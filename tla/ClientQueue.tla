------------------------------ MODULE ClientQueue ------------------------------
(***************************************************************************)
(* The bounded queue each telemetry client has, with retention of critical *)
(* alerts: PriorityClientQueue (src/backend/src/satcom_core/               *)
(* telemetry_dispatcher.py) for dictionaries and BinaryPriorityQueue       *)
(* (hardened_websocket_runtime.py) for encoded frames, which read the same *)
(* threat state in two ways and otherwise are the same code.               *)
(*                                                                         *)
(* A frame is a record with a field critical (threat_state == 3).  A box   *)
(* is one client's queue with its two counters.                            *)
(***************************************************************************)
EXTENDS Integers, SequencesExt, FiniteSetsExt

CONSTANT Capacity  \* max_capacity

ASSUME CapacityAssumption == Capacity \in Nat \ {0}

EmptyBox == [queue |-> <<>>, drops |-> 0, criticalDrops |-> 0]

RoutineIn(queue) == {i \in DOMAIN queue : ~queue[i].critical}

\* A slip: frames are queued at the wrong end.
AcceptInFront(box, frame) == [box EXCEPT !.queue = <<frame>> \o @]

Accept(box, frame) == [box EXCEPT !.queue = Append(@, frame)]

\* A slip: the oldest frame gives way, whatever it is.
DisplaceOldest(box, frame) ==
  [box EXCEPT !.queue = Append(Tail(@), frame), !.drops = @ + 1]

\* The oldest routine frame gives way to a critical one.
DisplaceRoutine(box, frame) ==
  [box EXCEPT !.queue = Append(RemoveAt(@, Min(RoutineIn(@))), frame),
              !.drops = @ + 1]

\* Every queued frame is critical: the oldest one gives way.
DisplaceCritical(box, frame) ==
  [box EXCEPT !.queue = Append(Tail(@), frame),
              !.criticalDrops = @ + 1]

\* A slip: the frame that gave way is not counted.
RefuseUncounted(box) == box

\* A routine frame that finds the queue full is not queued.
Refuse(box) == [box EXCEPT !.drops = @ + 1]

Push(box, frame) ==
  CASE Len(box.queue) < Capacity -> Accept(box, frame)
    [] Len(box.queue) >= Capacity /\ ~frame.critical -> Refuse(box)
    [] Len(box.queue) >= Capacity /\ frame.critical /\ RoutineIn(box.queue) # {} ->
         DisplaceRoutine(box, frame)
    [] OTHER -> DisplaceCritical(box, frame)

\* pop of a queue that is not empty.
Popped(box) == [box EXCEPT !.queue = Tail(@)]
=============================================================================
