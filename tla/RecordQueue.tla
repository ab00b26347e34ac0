----------------------------- MODULE RecordQueue -----------------------------
(***************************************************************************)
(* What a shared telemetry bus promises, with no ring, no indices and no   *)
(* copying: records are numbered in the order they are published, and each *)
(* one is handed, once and in that order, to whichever consumer asks next. *)
(*                                                                         *)
(* TelemetryBus.tla (src/backend/src/satcom_core/ipc_shared_bus.py) is     *)
(* shown to implement this specification when the producer is paced.       *)
(***************************************************************************)
EXTENDS Naturals, Sequences

CONSTANT Consumers

VARIABLES
  published,  \* how many records have been published so far
  handed,     \* how many of them have been handed out
  got         \* got[c]: the records handed to c, in the order it asked

queueVars == <<published, handed, got>>

Init ==
  /\ published = 0
  /\ handed = 0
  /\ got = [c \in Consumers |-> <<>>]

Put ==
  /\ published' = published + 1
  /\ UNCHANGED <<handed, got>>

Get(c) ==
  /\ handed < published
  /\ handed' = handed + 1
  /\ got' = [got EXCEPT ![c] = Append(@, handed + 1)]
  /\ UNCHANGED published

Next == Put \/ \E c \in Consumers : Get(c)

Spec == Init /\ [][Next]_queueVars
=============================================================================
