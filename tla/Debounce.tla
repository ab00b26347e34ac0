-------------------------------- MODULE Debounce -------------------------------
(***************************************************************************)
(* What a debounced output promises, whatever it is made of: it takes a    *)
(* value when the value has been asked for Window[v] times in a row, at    *)
(* that very time, and changes for no other reason.                        *)
(***************************************************************************)
EXTENDS Integers

CONSTANTS
  Values,  \* what can be asked for
  First,   \* the value at the start
  Window   \* Window[v]: how many times in a row v must be asked for

VARIABLES
  settled,  \* the output
  asked,    \* the value asked for last
  times     \* how many times in a row, up to its window

vars == <<settled, asked, times>>

Init ==
  /\ settled = First
  /\ asked = First
  /\ times = 0

InARow(v) ==
  CASE v # asked -> 1
    [] v = asked /\ times < Window[v] -> times + 1
    [] OTHER -> times

Ask(v) ==
  /\ asked' = v
  /\ times' = InARow(v)
  /\ settled' = IF InARow(v) >= Window[v] THEN v ELSE settled

Next == \E v \in Values : Ask(v)

Spec == Init /\ [][Next]_vars
=============================================================================
