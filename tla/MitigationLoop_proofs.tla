------------------------- MODULE MitigationLoop_proofs -------------------------
(***************************************************************************)
(* Proofs about MitigationLoop: that its filter is a debounced output, for *)
(* every pair of windows and every length of the history that holds them,  *)
(* and what the registers, the interlock and the rate limit keep, for      *)
(* every command ring, interval and time between strides.                  *)
(***************************************************************************)
EXTENDS MitigationLoop, CommonLemmas

\* What the filter is asked for and puts out.
Actions == {NoAction, ReduceRate}

\* The two windows, and the history that is long enough for them.
LEMMA Windows ==
  /\ HistoryLength \in Nat \ {0}
  /\ \A a \in Actions : WindowOf[a] \in 1 .. HistoryLength
BY WindowsAssumption DEF WindowOf, Actions, NoAction, ReduceRate

\* Walking back through the ring comes round at most once.
LEMMA BackIs ==
  ASSUME NEW j \in 0 .. HistoryLength - 1, NEW i \in 0 .. HistoryLength
  PROVE  Back(j, i) = IF i <= j THEN j - i ELSE (j - i) + HistoryLength
<1> DEFINE a == j - i + HistoryLength
           r == a % HistoryLength
           q == a \div HistoryLength
           s == IF i <= j THEN j - i ELSE (j - i) + HistoryLength
           k == IF i <= j THEN 1 ELSE 0
<1>1. HistoryLength \in Nat \ {0} /\ a \in Int /\ s \in 0 .. HistoryLength - 1 /\ k \in Int
  BY Windows
<1>2. r \in 0 .. HistoryLength - 1 /\ q \in Int /\ a = (HistoryLength * q) + r
  BY <1>1, DivMod
<1>3. a = (HistoryLength * k) + s
  BY <1>1
<1> HIDE DEF a, r, q, s, k
<1>4. r = s
  BY <1>1, <1>2, <1>3, ModUnique
<1> QED BY <1>4 DEF Back, a, r, s

\* The index moves on to the next entry of the ring.
LEMMA IndexMovesOn ==
  ASSUME NEW j \in 0 .. HistoryLength - 1
  PROVE  (j + 1) % HistoryLength = IF j = HistoryLength - 1 THEN 0 ELSE j + 1
<1> DEFINE a == j + 1
           r == a % HistoryLength
           q == a \div HistoryLength
           s == IF j = HistoryLength - 1 THEN 0 ELSE j + 1
           k == IF j = HistoryLength - 1 THEN 1 ELSE 0
<1>1. HistoryLength \in Nat \ {0} /\ a \in Int /\ s \in 0 .. HistoryLength - 1 /\ k \in Int
  BY Windows
<1>2. r \in 0 .. HistoryLength - 1 /\ q \in Int /\ a = (HistoryLength * q) + r
  BY <1>1, DivMod
<1>3. a = (HistoryLength * k) + s
  BY <1>1
<1> HIDE DEF a, r, q, s, k
<1>4. r = s
  BY <1>1, <1>2, <1>3, ModUnique
<1> QED BY <1>4 DEF a, r, s

\* Noting an action replaces the oldest entry and leaves the others.
LEMMA NotedEntries ==
  ASSUME FilterInv, NEW raw \in Actions
  PROVE  /\ Noted(raw) \in [0 .. HistoryLength - 1 -> Actions]
         /\ Noted(raw)[Back(historyIdx, 0)] = raw
         /\ \A i \in 1 .. HistoryLength - 1 :
              Noted(raw)[Back(historyIdx, i)] = history[Back(historyIdx, i)]
<1>1. historyIdx \in 0 .. HistoryLength - 1 /\ HistoryLength \in Nat \ {0}
      /\ history \in [0 .. HistoryLength - 1 -> Actions]
  BY Windows DEF FilterInv, Actions
<1>2. Noted(raw) \in [0 .. HistoryLength - 1 -> Actions]
  BY <1>1 DEF Noted
<1>3. Back(historyIdx, 0) = historyIdx
  BY <1>1, BackIs
<1>4. ASSUME NEW i \in 1 .. HistoryLength - 1
      PROVE  Back(historyIdx, i) \in 0 .. HistoryLength - 1 /\ Back(historyIdx, i) # historyIdx
  <2>1. i \in 0 .. HistoryLength
    BY <1>1
  <2>2. Back(historyIdx, i) =
          IF i <= historyIdx THEN historyIdx - i ELSE (historyIdx - i) + HistoryLength
    BY <1>1, <2>1, BackIs
  <2> QED BY <1>1, <2>2
<1> QED BY <1>1, <1>2, <1>3, <1>4 DEF Noted

\* What was i entries back from the next index is i - 1 back from this one.
LEMMA MovedBack ==
  ASSUME FilterInv, NEW i \in 1 .. HistoryLength
  PROVE  Back((historyIdx + 1) % HistoryLength, i) = Back(historyIdx, i - 1)
<1>1. historyIdx \in 0 .. HistoryLength - 1 /\ HistoryLength \in Nat \ {0}
  BY Windows DEF FilterInv
<1> DEFINE j == (historyIdx + 1) % HistoryLength
<1>2. j = IF historyIdx = HistoryLength - 1 THEN 0 ELSE historyIdx + 1
  BY <1>1, IndexMovesOn
<1> HIDE DEF j
<1>3. j \in 0 .. HistoryLength - 1
  BY <1>1, <1>2
<1>4. Back(j, i) = IF i <= j THEN j - i ELSE (j - i) + HistoryLength
  BY <1>3, BackIs
<1>5. i - 1 \in 0 .. HistoryLength
  BY <1>1
<1>6. Back(historyIdx, i - 1) =
        IF i - 1 <= historyIdx THEN historyIdx - (i - 1) ELSE (historyIdx - (i - 1)) + HistoryLength
  BY <1>1, <1>5, BackIs
<1>7. Back(j, i) = Back(historyIdx, i - 1)
  BY <1>1, <1>2, <1>4, <1>6
<1> QED BY <1>7 DEF j

\* The walk back finds a window full of the action that is not in force exactly
\* when it has been asked for that many times in a row.
LEMMA WalkCounts ==
  ASSUME FilterInv, NEW raw \in Actions, raw # filtered
  PROVE  Consecutive(raw, WindowOf[raw]) <=> Debounced!InARow(raw) >= WindowOf[raw]
<1> DEFINE W == WindowOf[raw]
<1>1. W \in 1 .. HistoryLength /\ HistoryLength \in Nat \ {0}
  BY Windows
<1>2. asked \in Actions /\ filtered \in Actions
  BY DEF FilterInv, Actions
<1> HIDE DEF W
<1>3. CASE raw # asked
  <2>1. Debounced!InARow(raw) = 1
    BY <1>3 DEF Debounced!InARow
  <2>2. CASE W = 1
    <3>1. Consecutive(raw, W)
      BY <2>2, NotedEntries DEF Consecutive
    <3> QED BY <2>1, <2>2, <3>1 DEF W
  <2>3. CASE W > 1
    <3>1. 1 \in 1 .. HistoryLength - 1 /\ 1 \in 0 .. W - 1
      BY <1>1, <2>3
    <3>2. Noted(raw)[Back(historyIdx, 1)] = asked
      BY <3>1, NotedEntries DEF FilterInv
    <3>3. ~Consecutive(raw, W)
      BY <1>3, <3>1, <3>2 DEF Consecutive
    <3> QED BY <1>1, <2>1, <2>3, <3>3 DEF W
  <2> QED BY <1>1, <2>2, <2>3
<1>4. CASE raw = asked
  <2>1. /\ times \in Nat /\ times < W
        /\ history[Back(historyIdx, times + 1)] # raw
        /\ \A i \in 1 .. times : history[Back(historyIdx, i)] = raw
    BY <1>4 DEF FilterInv, W
  <2>2. Debounced!InARow(raw) = times + 1
    BY <1>4, <2>1 DEF Debounced!InARow, W
  <2>3. CASE times + 1 >= W
    <3>1. ASSUME NEW i \in 0 .. W - 1 PROVE Noted(raw)[Back(historyIdx, i)] = raw
      <4>1. CASE i = 0
        BY <4>1, NotedEntries
      <4>2. CASE i # 0
        <5>1. i \in 1 .. HistoryLength - 1 /\ i \in 1 .. times
          BY <1>1, <2>1, <2>3, <4>2
        <5> QED BY <2>1, <5>1, NotedEntries
      <4> QED BY <4>1, <4>2
    <3>2. Consecutive(raw, W)
      BY <3>1 DEF Consecutive
    <3> QED BY <2>2, <2>3, <3>2 DEF W
  <2>4. CASE times + 1 < W
    <3>1. times + 1 \in 1 .. HistoryLength - 1 /\ times + 1 \in 0 .. W - 1
      BY <1>1, <2>1, <2>4
    <3>2. Noted(raw)[Back(historyIdx, times + 1)] # raw
      BY <2>1, <3>1, NotedEntries
    <3>3. ~Consecutive(raw, W)
      BY <3>1, <3>2 DEF Consecutive
    <3> QED BY <1>1, <2>1, <2>2, <2>4, <3>3 DEF W
  <2> QED BY <1>1, <2>1, <2>3, <2>4
<1> QED BY <1>3, <1>4

\* The output of the filter is that of the debounced one.
LEMMA FiltersAlike ==
  ASSUME FilterInv, NEW raw \in Actions
  PROVE  Filtered(raw) = IF Debounced!InARow(raw) >= WindowOf[raw] THEN raw ELSE filtered
BY WalkCounts DEF Filtered

\* At the start the whole ring holds no action.
LEMMA FilterInit == Init => FilterInv
<1> SUFFICES ASSUME Init PROVE FilterInv
  OBVIOUS
<1>1. HistoryLength \in Nat \ {0} /\ WindowOf[NoAction] \in 1 .. HistoryLength
  BY Windows DEF Actions
<1>2. 0 \in 0 .. HistoryLength - 1 /\ Back(0, 1) \in 0 .. HistoryLength - 1
  BY <1>1, BackIs
<1> QED BY <1>1, <1>2 DEF Init, FilterInv

\* What a stride does to the filter.
LEMMA FilterStep ==
  ASSUME FilterInv, NEW raw \in Actions,
         history' = Noted(raw), historyIdx' = (historyIdx + 1) % HistoryLength,
         filtered' = Filtered(raw), asked' = raw, times' = Debounced!InARow(raw)
  PROVE  FilterInv' /\ Debounced!Ask(raw)
<1> DEFINE W == WindowOf[raw]
<1>1. /\ HistoryLength \in Nat \ {0} /\ W \in 1 .. HistoryLength
      /\ historyIdx \in 0 .. HistoryLength - 1
      /\ asked \in Actions /\ filtered \in Actions
  BY Windows DEF FilterInv, Actions
<1> HIDE DEF W
<1>2. historyIdx' \in 0 .. HistoryLength - 1
  BY <1>1, IndexMovesOn
<1>3. filtered' = IF times' >= W THEN raw ELSE filtered
  BY FiltersAlike DEF W
<1>4. /\ history' \in [0 .. HistoryLength - 1 -> Actions]
      /\ history'[Back(historyIdx', 1)] = raw
      /\ \A i \in 2 .. HistoryLength :
           history'[Back(historyIdx', i)] = history[Back(historyIdx, i - 1)]
  <2>1. ASSUME NEW i \in 2 .. HistoryLength
        PROVE  history'[Back(historyIdx', i)] = history[Back(historyIdx, i - 1)]
    <3>1. i \in 1 .. HistoryLength /\ i - 1 \in 1 .. HistoryLength - 1
      BY <1>1
    <3> QED BY <3>1, MovedBack, NotedEntries
  <2>2. 1 \in 1 .. HistoryLength /\ 1 - 1 = 0
    BY <1>1
  <2>3. Back(historyIdx', 1) = Back(historyIdx, 0)
    BY <2>2, MovedBack
  <2> QED BY <2>1, <2>3, NotedEntries
<1>5. /\ times' \in 0 .. W
      /\ \A i \in 1 .. times' : history'[Back(historyIdx', i)] = raw
      /\ raw # filtered' => times' < W /\ history'[Back(historyIdx', times' + 1)] # raw
  <2>1. CASE raw # asked
    <3>1. times' = 1
      BY <2>1 DEF Debounced!InARow
    <3>2. ASSUME raw # filtered' PROVE times' < W /\ history'[Back(historyIdx', times' + 1)] # raw
      <4>1. 1 < W
        BY <1>1, <1>3, <3>1, <3>2
      <4>2. 2 \in 2 .. HistoryLength /\ 2 - 1 = 1
        BY <1>1, <4>1
      <4>3. history'[Back(historyIdx', 2)] = asked
        BY <1>4, <4>2 DEF FilterInv
      <4>4. times' + 1 = 2
        BY <3>1
      <4> QED BY <2>1, <3>1, <4>1, <4>3, <4>4
    <3> QED BY <1>1, <1>4, <3>1, <3>2
  <2>2. CASE raw = asked
    <3>1. /\ times \in Nat /\ times <= W
          /\ \A i \in 1 .. times : history[Back(historyIdx, i)] = raw
          /\ raw # filtered => times < W /\ history[Back(historyIdx, times + 1)] # raw
      BY <1>1, <2>2 DEF FilterInv, W
    <3>2. times' = IF times < W THEN times + 1 ELSE times
      BY <2>2 DEF Debounced!InARow, W
    <3>3. ASSUME NEW i \in 1 .. times' PROVE history'[Back(historyIdx', i)] = raw
      <4>1. CASE i = 1
        BY <1>4, <4>1
      <4>2. CASE i # 1
        <5>1. i \in 2 .. HistoryLength /\ i - 1 \in 1 .. times
          BY <1>1, <3>1, <3>2, <4>2
        <5> QED BY <1>4, <3>1, <5>1
      <4> QED BY <4>1, <4>2
    <3>4. ASSUME raw # filtered' PROVE times' < W /\ history'[Back(historyIdx', times' + 1)] # raw
      <4>1. times' < W /\ raw # filtered
        BY <1>1, <1>3, <3>1, <3>2, <3>4
      <4>2. times' = times + 1
        BY <1>1, <3>1, <3>2, <4>1
      <4>3. times' + 1 \in 2 .. HistoryLength /\ (times' + 1) - 1 = times + 1
        BY <1>1, <3>1, <4>1, <4>2
      <4> QED BY <1>4, <3>1, <4>1, <4>3
    <3> QED BY <1>1, <3>1, <3>2, <3>3, <3>4
  <2> QED BY <2>1, <2>2
<1>6. FilterInv'
  BY <1>1, <1>2, <1>3, <1>4, <1>5 DEF FilterInv, Actions, W
<1>7. Debounced!Ask(raw)
  BY FiltersAlike DEF Debounced!Ask
<1> QED BY <1>6, <1>7

\* Every step of the loop is a step of the debounced output or leaves it alone.
LEMMA LoopStep ==
  ASSUME FilterInv, [Next]_vars
  PROVE  FilterInv' /\ [Debounced!Next]_(Debounced!vars)
<1>1. ASSUME NEW high \in BOOLEAN, NEW d \in Elapses, Stride(high, d)
      PROVE  FilterInv' /\ [Debounced!Next]_(Debounced!vars)
  <2> DEFINE raw == RawAction(high)
  <2>1. raw \in Actions
    BY DEF RawAction, Actions
  <2>2. /\ history' = Noted(raw) /\ historyIdx' = (historyIdx + 1) % HistoryLength
        /\ filtered' = Filtered(raw) /\ asked' = raw /\ times' = Debounced!InARow(raw)
    BY <1>1 DEF Stride
  <2> HIDE DEF raw
  <2>3. FilterInv' /\ Debounced!Ask(raw)
    BY <2>1, <2>2, FilterStep
  <2> QED BY <2>1, <2>3 DEF Debounced!Next, Actions
<1>2. CASE UNCHANGED filterVars
  BY <1>2 DEF filterVars, FilterInv, Debounced!vars
<1>3. ASSUME NEW action \in OperatorActions, Push(action) PROVE UNCHANGED filterVars
  BY <1>3 DEF Push
<1>4. ClearInterlock \/ Acknowledge \/ UNCHANGED vars => UNCHANGED filterVars
  BY DEF ClearInterlock, Acknowledge, vars
<1> QED BY <1>1, <1>2, <1>3, <1>4 DEF Next, Sweep

\* The filter of the mitigation loop, a walk back through a ring of raw actions,
\* is a debounced output: it changes to the other action exactly in the last
\* stride of a window in which every stride has asked for it.
THEOREM FilterDebounces == Spec => FilterIsDebounced
<1>1. Init => Debounced!Init
  BY DEF Init, Debounced!Init
<1> QED BY <1>1, FilterInit, LoopStep, PTL DEF Spec, FilterIsDebounced, Debounced!Spec

-----------------------------------------------------------------------------
(***************************************************************************)
(* The actuator: what is true of its registers after each command of a     *)
(* queue is true when the queue has been processed.                        *)
(***************************************************************************)

\* What one command of the queue does to a state of the actuator.
Done(s, c, lock) ==
  IF Passes(s.written, c, lock)
    THEN [registers |-> [s.registers EXCEPT ![c.register] = c.value],
          written |-> [s.written EXCEPT ![c.register] = c.age]]
    ELSE s

\* No command in C leads from a state in V out of it.
Keeps(V, C, lock) == \A s \in V, c \in C : Done(s, c, lock) \in V

\* Then no queue of such commands does.
LEMMA ProcessedKeeps ==
  ASSUME NEW V, NEW C, NEW lock, Keeps(V, C, lock),
         NEW base \in V, NEW n \in Nat, NEW commands \in [1 .. n -> C]
  PROVE  Processed(base, commands, lock) \in V
<1> DEFINE S == 1 .. n
           step == [p \in S \X V |-> Done(p[2], commands[p[1]], lock)]
           it == CHOOSE g : g = [s \in SUBSET S |->
                   IF s = {} THEN base ELSE Done(g[s \ {Max(s)}], commands[Max(s)], lock)]
<1>1. DOMAIN commands = S /\ 1 .. 0 = {}
  OBVIOUS
<1>2. Processed(base, commands, lock) = it[S]
  BY <1>1 DEF Processed, Done, FoldLeft, MapThenFoldSet
<1>3. step \in [S \X V -> V]
  BY DEF Keeps
<1>4. PICK t \in [SUBSET S -> V] : \A s \in SUBSET S :
        t[s] = IF s = {} THEN base ELSE step[<<Max(s), t[s \ {Max(s)}]>>]
  <2>1. PICK f : f = step
    OBVIOUS
  <2>2. f \in [(1 .. n) \X V -> V]
    BY <1>3, <2>1
  <2> HIDE DEF step
  <2>3. \E t \in [SUBSET (1 .. n) -> V] : IsLeftTable(t, n, base, f)
    BY <2>2, FoldLeftExists
  <2> QED BY <2>1, <2>3 DEF IsLeftTable
<1>5. ASSUME NEW s \in SUBSET S, s # {}
      PROVE  t[s] = Done(t[s \ {Max(s)}], commands[Max(s)], lock)
  <2>1. Max(s) \in S
    <3>1. s \in SUBSET (0 .. n)
      OBVIOUS
    <3> QED BY <1>5, <3>1, LastOf
  <2>2. s \ {Max(s)} \in SUBSET S
    OBVIOUS
  <2>3. <<Max(s), t[s \ {Max(s)}]>> \in S \X V
    BY <2>1, <2>2
  <2> QED BY <1>4, <1>5, <2>3
<1> HIDE DEF step
<1>6. t = [s \in SUBSET S |->
             IF s = {} THEN base ELSE Done(t[s \ {Max(s)}], commands[Max(s)], lock)]
  BY <1>4, <1>5
<1>7. it = [s \in SUBSET S |->
              IF s = {} THEN base ELSE Done(it[s \ {Max(s)}], commands[Max(s)], lock)]
  BY <1>6
<1>8. PICK h : h = it
  OBVIOUS
<1> HIDE DEF it
<1>9. \A s \in SUBSET S :
        h[s] = IF s = {} THEN base ELSE Done(h[s \ {Max(s)}], commands[Max(s)], lock)
  BY <1>7, <1>8
<1>10. ASSUME NEW k \in 1 .. n, h[1 .. k - 1] \in V PROVE h[1 .. k] \in V
  <2>1. /\ Max(1 .. k) = k /\ (1 .. k) \ {k} = 1 .. k - 1 /\ 1 .. k # {}
        /\ 1 .. k \in SUBSET S
    BY PrefixLast
  <2>2. h[1 .. k] = Done(h[1 .. k - 1], commands[k], lock)
    BY <1>9, <2>1
  <2> QED BY <1>10, <2>2 DEF Keeps
<1>11. \A k \in 0 .. n : h[1 .. k] \in V
  <2> DEFINE Bad == {k \in 0 .. n : h[1 .. k] \notin V}
  <2> SUFFICES ASSUME Bad # {} PROVE FALSE
    OBVIOUS
  <2>1. Bad \in SUBSET Nat
    OBVIOUS
  <2>2. PICK k \in Bad : \A j \in Bad : k <= j
    <3> HIDE DEF Bad
    <3> QED BY <2>1, LeastNumber
  <2>3. k \in 1 .. n
    <3>1. h[{}] = base
      BY <1>9
    <3> QED BY <1>1, <3>1
  <2>4. k - 1 \in 0 .. n /\ k - 1 \notin Bad
    BY <2>2, <2>3
  <2> QED BY <1>10, <2>3, <2>4
<1> QED BY <1>2, <1>8, <1>11

\* The times that pass have a longest; limits and lengths are numbers.
LEMMA Limits ==
  /\ Max(Elapses) \in Nat /\ \A d \in Elapses : d \in 1 .. Max(Elapses)
  /\ {QueueLength, CriticalStrides, MinInterval, Timeout, MaxPushes, MaxCritical} \subseteq Nat
  /\ QueueLength > 1
  /\ Old \in Nat /\ Old = MinInterval + Max(Elapses)
<1>1. Elapses \in SUBSET Nat /\ Elapses # {} /\ IsFiniteSet(Elapses)
      /\ \A d \in Elapses : d # 0
  BY LimitsAssumption
<1>2. PICK M \in Nat : Elapses \in SUBSET (0 .. M)
  BY <1>1, FiniteBound
<1>3. Max(Elapses) \in Elapses /\ \A d \in Elapses : d <= Max(Elapses)
  BY <1>1, <1>2, LastOf
<1>4. PICK m \in Nat : m = Max(Elapses)
  BY <1>1, <1>3
<1>5. \A d \in Elapses : d \in 1 .. m
  BY <1>1, <1>3, <1>4
<1> QED BY <1>4, <1>5, LimitsAssumption DEF Old

\* An age grows with the time that passes, up to its limit.
LEMMA AgedIs ==
  ASSUME NEW age \in Nat, NEW d \in Nat, NEW limit \in Nat
  PROVE  Aged(age, d, limit) = IF age + d <= limit THEN age + d ELSE limit
<1> DEFINE S == {age + d, limit}
<1>1. Min(S) \in S /\ \A n \in S : Min(S) <= n
  <2>1. S \in SUBSET Nat /\ S # {}
    OBVIOUS
  <2> HIDE DEF S
  <2> QED BY <2>1, LeastOf
<1>2. Aged(age, d, limit) = Min(S)
  BY DEF Aged, None
<1>3. PICK m : m = Min(S)
  OBVIOUS
<1>4. (m = age + d \/ m = limit) /\ m <= age + d /\ m <= limit
  BY <1>1, <1>3
<1> QED BY <1>2, <1>3, <1>4

-----------------------------------------------------------------------------
\* What the registers can hold.
Contents == {0, 1, 2, 204, 819}

\* The states of the actuator, with its registers' values and the ages of their writes.
States ==
  {s \in [registers : [Registers -> Contents], written : [Registers -> 0 .. Old]] :
     s.registers["rate"] \in {1, 2} /\ s.registers["interlock"] \in {0, 1}}

\* The commands that anybody pushes, up to n units of time after that.
Commands(n) ==
  {c \in [register : Registers, value : {0, 1, 2, 204}, age : 0 .. n] :
     /\ c.register = "rate" => c.value \in {1, 2}
     /\ c.register = "interlock" => c.value \in {0, 1}}

\* The actuator's registers but for the interlock.
Guarded == Registers \ {"interlock"}

\* In s the guarded registers are as they were in b.
Untouched(b) ==
  {s \in States : \A r \in Guarded :
     s.registers[r] = b.registers[r] /\ s.written[r] = b.written[r]}

\* A guarded register that has been written since b had not been for MinInterval.
Paced(b) ==
  {s \in States : \A r \in Guarded :
     \/ s.registers[r] = b.registers[r] /\ s.written[r] = b.written[r]
     \/ b.written[r] - s.written[r] >= MinInterval}

\* A command writes one register, or is refused.
LEMMA DoneIs ==
  ASSUME NEW s \in States, NEW c \in Commands(Max(Elapses)), NEW lock
  PROVE  /\ Done(s, c, lock) \in States
         /\ \A r \in Registers :
              \/ /\ Done(s, c, lock).registers[r] = s.registers[r]
                 /\ Done(s, c, lock).written[r] = s.written[r]
              \/ /\ r = c.register /\ Passes(s.written, c, lock)
                 /\ Done(s, c, lock).written[r] = c.age
<1>1. /\ s.registers \in [Registers -> Contents] /\ s.written \in [Registers -> 0 .. Old]
      /\ s.registers["rate"] \in {1, 2} /\ s.registers["interlock"] \in {0, 1}
      /\ s = [registers |-> s.registers, written |-> s.written]
  BY DEF States
<1>2. /\ c.register \in Registers /\ c.value \in Contents /\ c.age \in 0 .. Old
      /\ c.register = "rate" => c.value \in {1, 2}
      /\ c.register = "interlock" => c.value \in {0, 1}
  BY Limits DEF Commands, Contents
<1>3. CASE ~Passes(s.written, c, lock)
  BY <1>3 DEF Done
<1>4. CASE Passes(s.written, c, lock)
  <2>1. PICK regs : regs = [s.registers EXCEPT ![c.register] = c.value]
    OBVIOUS
  <2>2. PICK wrote : wrote = [s.written EXCEPT ![c.register] = c.age]
    OBVIOUS
  <2>3. /\ regs \in [Registers -> Contents] /\ wrote \in [Registers -> 0 .. Old]
        /\ regs["rate"] \in {1, 2} /\ regs["interlock"] \in {0, 1}
    BY <1>1, <1>2, <2>1, <2>2 DEF Registers
  <2>4. \A r \in Registers :
          \/ regs[r] = s.registers[r] /\ wrote[r] = s.written[r]
          \/ r = c.register /\ wrote[r] = c.age
    BY <1>1, <1>2, <2>1, <2>2
  <2>5. Done(s, c, lock) = [registers |-> regs, written |-> wrote]
    BY <1>4, <2>1, <2>2 DEF Done
  <2>6. Done(s, c, lock).registers = regs /\ Done(s, c, lock).written = wrote
    BY <2>5
  <2>7. Done(s, c, lock) \in States
    BY <2>3, <2>5 DEF States
  <2> QED BY <1>4, <2>4, <2>6, <2>7
<1> QED BY <1>3, <1>4

\* No command leads out of the states; with the interlock set none touches a guarded
\* register, and no register is written too soon.
LEMMA CommandsKeep ==
  ASSUME NEW b \in States
  PROVE  /\ \A lock : Keeps(States, Commands(Max(Elapses)), lock)
         /\ \A lock : lock = TRUE => Keeps(Untouched(b), Commands(Max(Elapses)), lock)
         /\ \A lock : Keeps(Paced(b), Commands(Max(Elapses)), lock)
<1> DEFINE C == Commands(Max(Elapses))
<1>1. ASSUME NEW lock PROVE Keeps(States, C, lock)
  BY DoneIs DEF Keeps
<1>2. ASSUME NEW lock, lock = TRUE, NEW s \in Untouched(b), NEW c \in C
      PROVE  Done(s, c, lock) \in Untouched(b)
  <2>1. s \in States /\ \A r \in Guarded :
          s.registers[r] = b.registers[r] /\ s.written[r] = b.written[r]
    BY DEF Untouched
  <2>2. PICK t : t = Done(s, c, lock)
    OBVIOUS
  <2>3. t \in States /\ \A r \in Registers :
          \/ t.registers[r] = s.registers[r] /\ t.written[r] = s.written[r]
          \/ r = c.register /\ Passes(s.written, c, lock)
    BY <2>1, <2>2, DoneIs
  <2>4. Passes(s.written, c, lock) => c.register = "interlock"
    BY <1>2 DEF Passes
  <2>5. \A r \in Guarded : t.registers[r] = s.registers[r] /\ t.written[r] = s.written[r]
    BY <2>3, <2>4 DEF Guarded
  <2> QED BY <2>1, <2>2, <2>3, <2>5 DEF Untouched
<1>3. ASSUME NEW lock, NEW s \in Paced(b), NEW c \in C PROVE Done(s, c, lock) \in Paced(b)
  <2>1. s \in States /\ \A r \in Guarded :
          \/ s.registers[r] = b.registers[r] /\ s.written[r] = b.written[r]
          \/ b.written[r] - s.written[r] >= MinInterval
    BY DEF Paced
  <2>2. PICK t : t = Done(s, c, lock)
    OBVIOUS
  <2>3. t \in States /\ \A r \in Registers :
          \/ t.registers[r] = s.registers[r] /\ t.written[r] = s.written[r]
          \/ r = c.register /\ Passes(s.written, c, lock) /\ t.written[r] = c.age
    BY <2>1, <2>2, DoneIs
  <2>4. ASSUME NEW r \in Guarded
        PROVE  \/ t.registers[r] = b.registers[r] /\ t.written[r] = b.written[r]
               \/ b.written[r] - t.written[r] >= MinInterval
    <3>1. r \in Registers /\ r # "interlock"
      BY DEF Guarded
    <3>2. CASE t.registers[r] = s.registers[r] /\ t.written[r] = s.written[r]
      BY <2>1, <3>2
    <3>3. CASE r = c.register /\ Passes(s.written, c, lock) /\ t.written[r] = c.age
      <4>1. s.written[r] - c.age >= MinInterval
        BY <3>1, <3>3 DEF Passes
      <4>2. b.written[r] \in Nat /\ s.written[r] \in Nat /\ c.age \in Nat /\ MinInterval \in Nat
        BY <2>1, <3>1, Limits DEF States, Commands
      <4>3. s.written[r] = b.written[r] \/ b.written[r] - s.written[r] >= MinInterval
        BY <2>1
      <4> QED BY <3>3, <4>1, <4>2, <4>3
    <3> QED BY <2>3, <3>1, <3>2, <3>3
  <2> QED BY <2>2, <2>3, <2>4 DEF Paced
<1> QED BY <1>1, <1>2, <1>3 DEF Keeps

\* So it is when a whole queue has been processed.
LEMMA QueueProcessed ==
  ASSUME NEW b \in States, NEW commands \in Seq(Commands(Max(Elapses))), NEW lock
  PROVE  /\ Processed(b, commands, lock) \in States
         /\ lock = TRUE => Processed(b, commands, lock) \in Untouched(b)
         /\ Processed(b, commands, lock) \in Paced(b)
<1>1. PICK n \in Nat : n = Len(commands)
  BY LenProperties
<1>2. commands \in [1 .. n -> Commands(Max(Elapses))]
  BY <1>1, LenProperties
<1>3. b \in Untouched(b) /\ b \in Paced(b)
  BY DEF Untouched, Paced
<1>4. PICK C : C = Commands(Max(Elapses))
  OBVIOUS
<1>5. /\ Keeps(States, C, lock) /\ Keeps(Paced(b), C, lock)
      /\ lock = TRUE => Keeps(Untouched(b), C, lock)
  BY <1>4, CommandsKeep
<1>6. commands \in [1 .. n -> C]
  BY <1>2, <1>4
<1>7. Processed(b, commands, lock) \in States
  BY <1>5, <1>6, ProcessedKeeps
<1>8. PICK U : U = Untouched(b)
  OBVIOUS
<1>9. ASSUME lock = TRUE PROVE Processed(b, commands, lock) \in U
  BY <1>3, <1>5, <1>6, <1>8, <1>9, ProcessedKeeps
<1>10. PICK P : P = Paced(b)
  OBVIOUS
<1>11. Processed(b, commands, lock) \in P
  BY <1>3, <1>5, <1>6, <1>10, ProcessedKeeps
<1> QED BY <1>7, <1>8, <1>9, <1>10, <1>11

-----------------------------------------------------------------------------
(***************************************************************************)
(* The loop.                                                               *)
(***************************************************************************)

\* The types, and what they rest on: how the window's progress is bounded, and that
\* between strides each command of the queue has just been pushed.
LoopInv == FilterInv /\ TypeOK /\ queue \in Seq(Commands(0))

\* The actuator with its queue left out, and after the time d.
Actuator == [registers |-> registers, written |-> written]
ActuatorAfter(d) ==
  [registers |-> registers, written |-> [r \in Registers |-> Aged(written[r], d, Old)]]

\* The queue after the time d, and with the command of the action pushed.
QueueAfter(d) == [i \in DOMAIN queue |-> [queue[i] EXCEPT !.age = @ + d]]
QueueWith(d, action) == Ordered(QueueAfter(d), action)

\* A function on the first n numbers is a sequence, and so is one of a smaller set.
LEMMA SequencesGrow ==
  ASSUME NEW T, NEW S \in SUBSET T, NEW q \in Seq(S)
  PROVE  q \in Seq(T)
<1>1. PICK n \in Nat : n = Len(q)
  BY LenProperties
<1>2. q \in [1 .. n -> T]
  BY <1>1, LenProperties
<1> QED BY <1>2, SeqDef

\* The commands of the operator and the loop.
LEMMA CommandFits ==
  /\ \A action \in 1 .. 4 : Command(action) \in Commands(0)
  /\ Unlock \in Commands(0)
  /\ \A n \in Nat : Commands(0) \in SUBSET Commands(n)
<1>1. ASSUME NEW action \in 1 .. 4 PROVE Command(action) \in Commands(0)
  <2>1. action = 1 \/ action = 2 \/ action = 3 \/ action = 4
    OBVIOUS
  <2>2. CASE action = 1
    BY <2>2 DEF Command, Commands, Registers
  <2>3. CASE action = 2
    BY <2>3 DEF Command, Commands, Registers
  <2>4. CASE action = 3
    BY <2>4 DEF Command, Commands, Registers
  <2>5. CASE action = 4
    BY <2>5 DEF Command, Commands, Registers
  <2> QED BY <2>1, <2>2, <2>3, <2>4, <2>5
<1>2. Unlock \in Commands(0)
  BY DEF Unlock, Commands, Registers
<1>3. ASSUME NEW n \in Nat, NEW c \in Commands(0) PROVE c \in Commands(n)
  BY DEF Commands
<1> QED BY <1>1, <1>2, <1>3

\* A ring that comes round is empty, so it never holds QueueLength commands.
LEMMA PushedFits ==
  ASSUME NEW C, NEW q \in Seq(C), Len(q) < QueueLength, NEW c \in C
  PROVE  Pushed(q, c) \in Seq(C) /\ Len(Pushed(q, c)) < QueueLength
<1>1. QueueLength \in Nat /\ QueueLength > 1 /\ Len(q) \in Nat
  BY Limits, LenProperties
<1>2. Append(q, c) \in Seq(C) /\ Len(Append(q, c)) = Len(q) + 1
  BY AppendProperties
<1>3. <<>> \in Seq(C) /\ Len(<<>>) = 0
  BY EmptySeq
<1> QED BY <1>1, <1>2, <1>3 DEF Pushed

\* What a stride finds in the queue.
LEMMA QueueWaits ==
  ASSUME LoopInv, NEW d \in Elapses, NEW action \in Actions
  PROVE  QueueWith(d, action) \in Seq(Commands(Max(Elapses)))
<1>1. PICK M \in Nat : M = Max(Elapses) /\ d \in 1 .. M
  BY Limits
<1>2. PICK n \in Nat : n = Len(queue) /\ n < QueueLength
  BY LenProperties DEF LoopInv, TypeOK
<1>3. queue \in [1 .. n -> Commands(0)]
  BY <1>2, LenProperties DEF LoopInv
<1>4. ASSUME NEW i \in 1 .. n PROVE [queue[i] EXCEPT !.age = @ + d] \in Commands(M)
  <2>1. PICK c \in Commands(0) : c = queue[i]
    BY <1>3
  <2>2. [c EXCEPT !.age = @ + d] \in Commands(M)
    <3>1. c \in [register : Registers, value : {0, 1, 2, 204}, age : 0 .. 0]
          /\ (c.register = "rate" => c.value \in {1, 2})
          /\ (c.register = "interlock" => c.value \in {0, 1})
      BY DEF Commands
    <3>2. c.age + d \in 0 .. M
      BY <1>1, <3>1
    <3>3. PICK e : e = [c EXCEPT !.age = @ + d]
      OBVIOUS
    <3>4. /\ e \in [register : Registers, value : {0, 1, 2, 204}, age : 0 .. M]
          /\ e.register = c.register /\ e.value = c.value
      BY <3>1, <3>2, <3>3
    <3> QED BY <3>1, <3>3, <3>4 DEF Commands
  <2> QED BY <2>1, <2>2
<1>5. PICK q : q = QueueAfter(d)
  OBVIOUS
<1>6. q \in [1 .. n -> Commands(M)]
  BY <1>3, <1>4, <1>5 DEF QueueAfter
<1>7. q \in Seq(Commands(M)) /\ Len(q) = n
  <2>1. q \in Seq(Commands(M))
    BY <1>6, SeqDef
  <2>2. DOMAIN q = 1 .. n
    BY <1>6
  <2> QED BY <2>1, <2>2, LenProperties
<1>8. ASSUME action # NoAction
      PROVE  Pushed(q, Command(action)) \in Seq(Commands(M))
  <2>1. action \in 1 .. 4
    BY <1>8 DEF Actions, NoAction, ReduceRate
  <2>2. Command(action) \in Commands(M)
    BY <1>1, <2>1, CommandFits
  <2>3. PICK C : C = Commands(M)
    OBVIOUS
  <2>4. q \in Seq(C) /\ Len(q) < QueueLength /\ Command(action) \in C
    BY <1>2, <1>7, <2>2, <2>3
  <2> QED BY <2>3, <2>4, PushedFits
<1> QED BY <1>1, <1>5, <1>7, <1>8 DEF QueueWith, Ordered

\* An actuator of the right types is one of the states, also when time has passed.
LEMMA ActuatorIs ==
  ASSUME LoopInv, NEW d \in Elapses
  PROVE  Actuator \in States /\ ActuatorAfter(d) \in States
<1>1. /\ registers \in [Registers -> Contents] /\ written \in [Registers -> 0 .. Old]
      /\ registers["rate"] \in {1, 2} /\ registers["interlock"] \in {0, 1}
  BY DEF LoopInv, TypeOK, Contents
<1>2. d \in Nat /\ Old \in Nat
  BY Limits
<1>3. ASSUME NEW r \in Registers PROVE Aged(written[r], d, Old) \in 0 .. Old
  <2>1. PICK age \in 0 .. Old : age = written[r]
    BY <1>1
  <2>2. Aged(age, d, Old) = IF age + d <= Old THEN age + d ELSE Old
    <3>1. age \in Nat
      BY <1>2
    <3> QED BY <1>2, <3>1, AgedIs
  <2>3. Aged(age, d, Old) \in 0 .. Old
    BY <1>2, <2>2
  <2> QED BY <2>1, <2>3
<1>4. [r \in Registers |-> Aged(written[r], d, Old)] \in [Registers -> 0 .. Old]
  BY <1>3
<1> QED BY <1>1, <1>4 DEF Actuator, ActuatorAfter, States

\* The parts of a stride that the actuator and the monitor see.
LEMMA StrideIs ==
  ASSUME NEW high \in BOOLEAN, NEW d \in Elapses, Stride(high, d)
  PROVE  LET action == Filtered(RawAction(high))
             after == Processed(ActuatorAfter(d), QueueWith(d, action), Locked(registers))
             seen == Checked(after.registers,
                       IF action = ReduceRate THEN 0 ELSE Aged(announced, d, Timeout + 1))
         IN /\ registers' = after.registers /\ written' = after.written /\ queue' = <<>>
            /\ announced' = seen.announced /\ status' = seen.status
            /\ high => critical < MaxCritical
            /\ critical' = CriticalAfter(high)
            /\ UNCHANGED <<ack, pushes>>
BY DEF Stride, ActuatorAfter, QueueWith, QueueAfter

\* What the filter puts out is one of its two actions.
LEMMA FilteredIs ==
  ASSUME LoopInv, NEW high \in BOOLEAN
  PROVE  RawAction(high) \in Actions /\ Filtered(RawAction(high)) \in Actions
<1>1. RawAction(high) \in Actions
  BY DEF RawAction, Actions
<1>2. filtered \in Actions
  BY DEF LoopInv, FilterInv, Actions
<1> QED BY <1>1, <1>2 DEF Filtered

\* A stride leaves an actuator that is one of the states; with the interlock set it
\* leaves the guarded registers alone, and none is written too soon.
LEMMA StrideActs ==
  ASSUME LoopInv, NEW high \in BOOLEAN, NEW d \in Elapses, Stride(high, d)
  PROVE  /\ Actuator' \in States
         /\ Locked(registers) => Actuator' \in Untouched(ActuatorAfter(d))
         /\ Actuator' \in Paced(ActuatorAfter(d))
<1> DEFINE action == Filtered(RawAction(high))
           after == Processed(ActuatorAfter(d), QueueWith(d, action), Locked(registers))
<1>1. PICK b \in States : b = ActuatorAfter(d)
  BY ActuatorIs
<1>2. PICK q \in Seq(Commands(Max(Elapses))) : q = QueueWith(d, action)
  BY FilteredIs, QueueWaits
<1>3. PICK lock : lock = Locked(registers)
  OBVIOUS
<1>4. PICK t : t = Processed(b, q, lock)
  OBVIOUS
<1>5. /\ t \in States /\ t \in Paced(b)
      /\ lock = TRUE => t \in Untouched(b)
  BY <1>4, QueueProcessed
<1>6. registers' = t.registers /\ written' = t.written
  BY <1>1, <1>2, <1>3, <1>4, StrideIs
<1>7. t = [registers |-> t.registers, written |-> t.written]
  BY <1>5 DEF States
<1>8. Actuator' = t
  BY <1>6, <1>7 DEF Actuator
<1>9. Locked(registers) => lock = TRUE
  BY <1>3 DEF Locked
<1> QED BY <1>1, <1>5, <1>8, <1>9

\* ClearInterlock leaves one of the states, and writes no register too soon.
LEMMA ClearActs ==
  ASSUME LoopInv, ClearInterlock
  PROVE  Actuator' \in States /\ Actuator' \in Paced(Actuator)
<1>1. PICK M \in Nat : M = Max(Elapses)
  BY Limits
<1>2. PICK C : C = Commands(0)
  OBVIOUS
<1>3. queue \in Seq(C) /\ Len(queue) < QueueLength /\ Unlock \in C
  BY <1>2, CommandFits DEF LoopInv, TypeOK
<1>4. Pushed(queue, Unlock) \in Seq(C)
  BY <1>3, PushedFits
<1>5. PICK T : T = Commands(M)
  OBVIOUS
<1>6. C \in SUBSET T
  BY <1>2, <1>5, CommandFits
<1>7. Pushed(queue, Unlock) \in Seq(T)
  BY <1>4, <1>6, SequencesGrow
<1>8. PICK q \in Seq(Commands(Max(Elapses))) : q = Pushed(queue, Unlock)
  BY <1>1, <1>5, <1>7
<1>9. PICK b \in States : b = Actuator
  <2>1. PICK d \in Elapses : TRUE
    BY LimitsAssumption
  <2> QED BY <2>1, ActuatorIs
<1>10. PICK t : t = Processed(b, q, FALSE)
  OBVIOUS
<1>11. t \in States /\ t \in Paced(b)
  BY <1>10, QueueProcessed
<1>12. registers' = t.registers /\ written' = t.written
  BY <1>8, <1>9, <1>10 DEF ClearInterlock, Actuator
<1>13. t = [registers |-> t.registers, written |-> t.written]
  BY <1>11 DEF States
<1>14. Actuator' = t
  BY <1>12, <1>13 DEF Actuator
<1> QED BY <1>9, <1>11, <1>14

\* Of one of the states the actuator has the right types.
LEMMA ActuatorTypes ==
  ASSUME NEW s \in States
  PROVE  /\ s.registers \in [Registers -> {0, 1, 2, 204, 819}]
         /\ s.registers["rate"] \in {1, 2} /\ s.registers["interlock"] \in {0, 1}
         /\ s.written \in [Registers -> 0 .. Old]
BY DEF States, Contents

\* The types but for those of the filter, which FilterInv gives.
LoopTypes ==
  /\ registers \in [Registers -> {0, 1, 2, 204, 819}]
  /\ registers["rate"] \in {1, 2} /\ registers["interlock"] \in {0, 1}
  /\ ack \in 0 .. 2
  /\ written \in [Registers -> 0 .. Old]
  /\ queue \in Seq(Commands(0)) /\ Len(queue) < QueueLength
  /\ critical \in 0 .. MaxCritical
  /\ announced \in {None} \cup 0 .. Timeout + 1
  /\ status \in {"clean", "pending", "timeout"}
  /\ pushes \in 0 .. MaxPushes

\* The two together are the invariant.
LEMMA LoopParts == LoopInv <=> FilterInv /\ LoopTypes
<1>1. ASSUME LoopInv PROVE FilterInv /\ LoopTypes
  BY <1>1 DEF LoopInv, TypeOK, LoopTypes
<1>2. ASSUME FilterInv, LoopTypes PROVE LoopInv
  <2>1. queue \in Seq([register : Registers, value : Nat, age : 0 .. Max(Elapses)])
    <3>1. PICK S : S = Commands(0)
      OBVIOUS
    <3>2. PICK T : T = [register : Registers, value : Nat, age : 0 .. Max(Elapses)]
      OBVIOUS
    <3>3. S \in SUBSET T /\ queue \in Seq(S)
      BY <1>2, <3>1, <3>2, Limits DEF Commands, LoopTypes
    <3>4. queue \in Seq(T)
      BY <3>3, SequencesGrow
    <3> QED BY <3>2, <3>4
  <2>2. times \in 0 .. Max({UpWindow, DownWindow})
    <3>1. PICK H \in Nat : H = HistoryLength
      BY Windows
    <3>2. {UpWindow, DownWindow} \in SUBSET (0 .. H) /\ {UpWindow, DownWindow} # {}
      BY <3>1, WindowsAssumption
    <3>3. PICK S : S = {UpWindow, DownWindow}
      OBVIOUS
    <3>4. Max(S) \in S /\ \A n \in S : n <= Max(S)
      BY <3>2, <3>3, LastOf
    <3>5. asked \in {NoAction, ReduceRate} /\ times \in 0 .. WindowOf[asked]
      BY <1>2 DEF FilterInv
    <3>6. WindowOf[asked] \in S
      BY <3>3, <3>5 DEF WindowOf
    <3>7. WindowOf[asked] \in Nat /\ Max(S) \in Nat
      BY <3>2, <3>3, <3>4, <3>6
    <3> QED BY <3>3, <3>4, <3>5, <3>6, <3>7
  <2> QED BY <1>2, <2>1, <2>2 DEF LoopInv, TypeOK, LoopTypes, FilterInv
<1> QED BY <1>1, <1>2

\* The initial state has them.
LEMMA LoopStarts == Init => LoopInv
<1> SUFFICES ASSUME Init PROVE LoopInv
  OBVIOUS
<1>1. registers \in [Registers -> {0, 1, 2, 204, 819}]
      /\ registers["rate"] \in {1, 2} /\ registers["interlock"] \in {0, 1}
  <2> DEFINE first(r) ==
        CASE r \in {"rate", "handover"} -> 1 [] r = "gain" -> 819 [] r = "interlock" -> 0
  <2>1. /\ first("rate") = 1 /\ first("handover") = 1
        /\ first("gain") = 819 /\ first("interlock") = 0
    OBVIOUS
  <2>2. registers = [r \in Registers |-> first(r)]
    BY DEF Init
  <2> HIDE DEF first
  <2> QED BY <2>1, <2>2 DEF Registers
<1>2. written \in [Registers -> 0 .. Old]
  BY Limits DEF Init
<1>3. queue \in Seq(Commands(0)) /\ Len(queue) = 0
  BY EmptySeq DEF Init
<1>4. Len(queue) < QueueLength /\ critical \in 0 .. MaxCritical /\ pushes \in 0 .. MaxPushes
  <2>1. PICK l : l = Len(queue)
    OBVIOUS
  <2>2. l = 0 /\ critical = 0 /\ pushes = 0
    BY <1>3, <2>1 DEF Init
  <2> QED BY <2>1, <2>2, Limits
<1>5. ack = 0 /\ announced = None /\ status = "clean"
  BY DEF Init
<1>6. LoopTypes
  BY <1>1, <1>2, <1>3, <1>4, <1>5 DEF LoopTypes
<1> QED BY <1>6, FilterInit, LoopParts

\* How high power counts, and is counted off.
LEMMA CriticalCounts ==
  ASSUME LoopInv, NEW high \in BOOLEAN, high => critical < MaxCritical
  PROVE  CriticalAfter(high) \in 0 .. MaxCritical
<1>1. critical \in 0 .. MaxCritical /\ MaxCritical \in Nat
  BY Limits DEF LoopInv, TypeOK
<1>2. CASE Desync(high)
  BY <1>1, <1>2 DEF CriticalAfter, Desync
<1>3. CASE ~Desync(high)
  <2>1. PICK S : S = {0, critical - 1}
    OBVIOUS
  <2>2. CASE critical = 0
    <3>1. 0 \in S /\ \A y \in S : 0 >= y
      BY <2>1, <2>2
    <3>2. Max(S) \in S /\ \A y \in S : Max(S) >= y
      BY <3>1 DEF Max
    <3>3. Max(S) = 0
      <4>1. PICK m \in S : m = Max(S)
        BY <3>2
      <4>2. (m = 0 \/ m = critical - 1) /\ m >= 0
        BY <2>1, <3>1, <3>2, <4>1
      <4> QED BY <2>2, <4>1, <4>2
    <3> QED BY <1>1, <1>3, <2>1, <3>3 DEF CriticalAfter
  <2>3. CASE critical # 0
    <3>1. S \in SUBSET (0 .. MaxCritical) /\ S # {}
      BY <1>1, <2>1, <2>3
    <3>2. Max(S) \in S
      BY <1>1, <3>1, LastOf
    <3> QED BY <1>3, <2>1, <3>1, <3>2 DEF CriticalAfter
  <2> QED BY <2>2, <2>3
<1> QED BY <1>2, <1>3

\* What the monitor makes of the age of a write.
LEMMA MonitorSees ==
  ASSUME NEW regs, NEW age \in {None} \cup 0 .. Timeout + 1
  PROVE  /\ Checked(regs, age).announced \in {None} \cup 0 .. Timeout + 1
         /\ Checked(regs, age).status \in {"clean", "pending", "timeout"}
<1>1. CASE age = None \/ regs["rate"] = ack
  <2>1. Checked(regs, age) = [announced |-> None, status |-> "clean"]
    BY <1>1 DEF Checked
  <2> QED BY <2>1
<1>2. CASE age # None /\ regs["rate"] # ack
  <2>1. Checked(regs, age) =
          [announced |-> age, status |-> IF age > Timeout THEN "timeout" ELSE "pending"]
    BY <1>2 DEF Checked
  <2> QED BY <2>1
<1> QED BY <1>1, <1>2

\* A stride keeps the types.
LEMMA StrideKeeps ==
  ASSUME LoopInv, NEW high \in BOOLEAN, NEW d \in Elapses, Stride(high, d)
  PROVE  LoopTypes'
<1>1. /\ registers' \in [Registers -> {0, 1, 2, 204, 819}]
      /\ registers'["rate"] \in {1, 2} /\ registers'["interlock"] \in {0, 1}
      /\ written' \in [Registers -> 0 .. Old]
  <2>1. PICK s \in States : s = Actuator'
    BY StrideActs
  <2>2. registers' = s.registers /\ written' = s.written
    BY <2>1 DEF Actuator
  <2> QED BY <2>2, ActuatorTypes
<1>2. critical' \in 0 .. MaxCritical
  <2>1. critical' = CriticalAfter(high) /\ (high => critical < MaxCritical)
    BY StrideIs
  <2> QED BY <2>1, CriticalCounts
<1>3. announced' \in {None} \cup 0 .. Timeout + 1 /\ status' \in {"clean", "pending", "timeout"}
  <2>1. PICK age :
          age = IF Filtered(RawAction(high)) = ReduceRate
                  THEN 0 ELSE Aged(announced, d, Timeout + 1)
    OBVIOUS
  <2>2. PICK regs :
          announced' = Checked(regs, age).announced /\ status' = Checked(regs, age).status
    BY <2>1, StrideIs
  <2>3. age \in {None} \cup 0 .. Timeout + 1
    <3>1. announced \in {None} \cup 0 .. Timeout + 1 /\ d \in Nat /\ Timeout \in Nat
      BY Limits DEF LoopInv, TypeOK
    <3>2. CASE announced = None
      BY <2>1, <3>1, <3>2 DEF Aged
    <3>3. CASE announced # None
      <4>1. PICK a \in 0 .. Timeout + 1 : a = announced
        BY <3>1, <3>3
      <4>2. PICK limit \in Nat : limit = Timeout + 1
        BY <3>1
      <4>3. Aged(a, d, limit) = IF a + d <= limit THEN a + d ELSE limit
        BY <3>1, AgedIs
      <4>4. Aged(a, d, limit) \in 0 .. Timeout + 1
        BY <3>1, <4>2, <4>3
      <4> QED BY <2>1, <3>1, <4>1, <4>2, <4>4
    <3> QED BY <3>2, <3>3
  <2> QED BY <2>2, <2>3, MonitorSees
<1>4. queue' \in Seq(Commands(0)) /\ Len(queue') < QueueLength
  <2>1. queue' = <<>>
    BY StrideIs
  <2>2. <<>> \in Seq(Commands(0)) /\ Len(<<>>) = 0
    BY EmptySeq
  <2> QED BY <2>1, <2>2, Limits
<1>5. ack' \in 0 .. 2 /\ pushes' \in 0 .. MaxPushes
  BY StrideIs DEF LoopInv, TypeOK
<1> QED BY <1>1, <1>2, <1>3, <1>4, <1>5 DEF LoopTypes

\* Every step keeps the types.
LEMMA LoopStepTypes ==
  ASSUME LoopInv, [Next]_vars
  PROVE  LoopTypes'
<1>1. LoopTypes
  BY LoopParts
<1>2. ASSUME NEW high \in BOOLEAN, NEW d \in Elapses, Stride(high, d)
      PROVE  LoopTypes'
  BY <1>2, StrideKeeps
<1>3. ASSUME NEW action \in OperatorActions, Push(action)
      PROVE  LoopTypes'
  <2>1. PICK C : C = Commands(0)
    OBVIOUS
  <2>2. Command(action) \in C /\ queue \in Seq(C) /\ Len(queue) < QueueLength
    <3>1. action \in 1 .. 4
      BY LimitsAssumption
    <3> QED BY <1>1, <2>1, <3>1, CommandFits DEF LoopTypes
  <2>3. queue' \in Seq(C) /\ Len(queue') < QueueLength
    BY <1>3, <2>2, PushedFits DEF Push
  <2>4. pushes' \in 0 .. MaxPushes
    BY <1>1, <1>3, Limits DEF Push, LoopTypes
  <2> QED BY <1>1, <1>3, <2>1, <2>3, <2>4 DEF Push, LoopTypes
<1>4. CASE ClearInterlock
  <2>1. PICK s \in States : s = Actuator'
    BY <1>4, ClearActs
  <2>2. registers' = s.registers /\ written' = s.written
    BY <2>1 DEF Actuator
  <2>3. /\ registers' \in [Registers -> {0, 1, 2, 204, 819}]
        /\ registers'["rate"] \in {1, 2} /\ registers'["interlock"] \in {0, 1}
        /\ written' \in [Registers -> 0 .. Old]
    BY <2>2, ActuatorTypes
  <2>4. queue' \in Seq(Commands(0)) /\ Len(queue') < QueueLength
    BY <1>4, EmptySeq, Limits DEF ClearInterlock
  <2>5. pushes' \in 0 .. MaxPushes /\ UNCHANGED <<ack, critical, announced, status>>
    BY <1>1, <1>4, Limits DEF ClearInterlock, LoopTypes
  <2> QED BY <1>1, <2>3, <2>4, <2>5 DEF LoopTypes
<1>5. CASE Acknowledge
  BY <1>1, <1>5 DEF Acknowledge, actuatorVars, LoopTypes
<1>6. CASE UNCHANGED vars
  BY <1>1, <1>6 DEF vars, actuatorVars, LoopTypes
<1> QED BY <1>2, <1>3, <1>4, <1>5, <1>6 DEF Next, Sweep

-----------------------------------------------------------------------------
(***************************************************************************)
(* The theorems.                                                           *)
(***************************************************************************)

\* The loop's inductive invariant: the filter's, the types, and that each command that
\* waits in the ring between strides has just been pushed.
THEOREM LoopInvariant == Spec => []LoopInv
<1>1. LoopInv /\ [Next]_vars => LoopInv'
  <2> SUFFICES ASSUME LoopInv, [Next]_vars PROVE LoopInv'
    OBVIOUS
  <2>1. FilterInv'
    BY LoopStep DEF LoopInv
  <2>2. LoopTypes'
    BY LoopStepTypes
  <2>3. (LoopInv <=> FilterInv /\ LoopTypes)'
    BY LoopParts, PTL
  <2> QED BY <2>1, <2>2, <2>3
<1> QED BY <1>1, LoopStarts, PTL DEF Spec

\* Types: the registers hold only values of their own, however the ring of commands
\* comes round; ages, counters and the filter's progress stay within their limits.
THEOREM LoopTypeCorrect == Spec => []TypeOK
<1>1. LoopInv => TypeOK
  BY DEF LoopInv
<1> QED BY <1>1, LoopInvariant, PTL

\* While the interlock is set, no command that is queued, by the loop or by the
\* operator, touches another register, until the operator clears the interlock.
InterlockHolds ==
  [][Locked(registers) /\ ~ClearInterlock =>
       \A r \in Guarded : registers'[r] = registers[r]]_vars

\* The rate limit works across the commands of a batch and across batches: a register
\* other than the interlock changes only when at least MinInterval lies between the
\* push of its last write and the push of this one.
WritesArePaced ==
  [][\A r \in Guarded : registers'[r] # registers[r] =>
       \E d \in Elapses \cup {0} : Aged(written[r], d, Old) - written'[r] >= MinInterval]_vars

\* InterlockHolds, for every ring, window and interval: the lock is read before the
\* batch, so a command to set or clear it has no effect on those around it.
THEOREM InterlockIsObeyed == Spec => InterlockHolds
<1>1. ASSUME LoopInv, [Next]_vars, Locked(registers), ~ClearInterlock, NEW r \in Guarded
      PROVE  registers'[r] = registers[r]
  <2>1. ASSUME NEW high \in BOOLEAN, NEW d \in Elapses, Stride(high, d)
        PROVE  registers'[r] = registers[r]
    <3>1. PICK b : b = ActuatorAfter(d)
      OBVIOUS
    <3>2. PICK s : s = Actuator'
      OBVIOUS
    <3>3. s \in Untouched(b)
      BY <1>1, <2>1, <3>1, <3>2, StrideActs
    <3>4. s.registers[r] = b.registers[r]
      BY <3>3 DEF Untouched
    <3> QED BY <3>1, <3>2, <3>4 DEF Actuator, ActuatorAfter
  <2>2. ASSUME NEW action \in OperatorActions, Push(action)
        PROVE  registers'[r] = registers[r]
    BY <2>2 DEF Push
  <2>3. CASE Acknowledge
    BY <2>3 DEF Acknowledge, actuatorVars
  <2>4. CASE UNCHANGED vars
    BY <2>4 DEF vars, actuatorVars
  <2> QED BY <1>1, <2>1, <2>2, <2>3, <2>4 DEF Next, Sweep
<1>2. LoopInv /\ [Next]_vars =>
        [Locked(registers) /\ ~ClearInterlock =>
           \A r \in Guarded : registers'[r] = registers[r]]_vars
  BY <1>1
<1> QED BY <1>2, LoopInvariant, PTL DEF Spec, InterlockHolds

\* WritesArePaced, for every interval and every batch: the two ages are those of
\* pushes, however long a command waits in the ring.
THEOREM RegistersArePaced == Spec => WritesArePaced
<1>1. ASSUME LoopInv, [Next]_vars, NEW r \in Guarded, registers'[r] # registers[r]
      PROVE  \E d \in Elapses \cup {0} : Aged(written[r], d, Old) - written'[r] >= MinInterval
  <2>0. r \in Registers
    BY DEF Guarded
  <2>1. ASSUME NEW high \in BOOLEAN, NEW d \in Elapses, Stride(high, d)
        PROVE  Aged(written[r], d, Old) - written'[r] >= MinInterval
    <3>1. PICK b : b = ActuatorAfter(d)
      OBVIOUS
    <3>2. PICK s : s = Actuator'
      OBVIOUS
    <3>3. s \in Paced(b)
      BY <1>1, <2>1, <3>1, <3>2, StrideActs
    <3>4. \/ s.registers[r] = b.registers[r]
          \/ b.written[r] - s.written[r] >= MinInterval
      BY <3>3 DEF Paced
    <3>5. /\ b.registers[r] = registers[r] /\ b.written[r] = Aged(written[r], d, Old)
          /\ s.registers[r] = registers'[r] /\ s.written[r] = written'[r]
      BY <2>0, <3>1, <3>2 DEF Actuator, ActuatorAfter
    <3> QED BY <1>1, <3>4, <3>5
  <2>2. ASSUME NEW action \in OperatorActions, Push(action) PROVE FALSE
    BY <1>1, <2>2 DEF Push
  <2>3. ASSUME ClearInterlock
        PROVE  Aged(written[r], 0, Old) - written'[r] >= MinInterval
    <3>1. PICK b : b = Actuator
      OBVIOUS
    <3>2. PICK s : s = Actuator'
      OBVIOUS
    <3>3. s \in Paced(b)
      BY <1>1, <2>3, <3>1, <3>2, ClearActs
    <3>4. \/ s.registers[r] = b.registers[r]
          \/ b.written[r] - s.written[r] >= MinInterval
      BY <3>3 DEF Paced
    <3>5. /\ b.registers[r] = registers[r] /\ b.written[r] = written[r]
          /\ s.registers[r] = registers'[r] /\ s.written[r] = written'[r]
      BY <3>1, <3>2 DEF Actuator
    <3>6. PICK age \in 0 .. Old : age = written[r]
      BY <1>1, <2>0 DEF LoopInv, TypeOK
    <3>7. age \in Nat /\ Old \in Nat /\ age <= Old
      BY Limits
    <3>8. Aged(age, 0, Old) = age
      BY <3>7, AgedIs
    <3> QED BY <1>1, <3>4, <3>5, <3>6, <3>8
  <2>4. ~Acknowledge /\ ~UNCHANGED vars
    BY <1>1 DEF Acknowledge, vars, actuatorVars
  <2> QED BY <1>1, <2>1, <2>2, <2>3, <2>4 DEF Next, Sweep
<1>2. LoopInv /\ [Next]_vars =>
        [\A r \in Guarded : registers'[r] # registers[r] =>
           \E d \in Elapses \cup {0} : Aged(written[r], d, Old) - written'[r] >= MinInterval]_vars
  BY <1>1
<1> QED BY <1>2, LoopInvariant, PTL DEF Spec, WritesArePaced
=============================================================================
