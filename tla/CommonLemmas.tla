----------------------------- MODULE CommonLemmas -----------------------------
(***************************************************************************)
(* What the proofs about several components share: arithmetic of positions *)
(* in a ring, least and greatest numbers, sequences put together, folds.   *)
(***************************************************************************)
EXTENDS Integers, SequencesExt, FiniteSetTheorems, SequenceTheorems,
        WellFoundedInduction, TLAPS

-----------------------------------------------------------------------------
(***************************************************************************)
(* Positions in a ring and the slots they fall into.                       *)
(***************************************************************************)

\* Division with remainder.
LEMMA DivMod ==
  ASSUME NEW N \in Nat \ {0}, NEW i \in Int
  PROVE  /\ i \div N \in Int
         /\ i % N \in 0 .. N - 1
         /\ i = (N * (i \div N)) + (i % N)
  OBVIOUS

\* The remainder is the only one.
LEMMA ModUnique ==
  ASSUME NEW N \in Nat \ {0}, NEW q \in Int, NEW k \in Int,
         NEW r \in 0 .. N - 1, NEW s \in 0 .. N - 1,
         (N * q) + r = (N * k) + s
  PROVE  r = s
<1>1. N * (q - k) = s - r
  OBVIOUS
<1>2. ASSUME q > k PROVE FALSE
  <2>1. N * (q - k) >= N
    BY <1>2
  <2> QED BY <2>1, <1>1
<1>3. ASSUME q < k PROVE FALSE
  <2>1. N * (k - q) >= N
    BY <1>3
  <2>2. N * (k - q) = r - s
    BY <1>1
  <2> QED BY <2>1, <2>2
<1> QED BY <1>1, <1>2, <1>3

\* Two positions less than a turn apart that share a slot are the same.
LEMMA SameSlot ==
  ASSUME NEW N \in Nat \ {0}, NEW a \in Int, NEW b \in Int,
         a <= b, b - a < N, a % N = b % N
  PROVE  a = b
<1> DEFINE p == a \div N
           q == b \div N
<1>1. p \in Int /\ q \in Int /\ a = (N * p) + (a % N) /\ b = (N * q) + (b % N)
      /\ a % N \in Int
  BY DivMod
<1> HIDE DEF p, q
<1>2. b - a = N * (q - p)
  BY <1>1
<1>3. ASSUME q - p >= 1 PROVE FALSE
  <2>1. N * (q - p) >= N
    BY <1>3, <1>1
  <2> QED BY <2>1, <1>2
<1>4. ASSUME p - q >= 1 PROVE FALSE
  <2>1. N * (p - q) >= N
    BY <1>4, <1>1
  <2>2. N * (p - q) = a - b
    BY <1>1
  <2> QED BY <2>1, <2>2
<1>5. p = q
  BY <1>1, <1>3, <1>4
<1> QED BY <1>1, <1>5

\* Moving by d and reducing, or reducing first, leads to the same slot.
LEMMA ModAdd ==
  ASSUME NEW N \in Nat \ {0}, NEW a \in Int, NEW d \in Int
  PROVE  ((a % N) + d) % N = (a + d) % N
<1> DEFINE r == a % N
           s == (a + d) % N
           t == (r + d) % N
           u == a \div N
           v == (a + d) \div N
           w == (r + d) \div N
<1>1. r \in Int
  BY DivMod
<1>2. /\ a = (N * u) + r /\ a + d = (N * v) + s /\ r + d = (N * w) + t
      /\ u \in Int /\ v \in Int /\ w \in Int
      /\ s \in 0 .. N - 1 /\ t \in 0 .. N - 1
  <2>1. a = (N * u) + r /\ u \in Int
    BY DivMod
  <2>2. a + d = (N * v) + s /\ v \in Int /\ s \in 0 .. N - 1
    <3>1. a + d \in Int
      OBVIOUS
    <3> QED BY <3>1, DivMod
  <2>3. r + d = (N * w) + t /\ w \in Int /\ t \in 0 .. N - 1
    <3>1. r + d \in Int
      BY <1>1
    <3> HIDE DEF r
    <3> QED BY <3>1, DivMod
  <2> QED BY <2>1, <2>2, <2>3
<1> HIDE DEF r, s, t, u, v, w
<1>3. (N * v) + s = (N * (u + w)) + t
  <2>1. N * (u + w) = (N * u) + (N * w)
    BY <1>2
  <2>2. N * u \in Int /\ N * v \in Int /\ N * w \in Int
    BY <1>2
  <2> QED BY <2>1, <2>2, <1>1, <1>2
<1>4. u + w \in Int
  BY <1>2
<1>5. s = t
  BY <1>2, <1>3, <1>4, ModUnique
<1> QED BY <1>5 DEF r, s, t

-----------------------------------------------------------------------------
(***************************************************************************)
(* Least and greatest numbers.                                             *)
(***************************************************************************)

\* A set of numbers that is not empty has a least one.
LEMMA LeastNumber ==
  ASSUME NEW S \in SUBSET Nat, S # {}
  PROVE  \E m \in S : \A n \in S : m <= n
<1>1. PICK m \in S : \A n \in S : <<n, m>> \notin OpToRel(<, Nat)
  BY WFMin, NatLessThanWellFounded
<1>2. OpToRel(<, Nat) = {ss \in Nat \X Nat : ss[1] < ss[2]}
  BY DEF OpToRel
<1>3. ASSUME NEW n \in S PROVE m <= n
  <2>1. <<n, m>> \in Nat \X Nat /\ ~(n < m)
    BY <1>1, <1>2
  <2> QED BY <2>1
<1> QED BY <1>3

\* Min is that one.
LEMMA LeastOf ==
  ASSUME NEW S \in SUBSET Nat, S # {}
  PROVE  Min(S) \in S /\ \A n \in S : Min(S) <= n
<1>1. \E m \in S : \A n \in S : m <= n
  BY LeastNumber
<1> QED BY <1>1 DEF Min

\* A bounded set of numbers that is not empty has a greatest one, and Max is that.
LEMMA LastOf ==
  ASSUME NEW M \in Nat, NEW S \in SUBSET (0 .. M), S # {}
  PROVE  Max(S) \in S /\ \A n \in S : n <= Max(S)
<1> DEFINE T == {M - n : n \in S}
<1>1. T \in SUBSET Nat /\ T # {}
  <2>1. PICK n \in S : TRUE
    OBVIOUS
  <2>2. M - n \in T
    OBVIOUS
  <2> QED BY <2>2
<1> HIDE DEF T
<1>2. PICK d \in T : \A e \in T : d <= e
  BY <1>1, LeastNumber
<1>3. PICK x \in S : d = M - x
  BY DEF T
<1>4. ASSUME NEW y \in S PROVE x >= y /\ y <= x
  <2>1. M - y \in T
    BY DEF T
  <2>2. d <= M - y
    BY <1>2, <2>1
  <2> QED BY <1>3, <2>2
<1> QED BY <1>4 DEF Max

-----------------------------------------------------------------------------
(***************************************************************************)
(* Sequences put together.                                                 *)
(***************************************************************************)

\* flat holds, for each of the first n parts, what the parts up to it are together.
IsFlat(flat, parts, n) ==
  flat = [i \in 1 .. n |-> IF i = 1 THEN parts[i] ELSE flat[i - 1] \o parts[i]]

\* There is one, and it holds sequences.
LEMMA FlatExists ==
  ASSUME NEW T, NEW parts \in Seq(Seq(T)), NEW n \in 0 .. Len(parts)
  PROVE  \E flat \in [1 .. n -> Seq(T)] : IsFlat(flat, parts, n)
<1> DEFINE Has(m) == \E flat \in [1 .. m -> Seq(T)] : IsFlat(flat, parts, m)
           Bad == {m \in 0 .. Len(parts) : ~Has(m)}
<1>1. Has(0)
  <2>1. [i \in 1 .. 0 |-> <<>>] \in [1 .. 0 -> Seq(T)]
    OBVIOUS
  <2>2. IsFlat([i \in 1 .. 0 |-> <<>>], parts, 0)
    BY DEF IsFlat
  <2> QED BY <2>1, <2>2
<1>2. ASSUME NEW m \in 0 .. Len(parts), m # 0, Has(m - 1)
      PROVE  Has(m)
  <2>1. PICK f \in [1 .. m - 1 -> Seq(T)] : IsFlat(f, parts, m - 1)
    BY <1>2
  <2>2. m \in Nat /\ m - 1 \in Nat /\ \A i \in 1 .. m : parts[i] \in Seq(T)
    BY <1>2, ElementOfSeq, LenProperties
  <2> DEFINE last == IF m = 1 THEN parts[m] ELSE f[m - 1] \o parts[m]
             g == [i \in 1 .. m |-> IF i = m THEN last ELSE f[i]]
  <2>3. last \in Seq(T)
    <3>1. CASE m = 1
      BY <2>2, <3>1
    <3>2. CASE m # 1
      <4>1. f[m - 1] \in Seq(T) /\ parts[m] \in Seq(T)
        BY <1>2, <2>2, <3>2
      <4>2. f[m - 1] \o parts[m] \in Seq(T)
        BY <4>1, ConcatProperties
      <4> QED BY <3>2, <4>2
    <3> QED BY <3>1, <3>2
  <2>4. g \in [1 .. m -> Seq(T)]
    BY <2>2, <2>3
  <2> HIDE DEF last
  <2>5. g[m] = last /\ \A i \in 1 .. m - 1 : g[i] = f[i]
    BY <1>2, <2>2
  <2>6. ASSUME NEW i \in 1 .. m
        PROVE  g[i] = IF i = 1 THEN parts[i] ELSE g[i - 1] \o parts[i]
    <3>1. CASE i = m
      <4>1. m # 1 => g[m - 1] = f[m - 1]
        BY <2>2, <2>5
      <4> QED BY <2>5, <3>1, <4>1 DEF last
    <3>2. CASE i # m
      <4>1. i \in 1 .. m - 1 /\ (i # 1 => i - 1 \in 1 .. m - 1)
        BY <2>2, <3>2
      <4>2. f[i] = IF i = 1 THEN parts[i] ELSE f[i - 1] \o parts[i]
        BY <2>1, <4>1 DEF IsFlat
      <4> QED BY <2>5, <4>1, <4>2
    <3> QED BY <3>1, <3>2
  <2> HIDE DEF g
  <2>7. IsFlat(g, parts, m)
    BY <2>4, <2>6 DEF IsFlat
  <2> QED BY <2>4, <2>7
<1>3. Bad = {}
  <2> SUFFICES ASSUME Bad # {} PROVE FALSE
    OBVIOUS
  <2> HIDE DEF Has
  <2>1. Bad \in SUBSET Nat
    OBVIOUS
  <2>2. PICK m \in Bad : \A k \in Bad : m <= k
    <3> HIDE DEF Bad
    <3> QED BY <2>1, LeastNumber
  <2>3. m # 0
    BY <1>1
  <2>4. m - 1 \in 0 .. Len(parts) /\ m - 1 \notin Bad
    BY <2>2, <2>3, LenProperties
  <2>5. Has(m - 1)
    BY <2>4
  <2> QED BY <1>2, <2>3, <2>5
<1> QED BY <1>3

\* The first k parts that f and g are made of are the same.
StartAlike(f, parts, n, g, others, m, k) ==
  /\ n \in Nat /\ m \in Nat /\ k \in Nat /\ k <= n /\ k <= m
  /\ IsFlat(f, parts, n) /\ IsFlat(g, others, m)
  /\ \A i \in 1 .. k : parts[i] = others[i]

\* Where the parts are the same, so is what they are together.
LEMMA FlatAgrees ==
  ASSUME NEW f, NEW parts, NEW n, NEW g, NEW others, NEW m, NEW k,
         StartAlike(f, parts, n, g, others, m, k)
  PROVE  \A i \in 1 .. k : f[i] = g[i]
<1> USE DEF StartAlike
<1> DEFINE Bad == {i \in 1 .. k : f[i] # g[i]}
<1> SUFFICES ASSUME Bad # {} PROVE FALSE
  OBVIOUS
<1>1. Bad \in SUBSET Nat
  OBVIOUS
<1>2. PICK i \in Bad : \A j \in Bad : i <= j
  <2> HIDE DEF Bad
  <2> QED BY <1>1, LeastNumber
<1>3. /\ f[i] = IF i = 1 THEN parts[i] ELSE f[i - 1] \o parts[i]
      /\ g[i] = IF i = 1 THEN others[i] ELSE g[i - 1] \o others[i]
  <2>1. i \in 1 .. n /\ i \in 1 .. m
    OBVIOUS
  <2> QED BY <2>1 DEF IsFlat
<1>4. i # 1 => i - 1 \in 1 .. k /\ i - 1 \notin Bad
  BY <1>2
<1>5. i # 1 => f[i - 1] = g[i - 1]
  BY <1>4
<1> QED BY <1>3, <1>5

\* FlattenSeq is the last of them.
LEMMA FlattenIs ==
  ASSUME NEW T, NEW parts \in Seq(Seq(T)), parts # <<>>
  PROVE  \E flat \in [1 .. Len(parts) -> Seq(T)] :
           IsFlat(flat, parts, Len(parts)) /\ FlattenSeq(parts) = flat[Len(parts)]
<1>1. Len(parts) \in Nat /\ Len(parts) # 0
  BY EmptySeq, LenProperties
<1> DEFINE F == CHOOSE f : IsFlat(f, parts, Len(parts))
<1>2. PICK f \in [1 .. Len(parts) -> Seq(T)] : IsFlat(f, parts, Len(parts))
  <2>1. PICK n \in 0 .. Len(parts) : n = Len(parts)
    BY <1>1
  <2>2. \E f \in [1 .. n -> Seq(T)] : IsFlat(f, parts, n)
    BY FlatExists
  <2> QED BY <2>1, <2>2
<1>3. IsFlat(F, parts, Len(parts))
  BY <1>2
<1>4. FlattenSeq(parts) = F[Len(parts)]
  BY <1>1, Zenon DEF FlattenSeq, IsFlat
<1> HIDE DEF F
<1>5. \A i \in 1 .. Len(parts) : F[i] = f[i]
  <2>1. PICK n \in Nat : n = Len(parts)
    BY <1>1
  <2>2. PICK h : h = F
    OBVIOUS
  <2>3. StartAlike(h, parts, n, f, parts, n, n)
    BY <1>2, <1>3, <2>1, <2>2 DEF StartAlike
  <2>4. \A i \in 1 .. n : h[i] = f[i]
    BY <2>3, FlatAgrees
  <2> QED BY <2>1, <2>2, <2>4
<1>6. F = [i \in 1 .. Len(parts) |-> F[i]]
  BY <1>3 DEF IsFlat
<1>7. F \in [1 .. Len(parts) -> Seq(T)]
  BY <1>5, <1>6
<1> QED BY <1>3, <1>4, <1>7

\* Sequences put together are a sequence, and one more goes to the end.
LEMMA FlattenAppended ==
  ASSUME NEW T, NEW parts \in Seq(Seq(T)), NEW s \in Seq(T)
  PROVE  /\ FlattenSeq(parts) \in Seq(T)
         /\ FlattenSeq(Append(parts, s)) = FlattenSeq(parts) \o s
<1> DEFINE more == Append(parts, s)
           n == Len(parts)
<1>1. /\ more \in Seq(Seq(T)) /\ more # <<>> /\ Len(more) = n + 1 /\ n \in Nat
      /\ \A i \in 1 .. n : more[i] = parts[i]
      /\ more[n + 1] = s
  BY AppendProperties, LenProperties
<1> HIDE DEF more
<1>2. PICK g \in [1 .. Len(more) -> Seq(T)] :
        IsFlat(g, more, Len(more)) /\ FlattenSeq(more) = g[Len(more)]
  BY <1>1, FlattenIs
<1>3. g[n + 1] = IF n + 1 = 1 THEN more[n + 1] ELSE g[n] \o more[n + 1]
  <2>1. n + 1 \in 1 .. Len(more) /\ (n + 1) - 1 = n
    BY <1>1
  <2> QED BY <1>2, <2>1 DEF IsFlat
<1>4. CASE parts = <<>>
  <2>1. FlattenSeq(parts) = <<>> /\ n = 0
    BY <1>4, EmptySeq DEF FlattenSeq
  <2>2. <<>> \o s = s
    BY ConcatEmptySeq
  <2>3. <<>> \in Seq(T)
    OBVIOUS
  <2>4. FlattenSeq(more) = s
    BY <1>1, <1>2, <1>3, <2>1
  <2> HIDE DEF n
  <2> QED BY <1>4, <2>1, <2>2, <2>3, <2>4 DEF more
<1>5. CASE parts # <<>>
  <2>1. PICK f \in [1 .. n -> Seq(T)] : IsFlat(f, parts, n) /\ FlattenSeq(parts) = f[n]
    BY <1>5, FlattenIs
  <2>2. n # 0
    BY <1>5, EmptySeq
  <2>3. PICK k \in Nat : k = n
    BY <1>1
  <2>4. PICK l \in Nat : l = Len(more)
    BY <1>1
  <2>5. StartAlike(f, parts, k, g, more, l, k)
    BY <1>1, <1>2, <2>1, <2>3, <2>4 DEF StartAlike
  <2>6. \A i \in 1 .. k : f[i] = g[i]
    BY <2>5, FlatAgrees
  <2>7. k \in 1 .. k
    BY <2>2, <2>3
  <2>8. f[n] = g[n] /\ f[n] \in Seq(T)
    BY <2>1, <2>3, <2>6, <2>7
  <2> QED BY <1>1, <1>2, <1>3, <2>1, <2>2, <2>8 DEF more
<1> QED BY <1>4, <1>5

-----------------------------------------------------------------------------
(***************************************************************************)
(* Folds, as the tables of their values on all the subsets of a set.       *)
(***************************************************************************)

\* What folds over the subsets of S share: one of a set's elements goes to step last.
FoldsOver(S, V, base, pick, step) ==
  /\ base \in V
  /\ pick \in [SUBSET S -> S \cup {S}]
  /\ \A s \in SUBSET S : s # {} => pick[s] \in s
  /\ step \in [S \X V -> V]

\* The entry of the table for the set s.
IsEntry(table, base, pick, step, s) ==
  table[s] = IF s = {} THEN base ELSE step[<<pick[s], table[s \ {pick[s]}]>>]

\* The table has all its entries right.
IsTable(table, S, base, pick, step) ==
  \A s \in SUBSET S : IsEntry(table, base, pick, step, s)

\* The subsets of S with at most n elements.
UpTo(S, n) == {s \in SUBSET S : Cardinality(s) <= n}

\* A set without one of its elements has one element less.
LEMMA OneLess ==
  ASSUME NEW S, IsFiniteSet(S), NEW s \in SUBSET S, NEW x \in s
  PROVE  /\ s \ {x} \in SUBSET S /\ IsFiniteSet(s)
         /\ Cardinality(s) \in Nat /\ Cardinality(s \ {x}) = Cardinality(s) - 1
         /\ Cardinality(s) # 0
<1>1. IsFiniteSet(s)
  BY FS_Subset
<1>2. Cardinality(s \ {x}) = Cardinality(s) - 1
  BY <1>1, FS_RemoveElement
<1>3. Cardinality(s) \in Nat /\ Cardinality(s) # 0
  BY <1>1, FS_CardinalityType, FS_EmptySet
<1> QED BY <1>1, <1>2, <1>3

\* Finitely many numbers have a bound.
LEMMA FiniteBound ==
  ASSUME NEW S \in SUBSET Nat, IsFiniteSet(S)
  PROVE  \E M \in Nat : S \in SUBSET (0 .. M)
<1> DEFINE Bounded(s) == \E M \in Nat : s \in SUBSET (0 .. M)
           Bad == {n \in Nat : \E s \in SUBSET S : Cardinality(s) = n /\ ~Bounded(s)}
<1>1. Bad = {}
  <2> SUFFICES ASSUME Bad # {} PROVE FALSE
    OBVIOUS
  <2>1. Bad \in SUBSET Nat
    OBVIOUS
  <2>2. PICK n \in Bad : \A m \in Bad : n <= m
    <3> HIDE DEF Bad
    <3> QED BY <2>1, LeastNumber
  <2>3. PICK s \in SUBSET S : Cardinality(s) = n /\ ~Bounded(s)
    BY <2>2
  <2>4. s # {}
    <3>1. {} \in SUBSET (0 .. 0)
      OBVIOUS
    <3> QED BY <2>3, <3>1
  <2>5. PICK x \in s : TRUE
    BY <2>4
  <2>6. s \ {x} \in SUBSET S /\ Cardinality(s \ {x}) = n - 1 /\ n \in Nat /\ n # 0
    BY <2>3, OneLess
  <2>7. Bounded(s \ {x})
    <3> HIDE DEF Bounded
    <3>1. PICK k \in Nat : k = n - 1
      BY <2>6
    <3>2. k \notin Bad
      BY <2>2, <2>6, <3>1
    <3>3. PICK r \in SUBSET S : r = s \ {x}
      BY <2>6
    <3>4. Cardinality(r) = k
      BY <2>6, <3>1, <3>3
    <3> QED BY <3>2, <3>3, <3>4
  <2>8. PICK M \in Nat : s \ {x} \in SUBSET (0 .. M)
    BY <2>7
  <2>9. M + x \in Nat /\ s \in SUBSET (0 .. M + x)
    <3>1. x \in Nat
      BY <2>3
    <3>2. ASSUME NEW y \in s PROVE y \in 0 .. M + x
      <4>1. y = x \/ y \in 0 .. M
        BY <2>8
      <4> QED BY <3>1, <4>1
    <3> QED BY <3>1, <3>2
  <2> QED BY <2>3, <2>9
<1>2. Cardinality(S) \in Nat
  BY FS_CardinalityType
<1> QED BY <1>1, <1>2

\* A table exists for the sets that are one element larger.
LEMMA FoldExtends ==
  ASSUME NEW S, IsFiniteSet(S), NEW V, NEW base, NEW pick, NEW step,
         FoldsOver(S, V, base, pick, step), NEW n \in Nat \ {0},
         \E t \in [UpTo(S, n - 1) -> V] :
           \A s \in UpTo(S, n - 1) : IsEntry(t, base, pick, step, s)
  PROVE  \E t \in [UpTo(S, n) -> V] :
           \A s \in UpTo(S, n) : IsEntry(t, base, pick, step, s)
<1>1. PICK t \in [UpTo(S, n - 1) -> V] :
        \A s \in UpTo(S, n - 1) : IsEntry(t, base, pick, step, s)
  OBVIOUS
<1> DEFINE entry(s) == IF s = {} THEN base ELSE step[<<pick[s], t[s \ {pick[s]}]>>]
           u == [s \in UpTo(S, n) |-> entry(s)]
<1>2. ASSUME NEW s \in UpTo(S, n), s # {}
      PROVE  /\ pick[s] \in s /\ pick[s] \in S
             /\ s \ {pick[s]} \in UpTo(S, n - 1) /\ s \ {pick[s]} \in UpTo(S, n)
  <2>1. s \in SUBSET S /\ Cardinality(s) <= n /\ pick[s] \in s
    BY <1>2 DEF UpTo, FoldsOver
  <2>2. /\ s \ {pick[s]} \in SUBSET S
        /\ Cardinality(s) \in Nat /\ Cardinality(s \ {pick[s]}) = Cardinality(s) - 1
    <3>1. PICK r \in SUBSET S : r = s
      BY <2>1
    <3>2. PICK x \in r : x = pick[s]
      BY <2>1, <3>1
    <3> QED BY <3>1, <3>2, OneLess
  <2> QED BY <2>1, <2>2 DEF UpTo
<1>3. ASSUME NEW s \in UpTo(S, n) PROVE entry(s) \in V
  <2>1. CASE s = {}
    BY <2>1 DEF FoldsOver
  <2>2. CASE s # {}
    <3>1. <<pick[s], t[s \ {pick[s]}]>> \in S \X V
      BY <1>1, <1>2, <2>2
    <3> QED BY <2>2, <3>1 DEF FoldsOver
  <2> QED BY <2>1, <2>2
<1>4. u \in [UpTo(S, n) -> V] /\ \A s \in UpTo(S, n) : u[s] = entry(s)
  BY <1>3
<1>5. ASSUME NEW s \in UpTo(S, n - 1) PROVE u[s] = t[s]
  <2>1. s \in UpTo(S, n)
    <3>1. s \in SUBSET S /\ Cardinality(s) <= n - 1
      BY DEF UpTo
    <3>2. Cardinality(s) \in Nat
      BY <3>1, FS_Subset, FS_CardinalityType
    <3> QED BY <3>1, <3>2 DEF UpTo
  <2> QED BY <1>1, <1>4, <2>1 DEF IsEntry
<1> HIDE DEF u
<1>6. ASSUME NEW s \in UpTo(S, n) PROVE IsEntry(u, base, pick, step, s)
  BY <1>2, <1>4, <1>5 DEF IsEntry
<1> QED BY <1>4, <1>6

\* A fold over a finite set has a table, whose values are of the type step keeps.
LEMMA FoldExists ==
  ASSUME NEW S, IsFiniteSet(S), NEW V, NEW base, NEW pick, NEW step,
         FoldsOver(S, V, base, pick, step)
  PROVE  \E t \in [SUBSET S -> V] : IsTable(t, S, base, pick, step)
<1> DEFINE Has(n) == \E t \in [UpTo(S, n) -> V] :
                       \A s \in UpTo(S, n) : IsEntry(t, base, pick, step, s)
           Bad == {n \in Nat : ~Has(n)}
<1>1. Has(0)
  <2> DEFINE t == [s \in UpTo(S, 0) |-> base]
  <2>1. t \in [UpTo(S, 0) -> V]
    BY DEF FoldsOver
  <2>2. ASSUME NEW s \in UpTo(S, 0) PROVE s = {}
    <3>1. s \in SUBSET S /\ Cardinality(s) <= 0
      BY DEF UpTo
    <3>2. IsFiniteSet(s) /\ Cardinality(s) \in Nat
      BY <3>1, FS_Subset, FS_CardinalityType
    <3>3. Cardinality(s) = 0
      BY <3>1, <3>2
    <3> QED BY <3>2, <3>3, FS_EmptySet
  <2>3. \A s \in UpTo(S, 0) : IsEntry(t, base, pick, step, s)
    BY <2>2 DEF IsEntry
  <2> QED BY <2>1, <2>3
<1>2. Bad = {}
  <2> SUFFICES ASSUME Bad # {} PROVE FALSE
    OBVIOUS
  <2> HIDE DEF Has
  <2>1. Bad \in SUBSET Nat
    OBVIOUS
  <2>2. PICK n \in Bad : \A m \in Bad : n <= m
    <3> HIDE DEF Bad
    <3> QED BY <2>1, LeastNumber
  <2>3. n \in Nat \ {0} /\ ~Has(n)
    BY <1>1
  <2>4. n - 1 \in Nat /\ n - 1 \notin Bad
    BY <2>2, <2>3
  <2>5. Has(n - 1)
    BY <2>4
  <2>6. Has(n)
    BY <2>3, <2>5, FoldExtends DEF Has
  <2> QED BY <2>3, <2>6
<1>3. Cardinality(S) \in Nat
  BY FS_CardinalityType
<1>4. Has(Cardinality(S))
  <2> HIDE DEF Has
  <2> QED BY <1>2, <1>3
<1>5. UpTo(S, Cardinality(S)) = SUBSET S
  <2>1. \A s \in SUBSET S : Cardinality(s) <= Cardinality(S)
    BY FS_Subset
  <2> QED BY <2>1 DEF UpTo
<1> QED BY <1>4, <1>5 DEF IsTable

\* The last position of a prefix, and the prefix before it.
LEMMA PrefixLast ==
  ASSUME NEW n \in Nat, NEW k \in 1 .. n
  PROVE  /\ Max(1 .. k) = k /\ (1 .. k) \ {k} = 1 .. k - 1 /\ 1 .. k # {}
         /\ 1 .. k \in SUBSET (1 .. n) /\ 1 .. k - 1 \in SUBSET (1 .. n)
<1>1. 1 .. k \in SUBSET (0 .. n) /\ k \in 1 .. k
  OBVIOUS
<1>2. Max(1 .. k) \in 1 .. k /\ \A i \in 1 .. k : i <= Max(1 .. k)
  <2>1. n \in Nat /\ 1 .. k # {}
    BY <1>1
  <2> QED BY <1>1, <2>1, LastOf
<1>3. Max(1 .. k) = k
  BY <1>1, <1>2
<1> QED BY <1>3

\* A table of a fold from the left: step[<<i, v>>] is what the i-th of n elements
\* makes of v.
IsLeftTable(t, n, base, step) ==
  \A s \in SUBSET (1 .. n) :
    t[s] = IF s = {} THEN base ELSE step[<<Max(s), t[s \ {Max(s)}]>>]

\* The fold from the left has a table.
LEMMA FoldLeftExists ==
  ASSUME NEW n \in Nat, NEW V, NEW base \in V, NEW step \in [(1 .. n) \X V -> V]
  PROVE  \E t \in [SUBSET (1 .. n) -> V] : IsLeftTable(t, n, base, step)
<1> DEFINE S == 1 .. n
           pick == [s \in SUBSET S |-> IF s = {} THEN S ELSE Max(s)]
<1>1. ASSUME NEW s \in SUBSET S, s # {} PROVE Max(s) \in s
  <2>1. s \in SUBSET (0 .. n)
    OBVIOUS
  <2> QED BY <1>1, <2>1, LastOf
<1>2. FoldsOver(S, V, base, pick, step)
  BY <1>1 DEF FoldsOver
<1>3. IsFiniteSet(S)
  BY FS_Interval
<1>4. PICK t \in [SUBSET S -> V] : IsTable(t, S, base, pick, step)
  <2> HIDE DEF S, pick
  <2> QED BY <1>2, <1>3, FoldExists
<1> QED BY <1>4 DEF IsTable, IsEntry, IsLeftTable

\* The entry for s in the table of the sums of w.
IsSum(t, w, s) ==
  t[s] = IF s = {} THEN 0
                   ELSE w[CHOOSE x \in s : TRUE] + t[s \ {CHOOSE x \in s : TRUE}]

\* Counters of finitely many members have a table of sums.
LEMMA SumExists ==
  ASSUME NEW S, IsFiniteSet(S), NEW w \in [S -> Nat]
  PROVE  \E t \in [SUBSET S -> Nat] : \A s \in SUBSET S : IsSum(t, w, s)
<1> DEFINE pick == [s \in SUBSET S |-> IF s = {} THEN S ELSE CHOOSE x \in s : TRUE]
           step == [p \in S \X Nat |-> w[p[1]] + p[2]]
<1>1. \A s \in SUBSET S : s # {} => pick[s] \in s
  OBVIOUS
<1>2. FoldsOver(S, Nat, 0, pick, step)
  <2>1. step \in [S \X Nat -> Nat]
    OBVIOUS
  <2>2. pick \in [SUBSET S -> S \cup {S}]
    OBVIOUS
  <2> HIDE DEF pick, step
  <2> QED BY <1>1, <2>1, <2>2 DEF FoldsOver
<1>3. PICK t \in [SUBSET S -> Nat] : \A s \in SUBSET S : IsEntry(t, 0, pick, step, s)
  <2>1. PICK p : p = pick
    OBVIOUS
  <2>2. PICK f : f = step
    OBVIOUS
  <2> HIDE DEF pick, step
  <2>3. FoldsOver(S, Nat, 0, p, f)
    BY <1>2, <2>1, <2>2
  <2>4. \E t \in [SUBSET S -> Nat] : IsTable(t, S, 0, p, f)
    BY <2>3, FoldExists
  <2> QED BY <2>1, <2>2, <2>4 DEF IsTable
<1>4. ASSUME NEW s \in SUBSET S PROVE IsSum(t, w, s)
  <2>1. CASE s = {}
    BY <1>3, <2>1 DEF IsEntry, IsSum
  <2>2. CASE s # {}
    <3>1. PICK x \in s : x = CHOOSE y \in s : TRUE
      BY <2>2
    <3>2. x \in S /\ pick[s] = x /\ s \ {x} \in SUBSET S
      BY <2>2, <3>1
    <3>3. t[s] = step[<<x, t[s \ {x}]>>]
      <4> HIDE DEF pick, step
      <4> QED BY <1>3, <2>2, <3>2 DEF IsEntry
    <3>4. t[s] = w[x] + t[s \ {x}]
      BY <1>3, <3>2, <3>3
    <3> QED BY <2>2, <3>1, <3>4 DEF IsSum
  <2> QED BY <2>1, <2>2
<1> QED BY <1>4

\* Every such table holds counters.
LEMMA SumIsNat ==
  ASSUME NEW S, IsFiniteSet(S), NEW w \in [S -> Nat], NEW t,
         \A s \in SUBSET S : IsSum(t, w, s)
  PROVE  t[S] \in Nat
<1> DEFINE Bad == {n \in Nat : \E s \in SUBSET S : Cardinality(s) = n /\ t[s] \notin Nat}
<1>1. Bad = {}
  <2> SUFFICES ASSUME Bad # {} PROVE FALSE
    OBVIOUS
  <2>1. Bad \in SUBSET Nat
    OBVIOUS
  <2>2. PICK n \in Bad : \A m \in Bad : n <= m
    <3> HIDE DEF Bad
    <3> QED BY <2>1, LeastNumber
  <2>3. PICK s \in SUBSET S : Cardinality(s) = n /\ t[s] \notin Nat
    BY <2>2
  <2>4. s # {}
    BY <2>3 DEF IsSum
  <2>5. PICK x \in s : x = CHOOSE y \in s : TRUE
    BY <2>4
  <2>6. /\ s \ {x} \in SUBSET S /\ Cardinality(s \ {x}) = n - 1 /\ n \in Nat /\ n # 0
    BY <2>3, OneLess
  <2>7. t[s \ {x}] \in Nat
    <3>1. n - 1 \in Nat /\ n - 1 \notin Bad
      BY <2>2, <2>6
    <3> QED BY <2>6, <3>1
  <2>8. t[s] = w[x] + t[s \ {x}]
    BY <2>3, <2>4, <2>5 DEF IsSum
  <2>9. w[x] \in Nat
    BY <2>3
  <2> QED BY <2>3, <2>7, <2>8, <2>9
<1>2. Cardinality(S) \in Nat
  BY FS_CardinalityType
<1> QED BY <1>1, <1>2
=============================================================================
