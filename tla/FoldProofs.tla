----------------------------- MODULE FoldProofs -----------------------------
(* The folds of the community modules that the specifications use.         *)
EXTENDS Integers, SequencesExt, FiniteSetTheorems, SequenceTheorems,
        WellFoundedInduction, TLAPS

(* Every non-empty set of naturals has a smallest element: what the        *)
(* inductions below are done with.                                         *)
LEMMA Smallest ==
  ASSUME NEW T \in SUBSET Nat, T # {}
  PROVE  \E n \in T : \A m \in T : n <= m
<1>1. PICK n \in T : \A m \in T : <<m, n>> \notin OpToRel(<, Nat)
  BY NatLessThanWellFounded, WFMin
<1>2. ASSUME NEW m \in T PROVE n <= m
  <2>1. n \in Nat /\ m \in Nat
    OBVIOUS
  <2>2. ~(m < n)
    BY <1>1, <2>1 DEF OpToRel
  <2> QED BY <2>1, <2>2
<1> QED BY <1>2

LEMMA LargestIsMax ==
  ASSUME NEW T \in SUBSET Int, NEW i \in T, \A j \in T : j <= i
  PROVE  Max(T) = i
<1>1. \E k \in T : \A j \in T : k >= j
  OBVIOUS
<1>2. Max(T) \in T /\ \A j \in T : Max(T) >= j
  BY <1>1 DEF Max
<1>3. Max(T) <= i /\ i <= Max(T) /\ Max(T) \in Int
  BY <1>2
<1> QED BY <1>3

(* A function that flattens the first n sequences of s, step by step.      *)
IsFlattening(f, s, n) ==
  f = [i \in 1..n |-> IF i = 1 THEN s[i] ELSE f[i - 1] \o s[i]]

LEMMA FlatteningExists ==
  ASSUME NEW s, NEW n \in Nat
  PROVE  \E f : IsFlattening(f, s, n)
<1> DEFINE T == {k \in Nat : ~\E f : IsFlattening(f, s, k)}
<1> SUFFICES ASSUME T # {} PROVE FALSE
  OBVIOUS
<1>1. PICK k \in T : \A m \in T : k <= m
  BY Smallest
<1>2. k # 0
  <2>1. IsFlattening([i \in 1..0 |-> s[i]], s, 0)
    BY DEF IsFlattening
  <2> QED BY <1>1, <2>1
<1>3. PICK f : IsFlattening(f, s, k - 1)
  <2>1. k - 1 \in Nat /\ k - 1 \notin T
    BY <1>1, <1>2
  <2> QED BY <2>1
<1> DEFINE g == [i \in 1..k |-> IF i = k THEN IF k = 1 THEN s[k] ELSE f[k - 1] \o s[k]
                                         ELSE f[i]]
<1>4. IsFlattening(g, s, k)
  <2> DEFINE step(i) == IF i = 1 THEN s[i] ELSE g[i - 1] \o s[i]
  <2>1. ASSUME NEW i \in 1..(k - 1) PROVE g[i] = step(i)
    <3>1. f[i] = IF i = 1 THEN s[i] ELSE f[i - 1] \o s[i]
      BY <1>3, Zenon DEF IsFlattening
    <3>2. g[i] = f[i] /\ (i # 1 => g[i - 1] = f[i - 1])
      BY <1>2
    <3> QED BY <3>1, <3>2
  <2>2. g[k] = step(k)
    <3>1. k \in 1..k /\ (k # 1 => k - 1 \in 1..k /\ k - 1 # k)
      BY <1>2
    <3> QED BY <3>1
  <2>3. 1..k = 1..(k - 1) \cup {k}
    BY <1>2
  <2>4. g = [i \in 1..k |-> step(i)]
    BY <2>1, <2>2, <2>3
  <2> QED BY <2>4 DEF IsFlattening
<1> QED BY <1>1, <1>4

LEMMA FlatteningUnique ==
  ASSUME NEW s, NEW n \in Nat, NEW m \in Nat, NEW f, NEW g,
         IsFlattening(f, s, n), IsFlattening(g, s, m)
  PROVE  \A i \in 1..n : i <= m => f[i] = g[i]
<1> DEFINE T == {i \in 1..n : i <= m /\ f[i] # g[i]}
<1> SUFFICES ASSUME T # {} PROVE FALSE
  OBVIOUS
<1>1. PICK k \in T : \A j \in T : k <= j
  <2>1. T \in SUBSET Nat
    OBVIOUS
  <2> QED BY <2>1, Smallest
<1>2. k # 1 => f[k - 1] = g[k - 1]
  BY <1>1
<1>3. f[k] = IF k = 1 THEN s[k] ELSE f[k - 1] \o s[k]
  BY DEF IsFlattening
<1>4. g[k] = IF k = 1 THEN s[k] ELSE g[k - 1] \o s[k]
  <2>1. k \in 1..m
    OBVIOUS
  <2> QED BY <2>1, Zenon DEF IsFlattening
<1> QED BY <1>2, <1>3, <1>4

LEMMA FlattenIs ==
  ASSUME NEW S, NEW s \in Seq(S), s # <<>>
  PROVE  \E f : IsFlattening(f, s, Len(s)) /\ FlattenSeq(s) = f[Len(s)]
<1>1. Len(s) \in Nat /\ Len(s) # 0
  BY LenProperties, EmptySeq
<1>2. \E f : IsFlattening(f, s, Len(s))
  BY <1>1, FlatteningExists
<1> QED BY <1>1, <1>2 DEF FlattenSeq, IsFlattening

LEMMA FlatteningTypes ==
  ASSUME NEW S, NEW s \in Seq(Seq(S)), NEW f, IsFlattening(f, s, Len(s))
  PROVE  \A i \in 1..Len(s) : f[i] \in Seq(S)
<1> DEFINE T == {i \in 1..Len(s) : f[i] \notin Seq(S)}
<1> SUFFICES ASSUME T # {} PROVE FALSE
  OBVIOUS
<1>1. PICK k \in T : \A j \in T : k <= j
  <2>1. T \in SUBSET Nat
    BY LenProperties
  <2> QED BY <2>1, Smallest
<1>2. Len(s) \in Nat /\ k \in 1..Len(s) /\ s[k] \in Seq(S)
  BY LenProperties, ElementOfSeq
<1>3. f[k] = IF k = 1 THEN s[k] ELSE f[k - 1] \o s[k]
  BY <1>2, Zenon DEF IsFlattening
<1>4. k # 1 => f[k - 1] \in Seq(S)
  BY <1>1, <1>2
<1>5. k # 1 => f[k - 1] \o s[k] \in Seq(S)
  BY <1>2, <1>4, ConcatProperties
<1> QED BY <1>2, <1>3, <1>5

LEMMA FlattenEmpty == FlattenSeq(<<>>) = <<>>
BY EmptySeq DEF FlattenSeq

LEMMA FlattenAppend ==
  ASSUME NEW S, NEW s \in Seq(Seq(S)), NEW x \in Seq(S)
  PROVE  /\ FlattenSeq(s) \in Seq(S)
         /\ FlattenSeq(Append(s, x)) = FlattenSeq(s) \o x
<1> SUFFICES ASSUME NEW t, t = Append(s, x)
             PROVE  FlattenSeq(s) \in Seq(S) /\ FlattenSeq(t) = FlattenSeq(s) \o x
  OBVIOUS
<1>1. /\ t \in Seq(Seq(S)) /\ t # <<>> /\ Len(t) = Len(s) + 1 /\ Len(s) \in Nat
      /\ \A i \in 1..Len(s) : t[i] = s[i]
      /\ t[Len(s) + 1] = x
  BY AppendProperties, LenProperties
<1>2. PICK f : IsFlattening(f, t, Len(t)) /\ FlattenSeq(t) = f[Len(t)]
  BY <1>1, FlattenIs
<1>3. f[Len(t)] = IF Len(t) = 1 THEN t[Len(t)] ELSE f[Len(t) - 1] \o t[Len(t)]
  <2>1. Len(t) \in 1..Len(t)
    BY <1>1
  <2> QED BY <1>2, <2>1, Zenon DEF IsFlattening
<1>4. CASE s = <<>>
  <2>1. FlattenSeq(s) = <<>> /\ Len(s) = 0
    BY <1>4, EmptySeq DEF FlattenSeq
  <2>2. FlattenSeq(s) \in Seq(S)
    BY <2>1, EmptySeq
  <2>3. <<>> \o x = x
    BY ConcatEmptySeq
  <2> QED BY <1>1, <1>2, <1>3, <2>1, <2>2, <2>3
<1>5. CASE s # <<>>
  <2>1. PICK g : IsFlattening(g, s, Len(s)) /\ FlattenSeq(s) = g[Len(s)]
    BY <1>5, FlattenIs
  <2>2. Len(s) \in 1..Len(s)
    BY <1>1, <1>5, EmptySeq
  <2>3. FlattenSeq(s) \in Seq(S)
    BY <2>1, <2>2, FlatteningTypes
  <2>4. IsFlattening(g, t, Len(s))
    <3>1. \A i \in 1..Len(s) : s[i] = t[i]
      BY <1>1
    <3> DEFINE a == [i \in 1..Len(s) |-> IF i = 1 THEN s[i] ELSE g[i - 1] \o s[i]]
               b == [i \in 1..Len(s) |-> IF i = 1 THEN t[i] ELSE g[i - 1] \o t[i]]
    <3>2. g = a
      BY <2>1, Zenon DEF IsFlattening
    <3>3. a = b
      BY <3>1, Zenon
    <3>4. g = b
      BY <3>2, <3>3
    <3> QED BY <3>4, Zenon DEF IsFlattening
  <2>5. f[Len(s)] = g[Len(s)]
    <3>1. Len(t) \in Nat /\ Len(s) <= Len(t)
      BY <1>1
    <3>2. \A i \in 1..Len(s) : i <= Len(t) => g[i] = f[i]
      <4>1. IsFlattening(f, t, Len(t)) /\ Len(s) \in Nat
        BY <1>1, <1>2
      <4> QED BY <2>4, <3>1, <4>1, FlatteningUnique
    <3> QED BY <2>2, <3>1, <3>2
  <2>6. Len(t) # 1 /\ Len(t) - 1 = Len(s) /\ t[Len(t)] = x
    BY <1>1, <2>2
  <2>7. FlattenSeq(t) = g[Len(s)] \o x
    BY <1>2, <1>3, <2>5, <2>6
  <2> QED BY <2>1, <2>3, <2>7
<1> QED BY <1>4, <1>5

(* The same for a sequence known by its elements.                          *)
LEMMA FlattenGrown ==
  ASSUME NEW S, NEW n \in Nat,
         NEW s \in [1..n -> Seq(S)], NEW t \in [1..(n + 1) -> Seq(S)],
         \A i \in 1..n : t[i] = s[i]
  PROVE  /\ FlattenSeq(s) \in Seq(S)
         /\ FlattenSeq(t) = FlattenSeq(s) \o t[n + 1]
<1> SUFFICES ASSUME NEW x \in Seq(S), x = t[n + 1], NEW u, u = Append(s, x)
             PROVE  FlattenSeq(s) \in Seq(S) /\ FlattenSeq(t) = FlattenSeq(s) \o x
  BY n + 1 \in 1..(n + 1)
<1>1. /\ s \in Seq(Seq(S)) /\ Len(s) = n
      /\ t \in Seq(Seq(S)) /\ Len(t) = n + 1
  OBVIOUS
<1>2. /\ u \in Seq(Seq(S)) /\ Len(u) = n + 1
      /\ \A i \in 1..n : u[i] = s[i]
      /\ u[n + 1] = x
  BY <1>1, AppendProperties
<1>3. ASSUME NEW i \in 1..(n + 1) PROVE t[i] = u[i]
  <2>1. i \in 1..n \/ i = n + 1
    OBVIOUS
  <2> QED BY <1>2, <2>1
<1>4. t = u
  BY <1>1, <1>2, <1>3, SeqEqual
<1> QED BY <1>1, <1>4, FlattenAppend

LEMMA PrefixOfConcat ==
  ASSUME NEW S, NEW s \in Seq(S), NEW t \in Seq(S)
  PROVE  IsPrefix(s, s \o t)
<1>1. /\ Len(s) \in Nat /\ Len(t) \in Nat /\ Len(s \o t) = Len(s) + Len(t)
      /\ s \o t \in Seq(S)
  BY ConcatProperties, LenProperties
<1>2. SubSeq(s, 1, Len(s)) = SubSeq(s \o t, 1, Len(s))
  <2>1. CASE Len(s) = 0
    BY <2>1, SubSeqEmpty
  <2>2. CASE Len(s) # 0
    <3>1. 1 \in 1..Len(s) /\ Len(s) \in 1..Len(s)
      BY <1>1, <2>2
    <3>2. SubSeq(s \o t, 1, Len(s)) = SubSeq(s, 1, Len(s))
      BY <3>1, SubSeqOfConcat1
    <3> QED BY <3>2
  <2> QED BY <2>1, <2>2
<1> QED BY <1>1, <1>2 DEF IsPrefix

(* The first element of t moves to the end of s.                           *)
LEMMA MoveHead ==
  ASSUME NEW S, NEW s \in Seq(S), NEW t \in Seq(S), t # <<>>
  PROVE  Append(s, Head(t)) \o Tail(t) = s \o t
<1> SUFFICES ASSUME NEW a, a = Append(s, Head(t)), NEW u, u = Tail(t),
                    NEW l, l = a \o u, NEW r, r = s \o t
             PROVE  l = r
  OBVIOUS
<1>1. /\ Head(t) \in S /\ u \in Seq(S) /\ Len(u) = Len(t) - 1
      /\ \A i \in 1..Len(u) : u[i] = t[i + 1]
      /\ Head(t) = t[1] /\ Len(t) \in Nat \ {0} /\ Len(s) \in Nat
  BY HeadTailProperties, LenProperties, EmptySeq
<1>2. /\ a \in Seq(S) /\ Len(a) = Len(s) + 1 /\ a[Len(s) + 1] = t[1]
      /\ \A i \in 1..Len(s) : a[i] = s[i]
  BY <1>1, AppendProperties
<1>3. /\ l \in Seq(S) /\ Len(l) = Len(s) + Len(t)
      /\ \A i \in 1..Len(s) + Len(t) :
           l[i] = IF i <= Len(s) + 1 THEN a[i] ELSE u[i - (Len(s) + 1)]
  BY <1>1, <1>2, ConcatProperties
<1>4. /\ r \in Seq(S) /\ Len(r) = Len(s) + Len(t)
      /\ \A i \in 1..Len(s) + Len(t) : r[i] = IF i <= Len(s) THEN s[i] ELSE t[i - Len(s)]
  BY ConcatProperties
<1>5. ASSUME NEW i \in 1..Len(s) + Len(t) PROVE l[i] = r[i]
  <2>1. CASE i <= Len(s)
    <3>1. i \in 1..Len(s)
      BY <1>1, <2>1
    <3> QED BY <1>1, <1>2, <1>3, <1>4, <2>1, <3>1
  <2>2. CASE i = Len(s) + 1
    <3>1. r[i] = t[1] /\ l[i] = a[i]
      BY <1>1, <1>3, <1>4, <2>2
    <3> QED BY <1>2, <2>2, <3>1
  <2>3. CASE i > Len(s) + 1
    <3>1. i - (Len(s) + 1) \in 1..Len(u)
      BY <1>1, <2>3
    <3>2. u[i - (Len(s) + 1)] = t[(i - (Len(s) + 1)) + 1]
      BY <1>1, <3>1
    <3>3. (i - (Len(s) + 1)) + 1 = i - Len(s)
      BY <1>1
    <3>4. l[i] = u[i - (Len(s) + 1)] /\ r[i] = t[i - Len(s)]
      BY <1>1, <1>3, <1>4, <2>3
    <3> QED BY <3>2, <3>3, <3>4
  <2> QED BY <1>1, <2>1, <2>2, <2>3
<1> QED BY <1>3, <1>4, <1>5, SeqEqual

-----------------------------------------------------------------------------
(* The element a fold takes out of a set, and the partial sums of f over   *)
(* the subsets of S of at most n elements, one element at a time.          *)
Pick(T) == CHOOSE x \in T : TRUE

SmallSubsets(S, n) == {T \in SUBSET S : Cardinality(T) <= n}

AddPicked(g, f, T) == IF T = {} THEN 0 ELSE f[Pick(T)] + g[T \ {Pick(T)}]

IsSummation(g, f, D) == g = [T \in D |-> AddPicked(g, f, T)]

LEMMA PickSmaller ==
  ASSUME NEW T, IsFiniteSet(T), T # {}
  PROVE  /\ Pick(T) \in T
         /\ IsFiniteSet(T \ {Pick(T)})
         /\ Cardinality(T) \in Nat \ {0}
         /\ Cardinality(T \ {Pick(T)}) = Cardinality(T) - 1
<1>1. Pick(T) \in T
  BY DEF Pick
<1> QED BY <1>1, FS_RemoveElement, FS_CardinalityType, FS_EmptySet

LEMMA SummationAt ==
  ASSUME NEW D, NEW g, NEW f, IsSummation(g, f, D), NEW T \in D
  PROVE  g[T] = AddPicked(g, f, T)
BY Zenon DEF IsSummation

LEMMA SummationExists ==
  ASSUME NEW S, IsFiniteSet(S), NEW f, NEW n \in Nat
  PROVE  \E g : IsSummation(g, f, SmallSubsets(S, n))
<1> DEFINE Bad == {k \in Nat : ~\E g : IsSummation(g, f, SmallSubsets(S, k))}
<1> SUFFICES ASSUME Bad # {} PROVE FALSE
  OBVIOUS
<1>1. PICK k \in Bad : \A m \in Bad : k <= m
  <2>1. Bad \in SUBSET Nat
    OBVIOUS
  <2> QED BY <2>1, Smallest
<1>2. \A T \in SUBSET S : IsFiniteSet(T) /\ Cardinality(T) \in Nat
  BY FS_Subset, FS_CardinalityType
<1>3. ASSUME NEW g, NEW h, \A T \in SmallSubsets(S, k) : h[T] = AddPicked(g, f, T),
             h = [T \in SmallSubsets(S, k) |-> h[T]],
             \A T \in SmallSubsets(S, k) : T # {} => g[T \ {Pick(T)}] = h[T \ {Pick(T)}]
      PROVE  FALSE
  <2>1. \A T \in SmallSubsets(S, k) : h[T] = AddPicked(h, f, T)
    BY <1>3 DEF AddPicked
  <2>2. h = [T \in SmallSubsets(S, k) |-> AddPicked(h, f, T)]
    BY <1>3, <2>1, Zenon
  <2> QED BY <1>1, <2>2 DEF IsSummation
<1>4. CASE k = 0
  <2> DEFINE h == [T \in SmallSubsets(S, 0) |-> 0]
  <2>1. \A T \in SmallSubsets(S, 0) : T = {}
    BY <1>2, FS_EmptySet DEF SmallSubsets
  <2>2. \A T \in SmallSubsets(S, 0) : h[T] = AddPicked(h, f, T)
    BY <2>1 DEF AddPicked
  <2> QED BY <1>3, <1>4, <2>1, <2>2
<1>5. CASE k # 0
  <2>1. PICK g : IsSummation(g, f, SmallSubsets(S, k - 1))
    <3>1. k - 1 \in Nat /\ k - 1 \notin Bad
      BY <1>1, <1>5
    <3> QED BY <3>1
  <2> DEFINE h == [T \in SmallSubsets(S, k) |-> AddPicked(g, f, T)]
  <2>2. ASSUME NEW T \in SmallSubsets(S, k), T # {}
        PROVE  g[T \ {Pick(T)}] = h[T \ {Pick(T)}]
    <3> DEFINE U == T \ {Pick(T)}
    <3>1. U \in SUBSET S /\ Cardinality(U) = Cardinality(T) - 1 /\ Cardinality(T) \in Nat
      BY <1>2, <2>2, PickSmaller DEF SmallSubsets
    <3>2. U \in SmallSubsets(S, k - 1) /\ U \in SmallSubsets(S, k)
      BY <3>1 DEF SmallSubsets
    <3> HIDE DEF U
    <3>3. g[U] = AddPicked(g, f, U)
      BY <2>1, <3>2, SummationAt
    <3>4. h[U] = AddPicked(g, f, U)
      BY <3>2
    <3> QED BY <3>3, <3>4 DEF U
  <2>3. /\ \A T \in SmallSubsets(S, k) : h[T] = AddPicked(g, f, T)
        /\ h = [T \in SmallSubsets(S, k) |-> h[T]]
    OBVIOUS
  <2> HIDE DEF h
  <2> QED BY <1>3, <2>2, <2>3
<1> QED BY <1>4, <1>5

LEMMA SummationUnique ==
  ASSUME NEW S, IsFiniteSet(S), NEW D, NEW E, NEW f, NEW g, NEW h,
         IsSummation(g, f, D), IsSummation(h, f, E),
         SUBSET S \subseteq D, SUBSET S \subseteq E
  PROVE  g[S] = h[S]
<1> DEFINE Bad == {n \in Nat : \E T \in SUBSET S : Cardinality(T) = n /\ g[T] # h[T]}
<1>1. \A T \in SUBSET S : IsFiniteSet(T) /\ Cardinality(T) \in Nat
  BY FS_Subset, FS_CardinalityType
<1> SUFFICES ASSUME Bad # {} PROVE FALSE
  BY <1>1
<1>2. PICK n \in Bad : \A m \in Bad : n <= m
  <2>1. Bad \in SUBSET Nat
    OBVIOUS
  <2> QED BY <2>1, Smallest
<1>3. PICK T \in SUBSET S : Cardinality(T) = n /\ g[T] # h[T]
  OBVIOUS
<1>4. g[T] = AddPicked(g, f, T) /\ h[T] = AddPicked(h, f, T)
  BY SummationAt
<1>5. T # {}
  BY <1>3, <1>4 DEF AddPicked
<1>6. g[T \ {Pick(T)}] = h[T \ {Pick(T)}]
  <2>1. /\ Cardinality(T \ {Pick(T)}) \in Nat
        /\ Cardinality(T \ {Pick(T)}) < n
        /\ T \ {Pick(T)} \in SUBSET S
    BY <1>1, <1>3, <1>5, PickSmaller
  <2>2. Cardinality(T \ {Pick(T)}) \notin Bad
    <3> HIDE DEF Bad
    <3>1. \A m \in Bad : n <= m /\ n \in Nat
      BY <1>2 DEF Bad
    <3> QED BY <2>1, <3>1
  <2> QED BY <2>1, <2>2
<1> QED BY <1>3, <1>4, <1>5, <1>6 DEF AddPicked

(* What the community module's sum is, without its recursion.              *)
LEMMA SumIs ==
  ASSUME NEW S, IsFiniteSet(S), NEW f
  PROVE  \E g : IsSummation(g, f, SUBSET S) /\ SumFunctionOnSet(f, S) = g[S]
<1>1. \A T \in SUBSET S : Cardinality(T) <= Cardinality(S)
  BY FS_Subset
<1>2. SmallSubsets(S, Cardinality(S)) = SUBSET S
  BY <1>1 DEF SmallSubsets
<1>3. \E g : IsSummation(g, f, SUBSET S)
  <2>1. Cardinality(S) \in Nat
    BY FS_CardinalityType
  <2>2. \E g : IsSummation(g, f, SmallSubsets(S, Cardinality(S)))
    BY <2>1, SummationExists
  <2> QED BY <1>2, <2>2
<1> DEFINE iter == CHOOSE g : g = [T \in SUBSET S |-> IF T = {} THEN 0
                              ELSE f[CHOOSE x \in T : TRUE] + g[T \ {CHOOSE x \in T : TRUE}]]
<1>4. SumFunctionOnSet(f, S) = iter[S]
  BY Zenon DEF SumFunctionOnSet, FoldFunctionOnSet, MapThenFoldSet
<1>5. IsSummation(iter, f, SUBSET S)
  BY <1>3, Zenon DEF IsSummation, AddPicked, Pick
<1> HIDE DEF iter
<1> QED BY <1>4, <1>5

LEMMA SumEmpty ==
  ASSUME NEW f
  PROVE  SumFunctionOnSet(f, {}) = 0
<1>1. PICK g : IsSummation(g, f, SUBSET {}) /\ SumFunctionOnSet(f, {}) = g[{}]
  BY SumIs, FS_EmptySet
<1>2. g[{}] = AddPicked(g, f, {})
  BY <1>1, SummationAt
<1> QED BY <1>1, <1>2 DEF AddPicked

LEMMA SumStep ==
  ASSUME NEW S, IsFiniteSet(S), S # {}, NEW f
  PROVE  SumFunctionOnSet(f, S) = f[Pick(S)] + SumFunctionOnSet(f, S \ {Pick(S)})
<1> DEFINE R == S \ {Pick(S)}
<1>1. PICK g : IsSummation(g, f, SUBSET S) /\ SumFunctionOnSet(f, S) = g[S]
  BY SumIs
<1>2. IsFiniteSet(R)
  BY PickSmaller
<1>3. PICK h : IsSummation(h, f, SUBSET R) /\ SumFunctionOnSet(f, R) = h[R]
  BY <1>2, SumIs
<1>4. SUBSET R \subseteq SUBSET S
  OBVIOUS
<1>5. g[S] = f[Pick(S)] + g[R]
  <2>1. g[S] = AddPicked(g, f, S)
    BY <1>1, SummationAt
  <2> QED BY <2>1 DEF AddPicked
<1> HIDE DEF R
<1>6. g[R] = h[R]
  BY <1>1, <1>2, <1>3, <1>4, SummationUnique
<1> QED BY <1>1, <1>3, <1>5, <1>6 DEF R

(* Only the values at the elements of the set count.                       *)
LEMMA SumSame ==
  ASSUME NEW S, IsFiniteSet(S), NEW f, NEW h, \A x \in S : f[x] = h[x]
  PROVE  SumFunctionOnSet(f, S) = SumFunctionOnSet(h, S)
<1> DEFINE Differ(T) == SumFunctionOnSet(f, T) # SumFunctionOnSet(h, T)
           Bad == {n \in Nat : \E T \in SUBSET S : Cardinality(T) = n /\ Differ(T)}
<1>1. \A T \in SUBSET S : IsFiniteSet(T) /\ Cardinality(T) \in Nat
  BY FS_Subset, FS_CardinalityType
<1> SUFFICES ASSUME Bad # {} PROVE FALSE
  <2> HIDE DEF Differ
  <2>1. ~Differ(S)
    BY <1>1
  <2> QED BY <2>1 DEF Differ
<1>2. PICK n \in Bad : \A m \in Bad : n <= m
  <2>1. Bad \in SUBSET Nat
    OBVIOUS
  <2> QED BY <2>1, Smallest
<1>3. PICK T \in SUBSET S : Cardinality(T) = n /\ Differ(T)
  OBVIOUS
<1>4. T # {}
  BY <1>3, SumEmpty
<1>5. PICK x \in T : x = Pick(T)
  BY <1>4, <1>1, PickSmaller
<1>6. ~Differ(T \ {x})
  <2>1. /\ Cardinality(T \ {x}) \in Nat
        /\ Cardinality(T \ {x}) < n
        /\ T \ {x} \in SUBSET S
    BY <1>1, <1>3, <1>4, <1>5, PickSmaller
  <2>2. Cardinality(T \ {x}) \notin Bad
    <3> HIDE DEF Bad
    <3>1. \A m \in Bad : n <= m /\ n \in Nat
      BY <1>2 DEF Bad
    <3> QED BY <2>1, <3>1
  <2> HIDE DEF Differ
  <2> QED BY <2>1, <2>2
<1>7. /\ SumFunctionOnSet(f, T) = f[x] + SumFunctionOnSet(f, T \ {x})
      /\ SumFunctionOnSet(h, T) = h[x] + SumFunctionOnSet(h, T \ {x})
  BY <1>1, <1>4, <1>5, SumStep
<1> QED BY <1>3, <1>6, <1>7

LEMMA SumType ==
  ASSUME NEW S, IsFiniteSet(S), NEW f, \A x \in S : f[x] \in Nat
  PROVE  SumFunctionOnSet(f, S) \in Nat
<1> DEFINE Wrong(T) == SumFunctionOnSet(f, T) \notin Nat
           Bad == {n \in Nat : \E T \in SUBSET S : Cardinality(T) = n /\ Wrong(T)}
<1>1. \A T \in SUBSET S : IsFiniteSet(T) /\ Cardinality(T) \in Nat
  BY FS_Subset, FS_CardinalityType
<1> SUFFICES ASSUME Bad # {} PROVE FALSE
  <2> HIDE DEF Wrong
  <2>1. ~Wrong(S)
    BY <1>1
  <2> QED BY <2>1 DEF Wrong
<1>2. PICK n \in Bad : \A m \in Bad : n <= m
  <2>1. Bad \in SUBSET Nat
    OBVIOUS
  <2> QED BY <2>1, Smallest
<1>3. PICK T \in SUBSET S : Cardinality(T) = n /\ Wrong(T)
  OBVIOUS
<1>4. T # {}
  BY <1>3, SumEmpty
<1>5. PICK x \in T : x = Pick(T)
  BY <1>4, <1>1, PickSmaller
<1>6. ~Wrong(T \ {x})
  <2>1. /\ Cardinality(T \ {x}) \in Nat
        /\ Cardinality(T \ {x}) < n
        /\ T \ {x} \in SUBSET S
    BY <1>1, <1>3, <1>4, <1>5, PickSmaller
  <2>2. Cardinality(T \ {x}) \notin Bad
    <3> HIDE DEF Bad
    <3>1. \A m \in Bad : n <= m /\ n \in Nat
      BY <1>2 DEF Bad
    <3> QED BY <2>1, <3>1
  <2> HIDE DEF Wrong
  <2> QED BY <2>1, <2>2
<1>7. SumFunctionOnSet(f, T) = f[x] + SumFunctionOnSet(f, T \ {x})
  BY <1>1, <1>4, <1>5, SumStep
<1> QED BY <1>3, <1>6, <1>7

(* The order in which the elements are taken out does not matter: an       *)
(* element that is added adds its value.                                   *)
LEMMA SumInsert ==
  ASSUME NEW S, IsFiniteSet(S), NEW x, x \notin S, NEW f,
         \A y \in S \cup {x} : f[y] \in Nat
  PROVE  SumFunctionOnSet(f, S \cup {x}) = f[x] + SumFunctionOnSet(f, S)
<1> DEFINE U == S \cup {x}
           Adds(T, y) == SumFunctionOnSet(f, T \cup {y}) = f[y] + SumFunctionOnSet(f, T)
           Bad == {n \in Nat : \E T \in SUBSET U, y \in U :
                                  y \notin T /\ Cardinality(T) = n /\ ~Adds(T, y)}
<1>1. /\ IsFiniteSet(U)
      /\ \A T \in SUBSET U : IsFiniteSet(T) /\ Cardinality(T) \in Nat
  <2>1. IsFiniteSet(U)
    BY FS_AddElement
  <2> QED BY <2>1, FS_Subset, FS_CardinalityType
<1> SUFFICES ASSUME Bad # {} PROVE FALSE
  <2> HIDE DEF Adds
  <2>1. Adds(S, x)
    BY <1>1
  <2> QED BY <2>1 DEF Adds
<1>2. PICK n \in Bad : \A m \in Bad : n <= m
  <2>1. Bad \in SUBSET Nat
    OBVIOUS
  <2> QED BY <2>1, Smallest
<1>3. PICK T \in SUBSET U, y \in U : y \notin T /\ Cardinality(T) = n /\ ~Adds(T, y)
  OBVIOUS
<1>4. \A R \in SUBSET U : SumFunctionOnSet(f, R) \in Nat
  BY <1>1, SumType
<1>5. PICK a \in T \cup {y} : a = Pick(T \cup {y})
  BY DEF Pick
<1>6. SumFunctionOnSet(f, T \cup {y}) = f[a] + SumFunctionOnSet(f, (T \cup {y}) \ {a})
  <2>1. IsFiniteSet(T \cup {y}) /\ T \cup {y} # {}
    BY <1>1
  <2> QED BY <1>5, <2>1, SumStep
<1>7. a # y
  <2>1. a = y => (T \cup {y}) \ {a} = T
    <3>1. y \notin T
      BY <1>3
    <3> HIDE DEF Bad, Adds, U
    <3> QED BY <3>1
  <2> QED BY <1>3, <1>6, <2>1
<1> DEFINE R == T \ {a}
<1>8. a \in T /\ a \notin R /\ y \notin R /\ R \in SUBSET U /\ a \in U /\ y \in U
      /\ (T \cup {y}) \ {a} = R \cup {y} /\ R \cup {a} = T
  <2>1. y \notin T
    BY <1>3
  <2> HIDE DEF Bad, Adds, U
  <2> QED BY <1>7, <2>1
<1>9. Adds(R, y) /\ Adds(R, a)
  <2>1. Cardinality(R) \in Nat /\ Cardinality(R) < n
    BY <1>1, <1>3, <1>8, FS_RemoveElement
  <2>2. Cardinality(R) \notin Bad
    <3> HIDE DEF Bad
    <3>1. \A m \in Bad : n <= m /\ n \in Nat
      BY <1>2 DEF Bad
    <3> QED BY <2>1, <3>1
  <2> HIDE DEF Adds, R
  <2> QED BY <1>8, <2>1, <2>2
<1>10. f[a] \in Nat /\ f[y] \in Nat /\ SumFunctionOnSet(f, R) \in Nat
  BY <1>4, <1>8
<1>11. /\ SumFunctionOnSet(f, R \cup {y}) = f[y] + SumFunctionOnSet(f, R)
       /\ SumFunctionOnSet(f, T) = f[a] + SumFunctionOnSet(f, R)
       /\ SumFunctionOnSet(f, T \cup {y}) = f[a] + SumFunctionOnSet(f, R \cup {y})
  <2> HIDE DEF R, U, Bad
  <2> QED BY <1>6, <1>8, <1>9
<1> HIDE DEF R, U, Bad
<1>12. Adds(T, y)
  BY <1>10, <1>11
<1> QED BY <1>3, <1>12

LEMMA SumSeqType ==
  ASSUME NEW s \in Seq(Nat)
  PROVE  SumFunction(s) \in Nat
<1>1. Len(s) \in Nat /\ DOMAIN s = 1..Len(s) /\ \A i \in 1..Len(s) : s[i] \in Nat
  BY LenProperties, ElementOfSeq
<1>2. IsFiniteSet(DOMAIN s)
  BY <1>1, FS_Interval
<1> QED BY <1>1, <1>2, SumType DEF SumFunction

(* A sequence to which a number is appended.                               *)
LEMMA SumAppend ==
  ASSUME NEW s \in Seq(Nat), NEW n \in Nat
  PROVE  SumFunction(Append(s, n)) = SumFunction(s) + n
<1> SUFFICES ASSUME NEW t, t = Append(s, n) PROVE SumFunction(t) = SumFunction(s) + n
  OBVIOUS
<1>1. /\ Len(s) \in Nat /\ DOMAIN s = 1..Len(s) /\ DOMAIN t = 1..(Len(s) + 1)
      /\ \A i \in 1..Len(s) : t[i] = s[i] /\ s[i] \in Nat
      /\ t[Len(s) + 1] = n
  BY AppendProperties, LenProperties, ElementOfSeq
<1>2. /\ DOMAIN t = DOMAIN s \cup {Len(s) + 1} /\ Len(s) + 1 \notin DOMAIN s
      /\ IsFiniteSet(DOMAIN s)
  <2>1. IsFiniteSet(DOMAIN s)
    BY <1>1, FS_Interval
  <2> QED BY <1>1, <2>1
<1>3. \A i \in DOMAIN s \cup {Len(s) + 1} : t[i] \in Nat
  BY <1>1
<1>4. SumFunctionOnSet(t, DOMAIN t) = t[Len(s) + 1] + SumFunctionOnSet(t, DOMAIN s)
  BY <1>2, <1>3, SumInsert
<1>5. SumFunctionOnSet(t, DOMAIN s) = SumFunctionOnSet(s, DOMAIN s)
  BY <1>1, <1>2, SumSame
<1>6. SumFunctionOnSet(s, DOMAIN s) \in Nat
  BY <1>1, <1>2, SumType
<1> QED BY <1>1, <1>4, <1>5, <1>6 DEF SumFunction
=============================================================================
