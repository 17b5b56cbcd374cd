------------------------------ MODULE SetSums -------------------------------
(***************************************************************************)
(* Sums over finite sets: what SumFunctionOnSet of the module Functions    *)
(* computes, for every function and every finite set.  Induction goes by   *)
(* a smallest counterexample: a non-empty set of subsets of a finite set   *)
(* has a member that is in it no longer when any element is taken away.    *)
(***************************************************************************)
EXTENDS Integers, FiniteSetsExt, Functions, FiniteSetTheorems, WellFoundedInduction,
        TLAPS

\* A set of natural numbers has a least element.
LEMMA NatMin ==
    ASSUME NEW T \in SUBSET Nat, T # {}
    PROVE  \E n \in T : \A m \in T : n <= m
  <1> DEFINE R == {ss \in Nat \X Nat : ss[1] < ss[2]}
  <1>1. IsWellFoundedOn(R, Nat)
    BY NatLessThanWellFounded DEF OpToRel
  <1>2. \A n, m \in Nat : m < n => <<m, n>> \in R
    OBVIOUS
  <1> HIDE DEF R
  <1>3. PICK n \in T : \A m \in T : ~(<<m, n>> \in R)
    BY <1>1, WFMin
  <1>4. ASSUME NEW m \in T
        PROVE  n <= m
    <2>1. ~(<<m, n>> \in R) /\ m \in Nat /\ n \in Nat
      BY <1>3
    <2>2. ~(m < n)
      BY <2>1, <1>2
    <2>3. QED
      BY <2>1, <2>2
  <1>5. QED
    BY <1>4

\* A set of subsets of a finite set has a minimal element.
LEMMA MinimalSet ==
    ASSUME NEW S, IsFiniteSet(S), NEW T \in SUBSET (SUBSET S), T # {}
    PROVE  \E s \in T : IsFiniteSet(s) /\ \A x \in s : s \ {x} \notin T
  <1> DEFINE sizes == {Cardinality(s) : s \in T}
  <1>1. \A s \in T : IsFiniteSet(s) /\ Cardinality(s) \in Nat
    BY FS_Subset, FS_CardinalityType
  <1>2. sizes \in SUBSET Nat /\ sizes # {}
    BY <1>1
  <1>3. PICK n \in sizes : \A m \in sizes : n <= m
    <2> HIDE DEF sizes
    <2> QED  BY <1>2, NatMin
  <1>4. PICK s \in T : Cardinality(s) = n
    BY <1>3
  <1>5. ASSUME NEW x \in s, s \ {x} \in T
        PROVE  FALSE
    <2>1. Cardinality(s \ {x}) = Cardinality(s) - 1
      BY <1>1, FS_RemoveElement
    <2>2. Cardinality(s \ {x}) \in sizes
      BY <1>5
    <2>3. n <= Cardinality(s) - 1
      <3> HIDE DEF sizes
      <3> QED  BY <2>1, <2>2, <1>3
    <2>4. QED
      BY <2>3, <1>1, <1>4
  <1>6. QED
    BY <1>1, <1>4, <1>5

-----------------------------------------------------------------------------
First(s) == CHOOSE x \in s : TRUE

\* What the fold of Functions chooses: a function on the subsets of S.
IsSum(g, fun, S) ==
    g = [s \in SUBSET S |-> IF s = {} THEN 0 ELSE fun[First(s)] + g[s \ {First(s)}]]

LEMMA SumIsChosen ==
    ASSUME NEW fun, NEW S, NEW g, IsSum(g, fun, S)
    PROVE  \E h : IsSum(h, fun, S) /\ SumFunctionOnSet(fun, S) = h[S]
  BY DEF SumFunctionOnSet, FoldFunctionOnSet, MapThenFoldSet, IsSum, First

LEMMA FirstIsIn ==
    ASSUME NEW s, s # {}
    PROVE  First(s) \in s
  BY DEF First

\* The recurrence on the subsets of at most n elements
UpTo(S, n) == {s \in SUBSET S : Cardinality(s) <= n}
Partial(g, fun, S, n) ==
    g = [s \in UpTo(S, n) |-> IF s = {} THEN 0 ELSE fun[First(s)] + g[s \ {First(s)}]]

LEMMA PartialGrows ==
    ASSUME NEW S, IsFiniteSet(S), NEW fun, NEW n \in Nat, NEW g, Partial(g, fun, S, n)
    PROVE  \E h : Partial(h, fun, S, n + 1)
  <1> DEFINE h == [s \in UpTo(S, n + 1) |-> IF s = {} THEN 0 ELSE fun[First(s)] + g[s \ {First(s)}]]
  <1>1. ASSUME NEW s \in UpTo(S, n + 1), s # {}
        PROVE  s \ {First(s)} \in UpTo(S, n) /\ s \ {First(s)} \in UpTo(S, n + 1)
    <2>1. IsFiniteSet(s) /\ Cardinality(s) \in Nat /\ Cardinality(s) <= n + 1
      BY FS_Subset, FS_CardinalityType DEF UpTo
    <2>2. Cardinality(s \ {First(s)}) = Cardinality(s) - 1
      BY <1>1, <2>1, FirstIsIn, FS_RemoveElement
    <2>3. s \ {First(s)} \in SUBSET S
      BY DEF UpTo
    <2>4. QED
      BY <2>1, <2>2, <2>3 DEF UpTo
  <1>2. ASSUME NEW s \in UpTo(S, n)
        PROVE  s \in UpTo(S, n + 1) /\ g[s] = h[s]
    <2>1. IsFiniteSet(s) /\ Cardinality(s) \in Nat /\ Cardinality(s) <= n /\ s \in SUBSET S
      BY FS_Subset, FS_CardinalityType DEF UpTo
    <2>2. s \in UpTo(S, n + 1)
      BY <2>1 DEF UpTo
    <2>3. QED
      BY <2>2 DEF Partial
  <1>3. h = [s \in UpTo(S, n + 1) |-> IF s = {} THEN 0 ELSE fun[First(s)] + h[s \ {First(s)}]]
    <2>1. ASSUME NEW s \in UpTo(S, n + 1)
          PROVE  h[s] = IF s = {} THEN 0 ELSE fun[First(s)] + h[s \ {First(s)}]
      <3> DEFINE t == s \ {First(s)}
      <3>1. CASE s = {}
        BY <3>1
      <3>2. CASE s # {}
        <4>1. g[t] = h[t]
          BY <3>2, <1>1, <1>2
        <4>2. h[s] = fun[First(s)] + g[t]
          BY <3>2
        <4>3. QED
          BY <4>1, <4>2, <3>2
      <3>3. QED
        BY <3>1, <3>2
    <2>2. h = [s \in UpTo(S, n + 1) |-> h[s]]
      OBVIOUS
    <2> HIDE DEF h
    <2>3. QED
      BY <2>1, <2>2
  <1>4. QED
    BY <1>3 DEF Partial

\* The fold has something to choose.
LEMMA SumExists ==
    ASSUME NEW S, IsFiniteSet(S), NEW fun
    PROVE  \E g : IsSum(g, fun, S)
  <1> DEFINE T == {n \in Nat : ~(\E g : Partial(g, fun, S, n))}
  <1>1. T = {}
    <2>1. SUFFICES ASSUME T # {}
                   PROVE  FALSE
      OBVIOUS
    <2>2. PICK n \in T : \A m \in T : n <= m
      <3>1. T \in SUBSET Nat
        OBVIOUS
      <3> HIDE DEF T
      <3> QED  BY <3>1, <2>1, NatMin
    <2>3. n # 0
      <3>1. UpTo(S, 0) = {{}}
        <4>1. {} \in UpTo(S, 0)
          BY FS_EmptySet DEF UpTo
        <4>2. ASSUME NEW s \in UpTo(S, 0)
              PROVE  s = {}
          BY FS_Subset, FS_CardinalityType, FS_EmptySet DEF UpTo
        <4>3. QED
          BY <4>1, <4>2
      <3> DEFINE h == [s \in {{}} |-> 0]
      <3>2. Partial(h, fun, S, 0)
        BY <3>1 DEF Partial
      <3>3. QED
        BY <3>2
    <2>4. n - 1 \in Nat /\ n - 1 \notin T
      BY <2>2, <2>3
    <2>5. PICK g : Partial(g, fun, S, n - 1)
      BY <2>4
    <2>6. \E h : Partial(h, fun, S, (n - 1) + 1)
      BY <2>4, <2>5, PartialGrows
    <2>7. QED
      BY <2>2, <2>6
  <1>2. Cardinality(S) \in Nat
    BY FS_CardinalityType
  <1>3. PICK g : Partial(g, fun, S, Cardinality(S))
    BY <1>1, <1>2
  <1>4. UpTo(S, Cardinality(S)) = SUBSET S
    BY FS_Subset DEF UpTo
  <1>5. QED
    BY <1>3, <1>4 DEF Partial, IsSum

\* What is summed of a set does not depend on the set it is a part of.
LEMMA SumsAgree ==
    ASSUME NEW S, IsFiniteSet(S), NEW fun, NEW g, IsSum(g, fun, S),
           NEW R \in SUBSET S, NEW h, IsSum(h, fun, R)
    PROVE  \A s \in SUBSET R : g[s] = h[s]
  <1> DEFINE T == {s \in SUBSET R : g[s] # h[s]}
  <1>1. SUFFICES ASSUME T # {}
                 PROVE  FALSE
    OBVIOUS
  <1>2. IsFiniteSet(R) /\ T \in SUBSET (SUBSET R)
    BY FS_Subset
  <1>3. PICK s \in T : \A x \in s : s \ {x} \notin T
    <2> HIDE DEF T
    <2> QED  BY <1>1, <1>2, MinimalSet
  <1>4. /\ g[s] = IF s = {} THEN 0 ELSE fun[First(s)] + g[s \ {First(s)}]
        /\ h[s] = IF s = {} THEN 0 ELSE fun[First(s)] + h[s \ {First(s)}]
    <2>1. s \in SUBSET S /\ s \in SUBSET R
      OBVIOUS
    <2>2. QED
      BY <2>1 DEF IsSum
  <1>5. s # {}
    BY <1>4
  <1>6. g[s \ {First(s)}] = h[s \ {First(s)}]
    BY <1>3, <1>5, FirstIsIn
  <1>7. QED
    BY <1>4, <1>6

\* The recurrence of the sum itself
LEMMA SumEmpty ==
    ASSUME NEW fun
    PROVE  SumFunctionOnSet(fun, {}) = 0
  <1>1. PICK g : IsSum(g, fun, {})
    BY SumExists, FS_EmptySet
  <1>2. PICK h : IsSum(h, fun, {}) /\ SumFunctionOnSet(fun, {}) = h[{}]
    BY <1>1, SumIsChosen
  <1>3. QED
    BY <1>2 DEF IsSum

LEMMA SumFirst ==
    ASSUME NEW S, IsFiniteSet(S), S # {}, NEW fun
    PROVE  SumFunctionOnSet(fun, S) =
               fun[First(S)] + SumFunctionOnSet(fun, S \ {First(S)})
  <1> DEFINE R == S \ {First(S)}
  <1>1. IsFiniteSet(R) /\ R \in SUBSET S
    BY FS_Subset
  <1>2. PICK g : IsSum(g, fun, S) /\ SumFunctionOnSet(fun, S) = g[S]
    BY SumExists, SumIsChosen
  <1>3. PICK h : IsSum(h, fun, R) /\ SumFunctionOnSet(fun, R) = h[R]
    BY <1>1, SumExists, SumIsChosen
  <1>4. g[R] = h[R]
    BY <1>1, <1>2, <1>3, SumsAgree
  <1>5. g[S] = fun[First(S)] + g[R]
    BY <1>2 DEF IsSum
  <1>6. QED
    BY <1>2, <1>3, <1>4, <1>5

-----------------------------------------------------------------------------
Ints(fun, S) == \A x \in S : fun[x] \in Int

LEMMA SumInt ==
    ASSUME NEW S, IsFiniteSet(S), NEW fun, Ints(fun, S)
    PROVE  SumFunctionOnSet(fun, S) \in Int
  <1> DEFINE T == {s \in SUBSET S : SumFunctionOnSet(fun, s) \notin Int}
  <1>1. SUFFICES ASSUME T # {}
                 PROVE  FALSE
    OBVIOUS
  <1>2. PICK s \in T : IsFiniteSet(s) /\ \A x \in s : s \ {x} \notin T
    <2>1. T \in SUBSET (SUBSET S)
      OBVIOUS
    <2> HIDE DEF T
    <2> QED  BY <2>1, <1>1, MinimalSet
  <1>3. s # {}
    BY SumEmpty
  <1>4. First(s) \in s /\ s \in SUBSET S
    BY <1>3, FirstIsIn
  <1>5. SumFunctionOnSet(fun, s \ {First(s)}) \in Int
    BY <1>2, <1>4
  <1>6. fun[First(s)] \in Int
    BY <1>4 DEF Ints
  <1>7. SumFunctionOnSet(fun, s) = fun[First(s)] + SumFunctionOnSet(fun, s \ {First(s)})
    BY <1>2, <1>3, SumFirst
  <1>8. SumFunctionOnSet(fun, s) \in Int
    BY <1>5, <1>6, <1>7
  <1>9. QED
    BY <1>8

LEMMA SumIntSub ==
    ASSUME NEW S, IsFiniteSet(S), NEW fun, Ints(fun, S), NEW R, R \subseteq S
    PROVE  IsFiniteSet(R) /\ Ints(fun, R) /\ SumFunctionOnSet(fun, R) \in Int
  <1>1. IsFiniteSet(R) /\ Ints(fun, R)
    BY FS_Subset DEF Ints
  <1>2. QED
    BY <1>1, SumInt

\* Any element may be taken away.
LEMMA SumStep ==
    ASSUME NEW S, IsFiniteSet(S), NEW fun, Ints(fun, S), NEW a \in S
    PROVE  SumFunctionOnSet(fun, S) = fun[a] + SumFunctionOnSet(fun, S \ {a})
  <1> DEFINE Of(s) == SumFunctionOnSet(fun, s)
             T == {s \in SUBSET S : \E x \in s : Of(s) # fun[x] + Of(s \ {x})}
  <1>1. SUFFICES ASSUME T # {}
                 PROVE  FALSE
    OBVIOUS
  <1>2. PICK s \in T : IsFiniteSet(s) /\ \A x \in s : s \ {x} \notin T
    <2>1. T \in SUBSET (SUBSET S)
      OBVIOUS
    <2> HIDE DEF T
    <2> QED  BY <2>1, <1>1, MinimalSet
  <1>3. PICK x \in s : Of(s) # fun[x] + Of(s \ {x})
    OBVIOUS
  <1> DEFINE y == First(s)
             both == (s \ {x}) \ {y}
  <1>4. s \in SUBSET S /\ y \in s /\ s # {}
    BY <1>3, FirstIsIn
  <1>5. Of(s) = fun[y] + Of(s \ {y})
    BY <1>2, <1>4, SumFirst
  <1>6. x # y
    BY <1>3, <1>5
  <1>7. Of(s \ {y}) = fun[x] + Of((s \ {y}) \ {x})
    <2>1. s \ {y} \notin T /\ s \ {y} \in SUBSET S /\ x \in s \ {y}
      BY <1>2, <1>3, <1>4, <1>6
    <2>2. QED
      BY <2>1
  <1>8. Of(s \ {x}) = fun[y] + Of(both)
    <2>1. s \ {x} \notin T /\ s \ {x} \in SUBSET S /\ y \in s \ {x}
      BY <1>2, <1>3, <1>4, <1>6
    <2>2. QED
      BY <2>1
  <1>9. (s \ {y}) \ {x} = both
    OBVIOUS
  <1>10. fun[x] \in Int /\ fun[y] \in Int /\ Of(both) \in Int
    <2>1. both \subseteq S /\ x \in S /\ y \in S
      BY <1>4
    <2>2. QED
      BY <2>1, SumIntSub DEF Ints
  <1>11. Of(s \ {y}) = fun[x] + Of(both)
    BY <1>7, <1>9
  <1>12. Of(s) = fun[x] + Of(s \ {x})
    <2> HIDE DEF Of, y, both
    <2> QED  BY <1>5, <1>8, <1>10, <1>11
  <1>13. QED
    BY <1>3, <1>12

LEMMA SumSingleton ==
    ASSUME NEW a, NEW fun, fun[a] \in Int
    PROVE  SumFunctionOnSet(fun, {a}) = fun[a]
  <1>1. SumFunctionOnSet(fun, {a}) = fun[a] + SumFunctionOnSet(fun, {a} \ {a})
    BY SumStep, FS_Singleton DEF Ints
  <1>2. SumFunctionOnSet(fun, {a} \ {a}) = 0
    <2>1. {a} \ {a} = {}
      OBVIOUS
    <2>2. QED
      BY <2>1, SumEmpty
  <1>3. QED
    BY <1>1, <1>2

\* Equal summands have equal sums.
LEMMA SumSame ==
    ASSUME NEW S, IsFiniteSet(S), NEW f, NEW g, \A x \in S : f[x] = g[x]
    PROVE  SumFunctionOnSet(f, S) = SumFunctionOnSet(g, S)
  <1> DEFINE T == {s \in SUBSET S : SumFunctionOnSet(f, s) # SumFunctionOnSet(g, s)}
  <1>1. SUFFICES ASSUME T # {}
                 PROVE  FALSE
    OBVIOUS
  <1>2. PICK s \in T : IsFiniteSet(s) /\ \A x \in s : s \ {x} \notin T
    <2>1. T \in SUBSET (SUBSET S)
      OBVIOUS
    <2> HIDE DEF T
    <2> QED  BY <2>1, <1>1, MinimalSet
  <1>3. s # {}
    BY SumEmpty
  <1>4. First(s) \in s /\ s \in SUBSET S
    BY <1>3, FirstIsIn
  <1>5. SumFunctionOnSet(f, s \ {First(s)}) = SumFunctionOnSet(g, s \ {First(s)})
    BY <1>2, <1>4
  <1>6. /\ SumFunctionOnSet(f, s) = f[First(s)] + SumFunctionOnSet(f, s \ {First(s)})
        /\ SumFunctionOnSet(g, s) = g[First(s)] + SumFunctionOnSet(g, s \ {First(s)})
    BY <1>2, <1>3, SumFirst
  <1>7. f[First(s)] = g[First(s)]
    BY <1>4
  <1>8. SumFunctionOnSet(f, s) = SumFunctionOnSet(g, s)
    BY <1>5, <1>6, <1>7
  <1>9. QED
    BY <1>8

\* Sums add up, summand by summand.
LEMMA SumAdd ==
    ASSUME NEW S, IsFiniteSet(S), NEW f, NEW g, NEW h, Ints(f, S), Ints(g, S),
           \A x \in S : h[x] = f[x] + g[x]
    PROVE  SumFunctionOnSet(h, S) = SumFunctionOnSet(f, S) + SumFunctionOnSet(g, S)
  <1> DEFINE F(s) == SumFunctionOnSet(f, s)
             G(s) == SumFunctionOnSet(g, s)
             H(s) == SumFunctionOnSet(h, s)
             T == {s \in SUBSET S : H(s) # F(s) + G(s)}
  <1>1. SUFFICES ASSUME T # {}
                 PROVE  FALSE
    OBVIOUS
  <1>2. PICK s \in T : IsFiniteSet(s) /\ \A x \in s : s \ {x} \notin T
    <2>1. T \in SUBSET (SUBSET S)
      OBVIOUS
    <2> HIDE DEF T
    <2> QED  BY <2>1, <1>1, MinimalSet
  <1>3. s # {}
    BY SumEmpty
  <1> DEFINE y == First(s)
             r == s \ {y}
  <1>4. y \in s /\ y \in S /\ r \in SUBSET S
    BY <1>3, FirstIsIn
  <1>5. H(r) = F(r) + G(r)
    BY <1>2, <1>4
  <1>6. F(s) = f[y] + F(r) /\ G(s) = g[y] + G(r) /\ H(s) = h[y] + H(r)
    BY <1>2, <1>3, SumFirst
  <1>7. f[y] \in Int /\ g[y] \in Int /\ h[y] = f[y] + g[y] /\ F(r) \in Int /\ G(r) \in Int
    BY <1>4, SumIntSub DEF Ints
  <1>8. H(s) = F(s) + G(s)
    <2> HIDE DEF F, G, H, y, r
    <2> QED  BY <1>5, <1>6, <1>7
  <1>9. QED
    BY <1>8

\* Greater summands have a sum that is not less.
LEMMA SumLeq ==
    ASSUME NEW S, IsFiniteSet(S), NEW f, NEW g, Ints(f, S), Ints(g, S),
           \A x \in S : f[x] <= g[x]
    PROVE  SumFunctionOnSet(f, S) <= SumFunctionOnSet(g, S)
  <1> DEFINE F(s) == SumFunctionOnSet(f, s)
             G(s) == SumFunctionOnSet(g, s)
             T == {s \in SUBSET S : ~(F(s) <= G(s))}
  <1>1. SUFFICES ASSUME T # {}
                 PROVE  FALSE
    OBVIOUS
  <1>2. PICK s \in T : IsFiniteSet(s) /\ \A x \in s : s \ {x} \notin T
    <2>1. T \in SUBSET (SUBSET S)
      OBVIOUS
    <2> HIDE DEF T
    <2> QED  BY <2>1, <1>1, MinimalSet
  <1>3. s # {}
    <2>1. F({}) = 0 /\ G({}) = 0
      BY SumEmpty
    <2> HIDE DEF F, G
    <2>2. QED
      BY <2>1
  <1> DEFINE y == First(s)
             r == s \ {y}
  <1>4. y \in s /\ y \in S /\ r \in SUBSET S
    BY <1>3, FirstIsIn
  <1>5. F(r) <= G(r)
    BY <1>2, <1>4
  <1>6. F(s) = f[y] + F(r) /\ G(s) = g[y] + G(r)
    BY <1>2, <1>3, SumFirst
  <1>7. f[y] \in Int /\ g[y] \in Int /\ f[y] <= g[y] /\ F(r) \in Int /\ G(r) \in Int
    BY <1>4, SumIntSub DEF Ints
  <1>8. F(s) <= G(s)
    <2> HIDE DEF F, G, y, r
    <2> QED  BY <1>5, <1>6, <1>7
  <1>9. QED
    BY <1>8

Nats(fun, S) == \A x \in S : fun[x] \in Nat

LEMMA SumNat ==
    ASSUME NEW S, IsFiniteSet(S), NEW fun, Nats(fun, S)
    PROVE  /\ SumFunctionOnSet(fun, S) \in Nat
           /\ \A a \in S : fun[a] <= SumFunctionOnSet(fun, S)
  <1> DEFINE zero == [x \in S |-> 0]
  <1>1. ASSUME NEW R \in SUBSET S
        PROVE  SumFunctionOnSet(fun, R) \in Nat
    <2>1. IsFiniteSet(R) /\ Ints(fun, R) /\ Ints(zero, R) /\ \A x \in R : zero[x] <= fun[x]
      BY FS_Subset DEF Nats, Ints
    <2>2. SumFunctionOnSet(zero, R) <= SumFunctionOnSet(fun, R)
      BY <2>1, SumLeq
    <2>3. SumFunctionOnSet(zero, R) = 0
      <3>1. SumFunctionOnSet(zero, R) = SumFunctionOnSet(zero, R) + SumFunctionOnSet(zero, R)
        <4>1. \A x \in R : zero[x] = zero[x] + zero[x]
          OBVIOUS
        <4> HIDE DEF zero
        <4>2. QED
          BY <2>1, <4>1, SumAdd
      <3>2. SumFunctionOnSet(zero, R) \in Int
        BY <2>1, SumInt
      <3> DEFINE z == SumFunctionOnSet(zero, R)
      <3>3. z = z + z /\ z \in Int
        BY <3>1, <3>2
      <3> HIDE DEF z
      <3>4. z = 0
        BY <3>3
      <3>5. QED
        BY <3>4 DEF z
    <2>4. SumFunctionOnSet(fun, R) \in Int
      BY <2>1, SumInt
    <2>5. QED
      BY <2>2, <2>3, <2>4
  <1>2. ASSUME NEW a \in S
        PROVE  fun[a] <= SumFunctionOnSet(fun, S)
    <2>1. SumFunctionOnSet(fun, S) = fun[a] + SumFunctionOnSet(fun, S \ {a})
      BY SumStep DEF Nats, Ints
    <2>2. SumFunctionOnSet(fun, S \ {a}) \in Nat /\ fun[a] \in Nat
      BY <1>1 DEF Nats
    <2>3. QED
      BY <2>1, <2>2
  <1>3. QED
    BY <1>1, <1>2

\* Disjoint parts of a set are summed one after another.
LEMMA SumUnion ==
    ASSUME NEW S, IsFiniteSet(S), NEW fun, Ints(fun, S), NEW R \in SUBSET S
    PROVE  SumFunctionOnSet(fun, S) =
               SumFunctionOnSet(fun, R) + SumFunctionOnSet(fun, S \ R)
  <1> DEFINE Of(s) == SumFunctionOnSet(fun, s)
             U == {s \in SUBSET S : Of(s) # Of(s \cap R) + Of(s \ R)}
  <1>1. SUFFICES ASSUME U # {}
                 PROVE  FALSE
    <2>1. S \cap R = R
      OBVIOUS
    <2>2. QED
      BY <2>1
  <1>2. PICK s \in U : IsFiniteSet(s) /\ \A x \in s : s \ {x} \notin U
    <2>1. U \in SUBSET (SUBSET S)
      OBVIOUS
    <2> HIDE DEF U
    <2> QED  BY <2>1, <1>1, MinimalSet
  <1>3. s # {}
    <2>1. {} \cap R = {} /\ {} \ R = {}
      OBVIOUS
    <2>2. Of({}) = 0
      BY SumEmpty
    <2>3. QED
      BY <2>1, <2>2
  <1> DEFINE y == First(s)
             r == s \ {y}
  <1>4. y \in s /\ y \in S /\ r \in SUBSET S /\ s \in SUBSET S
    BY <1>3, FirstIsIn
  <1>5. Of(r) = Of(r \cap R) + Of(r \ R)
    BY <1>2, <1>4
  <1>6. Of(s) = fun[y] + Of(r)
    BY <1>2, <1>3, SumFirst
  <1>7. /\ IsFiniteSet(s \cap R) /\ Ints(fun, s \cap R)
        /\ IsFiniteSet(s \ R) /\ Ints(fun, s \ R)
    BY <1>2, <1>4, FS_Subset DEF Ints
  <1>8. fun[y] \in Int /\ Of(r \cap R) \in Int /\ Of(r \ R) \in Int
    BY <1>4, SumIntSub DEF Ints
  <1>9. Of(s) = Of(s \cap R) + Of(s \ R)
    <2>1. CASE y \in R
      <3>1. (s \cap R) \ {y} = r \cap R /\ s \ R = r \ R /\ y \in s \cap R
        BY <1>4, <2>1
      <3>2. Of(s \cap R) = fun[y] + Of((s \cap R) \ {y})
        BY <1>7, <3>1, SumStep
      <3>3. Of(s \cap R) = fun[y] + Of(r \cap R) /\ Of(s \ R) = Of(r \ R)
        BY <3>1, <3>2
      <3> HIDE DEF Of, y, r
      <3>4. QED
        BY <3>3, <1>5, <1>6, <1>8
    <2>2. CASE y \notin R
      <3>1. (s \ R) \ {y} = r \ R /\ s \cap R = r \cap R /\ y \in s \ R
        BY <1>4, <2>2
      <3>2. Of(s \ R) = fun[y] + Of((s \ R) \ {y})
        BY <1>7, <3>1, SumStep
      <3>3. Of(s \ R) = fun[y] + Of(r \ R) /\ Of(s \cap R) = Of(r \cap R)
        BY <3>1, <3>2
      <3> HIDE DEF Of, y, r
      <3>4. QED
        BY <3>3, <1>5, <1>6, <1>8
    <2>3. QED
      BY <2>1, <2>2
  <1>10. QED
    BY <1>9

-----------------------------------------------------------------------------
(* Counting                                                                *)

\* The elements of S that a key is given to
Fibre(key, S, k) == {x \in S : key[x] = k}

\* GROUP BY loses no row: the counts of the groups add up to the rows.
LEMMA SumOfFibres ==
    ASSUME NEW S, IsFiniteSet(S), NEW K, IsFiniteSet(K), NEW key \in [S -> K]
    PROVE  SumFunctionOnSet([k \in K |-> Cardinality(Fibre(key, S, k))], K) = Cardinality(S)
  <1> DEFINE Count(s) == [k \in K |-> Cardinality(Fibre(key, s, k))]
             Of(s) == SumFunctionOnSet(Count(s), K)
             T == {s \in SUBSET S : Of(s) # Cardinality(s)}
  <1>1. SUFFICES ASSUME T # {}
                 PROVE  FALSE
    OBVIOUS
  <1>2. PICK s \in T : IsFiniteSet(s) /\ \A x \in s : s \ {x} \notin T
    <2>1. T \in SUBSET (SUBSET S)
      OBVIOUS
    <2> HIDE DEF T
    <2> QED  BY <2>1, <1>1, MinimalSet
  <1>3. s \in SUBSET S
    OBVIOUS
  <1>4. ASSUME NEW t \in SUBSET S
        PROVE  Ints(Count(t), K)
    <2>1. ASSUME NEW k \in K
          PROVE  Cardinality(Fibre(key, t, k)) \in Nat
      BY FS_Subset, FS_CardinalityType DEF Fibre
    <2>2. QED
      BY <2>1 DEF Ints
  <1>5. s # {}
    <2>1. SUFFICES ASSUME s = {}
                   PROVE  Of(s) = 0
      BY FS_EmptySet
    <2> DEFINE c == Count(s)
    <2>2. \A k \in K : c[k] = 0
      <3>1. \A k \in K : Fibre(key, s, k) = {}
        BY <2>1 DEF Fibre
      <3>2. QED
        BY <3>1, FS_EmptySet
    <2>3. \A k \in K : c[k] = c[k] + c[k]
      BY <2>2
    <2>4. Ints(c, K)
      BY <1>3, <1>4
    <2> HIDE DEF c
    <2>5. SumFunctionOnSet(c, K) = SumFunctionOnSet(c, K) + SumFunctionOnSet(c, K)
      BY <2>3, <2>4, SumAdd
    <2>6. SumFunctionOnSet(c, K) = 0
      BY <2>4, <2>5, SumInt
    <2>7. QED
      BY <2>6 DEF c
  <1>6. PICK x \in s : TRUE
    BY <1>5
  <1> DEFINE r == s \ {x}
             a == key[x]
             c == Count(s)
             d == Count(r)
  <1>7. r \in SUBSET S /\ Of(r) = Cardinality(r) /\ a \in K /\ x \in S
    BY <1>2, <1>3, <1>6
  <1>8. Cardinality(s) = Cardinality(r) + 1 /\ Cardinality(r) \in Nat
    <2>1. IsFiniteSet(r) /\ Cardinality(s) \in Nat /\ Cardinality(r) \in Nat
      BY <1>2, FS_Subset, FS_CardinalityType
    <2>2. Cardinality(r) = Cardinality(s) - 1
      BY <1>2, <1>6, FS_RemoveElement
    <2> HIDE DEF r
    <2>3. QED
      BY <2>1, <2>2
  <1>9. \A k \in K \ {a} : c[k] = d[k]
    <2>1. \A k \in K \ {a} : Fibre(key, s, k) = Fibre(key, r, k)
      BY DEF Fibre
    <2>2. QED
      BY <2>1
  <1>10. c[a] = d[a] + 1
    <2>1. Fibre(key, r, a) = Fibre(key, s, a) \ {x} /\ x \in Fibre(key, s, a)
      BY <1>6 DEF Fibre
    <2>2. IsFiniteSet(Fibre(key, s, a))
      BY <1>2, FS_Subset DEF Fibre
    <2>3. Cardinality(Fibre(key, s, a)) \in Nat
      BY <2>2, FS_CardinalityType
    <2>4. Cardinality(Fibre(key, r, a)) = Cardinality(Fibre(key, s, a)) - 1
      <3>1. Cardinality(Fibre(key, s, a) \ {x}) = Cardinality(Fibre(key, s, a)) - 1
        BY <2>1, <2>2, FS_RemoveElement
      <3>2. QED
        BY <2>1, <3>1
    <2>5. QED
      BY <2>3, <2>4, <1>7
  <1>11. Ints(c, K) /\ Ints(d, K)
    BY <1>3, <1>4, <1>7
  <1>12. Of(s) = SumFunctionOnSet(c, K) /\ Of(r) = SumFunctionOnSet(d, K)
    OBVIOUS
  <1> HIDE DEF c, d, a, r
  <1>13. /\ SumFunctionOnSet(c, K) = c[a] + SumFunctionOnSet(c, K \ {a})
         /\ SumFunctionOnSet(d, K) = d[a] + SumFunctionOnSet(d, K \ {a})
    BY <1>7, <1>11, SumStep
  <1>14. SumFunctionOnSet(c, K \ {a}) = SumFunctionOnSet(d, K \ {a})
    BY <1>9, SumSame, FS_Subset
  <1>15. SumFunctionOnSet(d, K \ {a}) \in Int /\ d[a] \in Int
    BY <1>7, <1>11, SumIntSub DEF Ints
  <1>16. Of(s) = Cardinality(s)
    <2> HIDE DEF Of
    <2> QED  BY <1>7, <1>8, <1>10, <1>12, <1>13, <1>14, <1>15
  <1>17. QED
    BY <1>16

\* Sets that share nothing are counted one after another.
LEMMA CountDisjoint ==
    ASSUME NEW A, NEW B, IsFiniteSet(A), IsFiniteSet(B), A \cap B = {}
    PROVE  /\ IsFiniteSet(A \cup B)
           /\ Cardinality(A \cup B) = Cardinality(A) + Cardinality(B)
           /\ Cardinality(A) \in Nat /\ Cardinality(B) \in Nat
  <1>1. Cardinality(A \cap B) = 0
    BY FS_EmptySet
  <1>2. Cardinality(A \cup B) = Cardinality(A) + Cardinality(B) - Cardinality(A \cap B)
    BY FS_Union
  <1>3. Cardinality(A) \in Nat /\ Cardinality(B) \in Nat /\ IsFiniteSet(A \cup B)
    BY FS_CardinalityType, FS_Union
  <1>4. QED
    BY <1>1, <1>2, <1>3

\* The values of a function on a finite set are finitely many.
LEMMA FiniteImage ==
    ASSUME NEW S, IsFiniteSet(S), NEW T, NEW f \in [S -> T], \A t \in T : \E x \in S : f[x] = t
    PROVE  IsFiniteSet(T)
  <1>1. f \in Surjection(S, T)
    BY DEF Surjection
  <1>2. QED
    BY <1>1, FS_Surjection

LEMMA SumPair ==
    ASSUME NEW a \in Int, NEW b \in Int
    PROVE  SumFunction(<<a, b>>) = a + b
  <1> DEFINE f == <<a, b>>
  <1>1. DOMAIN f = {1, 2} /\ f[1] = a /\ f[2] = b /\ {1, 2} \ {1} = {2}
    OBVIOUS
  <1>2. IsFiniteSet({1, 2})
    <2>1. IsFiniteSet({1})
      BY FS_Singleton
    <2>2. IsFiniteSet({1} \cup {2})
      BY <2>1, FS_AddElement
    <2>3. {1} \cup {2} = {1, 2}
      OBVIOUS
    <2>4. QED
      BY <2>2, <2>3
  <1> HIDE DEF f
  <1>3. SumFunctionOnSet(f, {1, 2}) = f[1] + SumFunctionOnSet(f, {2})
    BY <1>1, <1>2, SumStep DEF Ints
  <1>4. SumFunctionOnSet(f, {2}) = f[2]
    BY <1>1, SumSingleton
  <1>5. SumFunction(f) = a + b
    BY <1>1, <1>3, <1>4 DEF SumFunction
  <1>6. QED
    BY <1>5 DEF f

LEMMA SumFour ==
    ASSUME NEW a \in Int, NEW b \in Int, NEW c \in Int, NEW d \in Int
    PROVE  SumFunction(<<a, b, c, d>>) = a + b + c + d
  <1> DEFINE f == <<a, b, c, d>>
  <1>1. DOMAIN f = 1 .. 4 /\ f[1] = a /\ f[2] = b /\ f[3] = c /\ f[4] = d
    OBVIOUS
  <1> HIDE DEF f
  <1>2. ASSUME NEW n \in 1 .. 4
        PROVE  SumFunctionOnSet(f, n .. 4) = f[n] + SumFunctionOnSet(f, (n + 1) .. 4)
    <2>1. IsFiniteSet(n .. 4) /\ (n .. 4) \ {n} = (n + 1) .. 4 /\ n \in n .. 4
      <3>1. IsFiniteSet(n .. 4)
        BY FS_Interval
      <3>2. QED
        BY <3>1
    <2>2. Ints(f, n .. 4)
      BY <1>1 DEF Ints
    <2>3. QED
      BY <2>1, <2>2, SumStep
  <1>3. SumFunctionOnSet(f, 5 .. 4) = 0
    BY SumEmpty, 5 .. 4 = {}
  <1>4. /\ SumFunctionOnSet(f, 1 .. 4) = f[1] + SumFunctionOnSet(f, 2 .. 4)
        /\ SumFunctionOnSet(f, 2 .. 4) = f[2] + SumFunctionOnSet(f, 3 .. 4)
        /\ SumFunctionOnSet(f, 3 .. 4) = f[3] + SumFunctionOnSet(f, 4 .. 4)
        /\ SumFunctionOnSet(f, 4 .. 4) = f[4] + SumFunctionOnSet(f, 5 .. 4)
    BY <1>2
  <1>5. SumFunctionOnSet(f, 1 .. 4) = a + b + c + d
    BY <1>1, <1>3, <1>4
  <1>6. SumFunction(f) = a + b + c + d
    BY <1>1, <1>5 DEF SumFunction
  <1>7. QED
    BY <1>6 DEF f

\* The lesser and the greater of two numbers
LEMMA MinOfTwo ==
    ASSUME NEW a \in Int, NEW b \in Int
    PROVE  /\ Min({a, b}) \in {a, b} /\ Min({a, b}) \in Int
           /\ Min({a, b}) <= a /\ Min({a, b}) <= b
  <1>1. \E x \in {a, b} : \A y \in {a, b} : x <= y
    <2>1. CASE a <= b
      BY <2>1
    <2>2. CASE b <= a
      BY <2>2
    <2>3. QED
      BY <2>1, <2>2
  <1>2. Min({a, b}) \in {a, b} /\ \A y \in {a, b} : Min({a, b}) <= y
    BY <1>1 DEF Min
  <1>3. QED
    BY <1>2

LEMMA MaxOfTwo ==
    ASSUME NEW a \in Int, NEW b \in Int
    PROVE  /\ Max({a, b}) \in {a, b} /\ Max({a, b}) \in Int
           /\ a <= Max({a, b}) /\ b <= Max({a, b})
  <1>1. \E x \in {a, b} : \A y \in {a, b} : x >= y
    <2>1. CASE a >= b
      BY <2>1
    <2>2. CASE b >= a
      BY <2>2
    <2>3. QED
      BY <2>1, <2>2
  <1>2. Max({a, b}) \in {a, b} /\ \A y \in {a, b} : Max({a, b}) >= y
    BY <1>1 DEF Max
  <1>3. QED
    BY <1>2

\* Sets whose elements correspond have as many.
LEMMA SameCount ==
    ASSUME NEW S, IsFiniteSet(S), NEW T, NEW f \in [S -> T],
           \A x, y \in S : f[x] = f[y] => x = y, \A t \in T : \E x \in S : f[x] = t
    PROVE  IsFiniteSet(T) /\ Cardinality(T) = Cardinality(S)
  <1>1. f \in Injection(S, T) /\ f \in Surjection(S, T)
    BY DEF Injection, IsInjective, Surjection
  <1>2. ExistsBijection(S, T)
    BY <1>1 DEF ExistsBijection, Bijection
  <1>3. QED
    BY <1>2, FS_Bijection

\* K are the keys of P, and n counts the elements of A by their keys.
AreKeys(K, key, P) == (\A p \in P : key[p] \in K) /\ (\A k \in K : \E p \in P : key[p] = k)
Groups(n, key, A, K) == \A k \in K : n[k] = Cardinality(Fibre(key, A, k))

\* Grouped by a key of all, the elements of a part are counted once.
LEMMA GroupsAddUp ==
    ASSUME NEW P, IsFiniteSet(P), NEW key, NEW A \in SUBSET P, NEW K, AreKeys(K, key, P),
           NEW n, Groups(n, key, A, K)
    PROVE  /\ IsFiniteSet(K) /\ Nats(n, K) /\ SumFunctionOnSet(n, K) = Cardinality(A)
           /\ IsFiniteSet(A) /\ Cardinality(A) \in Nat
  <1> DEFINE all == [p \in P |-> key[p]]
             h == [p \in A |-> key[p]]
             d == [k \in K |-> Cardinality(Fibre(h, A, k))]
  <1>1. IsFiniteSet(A) /\ Cardinality(A) \in Nat
    BY FS_Subset, FS_CardinalityType
  <1>2. all \in [P -> K] /\ \A k \in K : \E p \in P : all[p] = k
    BY DEF AreKeys
  <1>3. h \in [A -> K] /\ \A k \in K : Fibre(h, A, k) = Fibre(key, A, k)
    BY DEF Fibre, AreKeys
  <1> HIDE DEF h
  <1>4. IsFiniteSet(K)
    <2> HIDE DEF all
    <2>1. all \in Surjection(P, K)
      BY <1>2 DEF Surjection
    <2>2. QED
      BY <2>1, FS_Surjection
  <1>5. SumFunctionOnSet(d, K) = Cardinality(A)
    BY <1>1, <1>3, <1>4, SumOfFibres
  <1>6. \A k \in K : d[k] = n[k]
    BY <1>3 DEF Groups
  <1>7. ASSUME NEW k \in K
        PROVE  n[k] \in Nat
    <2>1. IsFiniteSet(Fibre(key, A, k))
      BY <1>1, FS_Subset DEF Fibre
    <2>2. QED
      BY <2>1, FS_CardinalityType DEF Groups
  <1> HIDE DEF d
  <1>8. SumFunctionOnSet(n, K) = SumFunctionOnSet(d, K)
    BY <1>4, <1>6, SumSame
  <1>9. QED
    BY <1>1, <1>4, <1>5, <1>7, <1>8 DEF Nats

LEMMA SumZero ==
    ASSUME NEW S, IsFiniteSet(S), NEW f, \A x \in S : f[x] = 0
    PROVE  SumFunctionOnSet(f, S) = 0
  <1>1. Ints(f, S) /\ \A x \in S : f[x] = f[x] + f[x]
    BY DEF Ints
  <1>2. SumFunctionOnSet(f, S) = SumFunctionOnSet(f, S) + SumFunctionOnSet(f, S)
    BY <1>1, SumAdd
  <1>3. QED
    BY <1>1, <1>2, SumInt

\* The sum of a table: by its columns or by its rows.
ColumnsOf(m, D, N) == [n \in N |-> SumFunctionOnSet([d \in D |-> m[d][n]], D)]
SumsOfRows(m, D, N) == [d \in D |-> SumFunctionOnSet(m[d], N)]

LEMMA SumSwap ==
    ASSUME NEW D, IsFiniteSet(D), NEW N, IsFiniteSet(N), NEW m, \A d \in D : Ints(m[d], N)
    PROVE  SumFunctionOnSet(ColumnsOf(m, D, N), N) = SumFunctionOnSet(SumsOfRows(m, D, N), D)
  <1> DEFINE col(n) == [d \in D |-> m[d][n]]
             rows == SumsOfRows(m, D, N)
             cols(s) == [n \in N |-> SumFunctionOnSet(col(n), s)]
             Left(s) == SumFunctionOnSet(cols(s), N)
             Right(s) == SumFunctionOnSet(rows, s)
             T == {s \in SUBSET D : Left(s) # Right(s)}
  <1>1. SUFFICES ASSUME T # {}
                 PROVE  FALSE
    <2>1. ColumnsOf(m, D, N) = cols(D) /\ D \in SUBSET D
      BY DEF ColumnsOf
    <2> HIDE DEF cols
    <2>2. QED
      BY <2>1
  <1>2. PICK s \in T : IsFiniteSet(s) /\ \A x \in s : s \ {x} \notin T
    <2>1. T \in SUBSET (SUBSET D)
      OBVIOUS
    <2> HIDE DEF T
    <2> QED  BY <2>1, <1>1, MinimalSet
  <1>3. ASSUME NEW n \in N, NEW r \in SUBSET D
        PROVE  IsFiniteSet(r) /\ Ints(col(n), r) /\ SumFunctionOnSet(col(n), r) \in Int
    <2>1. Ints(col(n), D)
      BY DEF Ints
    <2> HIDE DEF col
    <2>2. QED
      BY <2>1, SumIntSub
  <1>4. \A d \in D : rows[d] = SumFunctionOnSet(m[d], N) /\ rows[d] \in Int
    BY SumInt DEF SumsOfRows
  <1> HIDE DEF col, rows
  <1>5. \A r \in SUBSET D : Ints(cols(r), N)
    BY <1>3 DEF Ints
  <1>6. s # {}
    <2>1. SUFFICES ASSUME s = {}
                   PROVE  FALSE
      OBVIOUS
    <2> DEFINE z == cols({})
    <2>2. \A n \in N : z[n] = 0
      BY SumEmpty
    <2> HIDE DEF z
    <2>3. SumFunctionOnSet(z, N) = 0
      BY <2>2, SumZero
    <2>4. Left({}) = 0 /\ Right({}) = 0
      BY <2>3, SumEmpty DEF z
    <2> HIDE DEF Left, Right
    <2>5. QED
      BY <2>1, <2>4
  <1>7. PICK x \in s : TRUE
    BY <1>6
  <1> DEFINE r == s \ {x}
             new == m[x]
  <1>8. x \in D /\ s \in SUBSET D /\ r \in SUBSET D /\ IsFiniteSet(s)
    BY <1>2
  <1>9. Left(r) = Right(r)
    <2> HIDE DEF Left, Right
    <2> QED  BY <1>2, <1>8
  <1>10. Right(s) = rows[x] + Right(r)
    <2>1. Ints(rows, s)
      BY <1>4, <1>8 DEF Ints
    <2>2. QED
      BY <1>8, <2>1, SumStep
  <1>11. Left(s) = SumFunctionOnSet(new, N) + Left(r)
    <2>1. ASSUME NEW n \in N
          PROVE  SumFunctionOnSet(col(n), s) = m[x][n] + SumFunctionOnSet(col(n), r)
      <3>1. Ints(col(n), s)
        BY <1>3, <1>8
      <3>2. SumFunctionOnSet(col(n), s) = col(n)[x] + SumFunctionOnSet(col(n), r)
        BY <1>8, <3>1, SumStep
      <3>3. QED
        BY <1>8, <3>2 DEF col
    <2> DEFINE ls == cols(s)
               lr == cols(r)
    <2>2. \A n \in N : ls[n] = new[n] + lr[n]
      BY <2>1
    <2>3. Ints(new, N) /\ Ints(lr, N)
      BY <1>5, <1>8
    <2> HIDE DEF ls, lr, new
    <2>4. SumFunctionOnSet(ls, N) = SumFunctionOnSet(new, N) + SumFunctionOnSet(lr, N)
      BY <2>2, <2>3, SumAdd
    <2>5. QED
      BY <2>4 DEF ls, lr
  <1>12. Left(s) = Right(s)
    <2> HIDE DEF Left, Right, r
    <2> QED  BY <1>4, <1>8, <1>9, <1>10, <1>11
  <1>13. QED
    BY <1>12

=============================================================================
