------------------------- MODULE ChatHistoryProofs --------------------------
(***************************************************************************)
(* Proofs about ChatHistory, for histories of any length and any ids.      *)
(*                                                                         *)
(* Each repair makes of a message no, one or two messages: the first has   *)
(* its role, the second holds placeholders. The first half says where the  *)
(* parts of a repair end up (Laid, Places), what a filter leaves of a      *)
(* sequence (Chosen), and that a message next to a call stays there        *)
(* (Repair, Speakers); the theorems then follow a history through Build.   *)
(***************************************************************************)
EXTENDS ChatHistory, SetSums, SequenceTheorems

-----------------------------------------------------------------------------
(* Sequences that are joined                                               *)

\* What FlattenSeq chooses: the joins of the first 1, 2, .. m parts
Joins(g, parts, m) ==
    g = [i \in 1 .. m |-> IF i = 1 THEN parts[i] ELSE g[i - 1] \o parts[i]]

LEMMA JoinsAt ==
    ASSUME NEW parts, NEW m, NEW g, Joins(g, parts, m), NEW i \in 1 .. m
    PROVE  g[i] = IF i = 1 THEN parts[i] ELSE g[i - 1] \o parts[i]
  <1> DEFINE f == [k \in 1 .. m |-> IF k = 1 THEN parts[k] ELSE g[k - 1] \o parts[k]]
  <1>1. g = f
    BY DEF Joins
  <1>2. f[i] = IF i = 1 THEN parts[i] ELSE g[i - 1] \o parts[i]
    OBVIOUS
  <1> HIDE DEF f
  <1>3. QED
    BY <1>1, <1>2

LEMMA PartsAre ==
    ASSUME NEW X, NEW parts \in Seq(Seq(X))
    PROVE  /\ Len(parts) \in Nat /\ DOMAIN parts = 1 .. Len(parts)
           /\ \A i \in 1 .. Len(parts) : /\ parts[i] \in Seq(X) /\ Len(parts[i]) \in Nat
                                         /\ DOMAIN parts[i] = 1 .. Len(parts[i])
  <1>1. Len(parts) \in Nat /\ DOMAIN parts = 1 .. Len(parts)
    OBVIOUS
  <1>2. \A i \in 1 .. Len(parts) : parts[i] \in Seq(X)
    OBVIOUS
  <1>3. QED
    BY <1>1, <1>2

LEMMA JoinsExist ==
    ASSUME NEW parts, NEW m \in Nat
    PROVE  \E g : Joins(g, parts, m)
  <1> DEFINE T == {n \in Nat : ~ \E g : Joins(g, parts, n)}
  <1>1. SUFFICES ASSUME T # {}
                 PROVE  FALSE
    OBVIOUS
  <1>2. PICK n \in T : \A k \in T : n <= k
    <2>1. T \in SUBSET Nat
      OBVIOUS
    <2> HIDE DEF T
    <2> QED  BY <1>1, <2>1, NatMin
  <1>3. n \in Nat /\ ~ \E g : Joins(g, parts, n)
    BY <1>2
  <1>4. CASE n = 0
    <2> DEFINE g == [i \in 1 .. 0 |-> parts]
    <2>1. g = [i \in 1 .. 0 |-> IF i = 1 THEN parts[i] ELSE g[i - 1] \o parts[i]]
      OBVIOUS
    <2>2. QED
      BY <1>3, <1>4, <2>1 DEF Joins
  <1>5. CASE n # 0
    <2>1. n - 1 \in Nat /\ n - 1 \notin T
      BY <1>2, <1>3, <1>5
    <2>2. PICK g : Joins(g, parts, n - 1)
      BY <2>1
    <2> DEFINE h == [i \in 1 .. n |-> IF i = 1 THEN parts[i] ELSE g[i - 1] \o parts[i]]
    <2>3. \A i \in 1 .. n - 1 : g[i] = h[i]
      <3>1. SUFFICES ASSUME NEW i \in 1 .. n - 1
                     PROVE  g[i] = h[i]
        OBVIOUS
      <3>2. g[i] = IF i = 1 THEN parts[i] ELSE g[i - 1] \o parts[i]
        BY <2>2, JoinsAt
      <3>3. i \in 1 .. n
        BY <1>3
      <3>4. QED
        BY <3>2, <3>3
    <2>4. \A i \in 1 .. n : i # 1 => i - 1 \in 1 .. n - 1
      BY <1>3
    <2>5. \A i \in 1 .. n : h[i] = IF i = 1 THEN parts[i] ELSE h[i - 1] \o parts[i]
      BY <2>3, <2>4
    <2>6. h = [i \in 1 .. n |-> h[i]]
      OBVIOUS
    <2> HIDE DEF h
    <2>7. h = [i \in 1 .. n |-> IF i = 1 THEN parts[i] ELSE h[i - 1] \o parts[i]]
      BY <2>5, <2>6
    <2>8. QED
      BY <1>3, <2>7 DEF Joins
  <1>6. QED
    BY <1>4, <1>5

LEMMA FlattenChooses ==
    ASSUME NEW parts, Len(parts) # 0, NEW g, Joins(g, parts, Len(parts))
    PROVE  \E h : Joins(h, parts, Len(parts)) /\ FlattenSeq(parts) = h[Len(parts)]
  BY DEF FlattenSeq, Joins

\* Where the parts are in the whole: after the place at[i]
Laid(at, parts, whole) ==
    /\ at \in [1 .. Len(parts) + 1 -> Nat] /\ at[1] = 0 /\ at[Len(parts) + 1] = Len(whole)
    /\ \A i \in DOMAIN parts :
           /\ at[i + 1] = at[i] + Len(parts[i])
           /\ \A k \in DOMAIN parts[i] : whole[at[i] + k] = parts[i][k]

\* FlattenSeq lays its parts one after another.
LEMMA JoinsAreLaid ==
    ASSUME NEW X, NEW parts \in Seq(Seq(X)), NEW n \in Nat, n = Len(parts), n # 0,
           NEW g, Joins(g, parts, n)
    PROVE  g[n] \in Seq(X) /\ \E at : Laid(at, parts, g[n])
  <1>0. /\ DOMAIN parts = 1 .. n
        /\ \A i \in 1 .. n : /\ parts[i] \in Seq(X) /\ Len(parts[i]) \in Nat
                             /\ DOMAIN parts[i] = 1 .. Len(parts[i])
    BY PartsAre
  <1>1. \A i \in 1 .. n : g[i] = IF i = 1 THEN parts[i] ELSE g[i - 1] \o parts[i]
    BY JoinsAt
  <1> DEFINE at == [i \in 1 .. n + 1 |-> IF i = 1 THEN 0 ELSE Len(g[i - 1])]
             Placed(m, i) == \A k \in 1 .. Len(parts[i]) :
                                 at[i] + k \in 1 .. Len(g[m]) /\ g[m][at[i] + k] = parts[i][k]
             Good(m) == g[m] \in Seq(X) /\ \A i \in 1 .. m : Placed(m, i)
             T == {m \in 1 .. n : ~Good(m)}
  <1>a. at[1] = 0 /\ \A i \in 1 .. n : at[i + 1] = Len(g[i])
    OBVIOUS
  <1>b. \A i \in 1 .. n : i # 1 => at[i] = Len(g[i - 1])
    OBVIOUS
  <1>c. at[n + 1] = Len(g[n])
    BY <1>a
  <1>d. \A m \in 1 .. n : m \in T <=> ~Good(m)
    OBVIOUS
  <1>e. T \in SUBSET Nat
    OBVIOUS
  <1> HIDE DEF T, at
  <1>2. ASSUME NEW m \in 1 .. n, m # 1, Good(m - 1)
        PROVE  Good(m)
    <2>1. m - 1 \in 1 .. n
      BY <1>2
    <2>2. g[m] = g[m - 1] \o parts[m] /\ at[m] = Len(g[m - 1])
      BY <1>1, <1>2, <1>b
    <2>3. g[m - 1] \in Seq(X) /\ parts[m] \in Seq(X)
      BY <1>0, <1>2
    <2> DEFINE s == g[m - 1]
               u == parts[m]
    <2>4. /\ s \o u \in Seq(X) /\ Len(s \o u) = Len(s) + Len(u) /\ Len(s) \in Nat /\ Len(u) \in Nat
          /\ \A k \in 1 .. Len(s) + Len(u) : (s \o u)[k] = IF k <= Len(s) THEN s[k] ELSE u[k - Len(s)]
      <3>1. s \in Seq(X) /\ u \in Seq(X)
        BY <2>3
      <3> HIDE DEF s, u
      <3>2. QED
        BY <3>1
    <2>5. ASSUME NEW i \in 1 .. m - 1
          PROVE  Placed(m, i)
      <3>1. Placed(m - 1, i)
        BY <1>2, <2>5
      <3> HIDE DEF s, u
      <3>2. \A k \in 1 .. Len(parts[i]) : at[i] + k \in 1 .. Len(s) /\ s[at[i] + k] = parts[i][k]
        BY <3>1 DEF s
      <3>3. g[m] = s \o u
        BY <2>2 DEF s, u
      <3>4. \A k \in 1 .. Len(s) : k \in 1 .. Len(s \o u) /\ (s \o u)[k] = s[k]
        BY <2>4
      <3>5. QED
        BY <3>2, <3>3, <3>4
    <2>6. Placed(m, m)
      <3> HIDE DEF s, u
      <3>1. \A k \in 1 .. Len(u) : Len(s) + k \in 1 .. Len(s \o u) /\ (s \o u)[Len(s) + k] = u[k]
        BY <2>4
      <3>2. g[m] = s \o u /\ at[m] = Len(s) /\ parts[m] = u
        BY <2>2 DEF s, u
      <3>3. QED
        BY <3>1, <3>2
    <2>7. \A i \in 1 .. m : i \in 1 .. m - 1 \/ i = m
      OBVIOUS
    <2>8. g[m] \in Seq(X)
      BY <2>2, <2>4
    <2> HIDE DEF Placed
    <2>9. QED
      BY <2>5, <2>6, <2>7, <2>8
  <1>3. Good(1)
    <2>1. g[1] = parts[1] /\ parts[1] \in Seq(X) /\ at[1] = 0
      BY <1>0, <1>1, <1>a
    <2>2. Placed(1, 1)
      BY <2>1
    <2>3. QED
      BY <2>1, <2>2
  <1>4. T = {}
    <2> HIDE DEF Good
    <2>1. SUFFICES ASSUME T # {}
                   PROVE  FALSE
      OBVIOUS
    <2>2. PICK m \in T : \A k \in T : m <= k
      BY <1>e, <2>1, NatMin
    <2>3. m \in 1 .. n /\ ~Good(m)
      BY <1>d, <2>2 DEF T
    <2>4. m # 1
      BY <1>3, <2>3
    <2>5. m - 1 \in 1 .. n /\ m - 1 \notin T
      <3>1. ~(m <= m - 1)
        BY <2>3
      <3>2. QED
        BY <2>2, <2>3, <2>4, <3>1
    <2>6. QED
      BY <1>2, <1>d, <2>3, <2>4, <2>5
  <1>5. \A i \in 1 .. n : Good(i)
    BY <1>4, <1>d
  <1>6. \A i \in 1 .. n : g[i] \in Seq(X) /\ Len(g[i]) \in Nat
    <2>1. \A i \in 1 .. n : g[i] \in Seq(X)
      BY <1>5
    <2> HIDE DEF Good
    <2>2. QED
      BY <2>1
  <1>7. at \in [1 .. n + 1 -> Nat]
    <2>1. \A i \in 1 .. n + 1 : at[i] \in Nat
      <3>1. \A i \in 1 .. n + 1 : i = 1 \/ i - 1 \in 1 .. n
        OBVIOUS
      <3>2. \A i \in 1 .. n + 1 : i = 1 \/ at[i] = Len(g[i - 1])
        BY DEF at
      <3> HIDE DEF Good
      <3>3. at[1] \in Nat
        BY <1>a
      <3>4. \A i \in 1 .. n + 1 : i - 1 \in 1 .. n => Len(g[i - 1]) \in Nat
        BY <1>6
      <3>5. QED
        BY <3>1, <3>2, <3>3, <3>4
    <2>2. at = [i \in 1 .. n + 1 |-> at[i]]
      BY DEF at
    <2>3. QED
      BY <2>1, <2>2
  <1>8. \A i \in 1 .. n : at[i + 1] = at[i] + Len(parts[i])
    <2> HIDE DEF Good
    <2>1. SUFFICES ASSUME NEW i \in 1 .. n
                   PROVE  at[i + 1] = at[i] + Len(parts[i])
      OBVIOUS
    <2>2. at[i + 1] = Len(g[i])
      BY <1>a
    <2>3. CASE i = 1
      <3>1. g[i] = parts[i] /\ at[i] = 0 /\ Len(parts[i]) \in Nat
        BY <1>0, <1>1, <1>a, <2>3
      <3>2. QED
        BY <2>2, <3>1
    <2>4. CASE i # 1
      <3>0. i - 1 \in 1 .. n
        BY <2>4
      <3>1. g[i] = g[i - 1] \o parts[i] /\ at[i] = Len(g[i - 1])
        BY <1>1, <1>b, <2>4
      <3>2. g[i - 1] \in Seq(X) /\ parts[i] \in Seq(X)
        BY <1>0, <1>6, <3>0
      <3>3. Len(g[i - 1] \o parts[i]) = Len(g[i - 1]) + Len(parts[i])
        BY <3>2, ConcatProperties
      <3>4. QED
        BY <2>2, <3>1, <3>3
    <2>5. QED
      BY <2>3, <2>4
  <1>9. \A i \in 1 .. n : \A k \in 1 .. Len(parts[i]) : g[n][at[i] + k] = parts[i][k]
    BY <1>5
  <1> HIDE DEF Good
  <1>10. Laid(at, parts, g[n])
    <2>1. Len(parts) = n /\ DOMAIN parts = 1 .. n /\ \A i \in 1 .. n : DOMAIN parts[i] = 1 .. Len(parts[i])
      BY <1>0
    <2>2. at \in [1 .. Len(parts) + 1 -> Nat] /\ at[1] = 0 /\ at[Len(parts) + 1] = Len(g[n])
      BY <1>7, <1>a, <1>c, <2>1
    <2>3. \A i \in DOMAIN parts : at[i + 1] = at[i] + Len(parts[i])
      BY <1>8, <2>1
    <2>4. \A i \in DOMAIN parts : \A k \in DOMAIN parts[i] : g[n][at[i] + k] = parts[i][k]
      BY <1>9, <2>1
    <2>5. QED
      BY <2>2, <2>3, <2>4 DEF Laid
  <1>11. QED
    BY <1>6, <1>10

LEMMA FlattenIsLaid ==
    ASSUME NEW X, NEW parts \in Seq(Seq(X))
    PROVE  FlattenSeq(parts) \in Seq(X) /\ \E at : Laid(at, parts, FlattenSeq(parts))
  <1>1. CASE Len(parts) = 0
    <2>1. FlattenSeq(parts) = parts /\ parts = <<>>
      BY <1>1 DEF FlattenSeq
    <2> DEFINE at == [i \in 1 .. 1 |-> 0]
    <2>2. Laid(at, parts, <<>>)
      BY <2>1 DEF Laid
    <2>3. QED
      BY <2>1, <2>2
  <1>2. CASE Len(parts) # 0
    <2>0. Len(parts) \in Nat
      BY PartsAre
    <2>1. PICK g : Joins(g, parts, Len(parts))
      BY <2>0, JoinsExist
    <2>2. PICK h : Joins(h, parts, Len(parts)) /\ FlattenSeq(parts) = h[Len(parts)]
      BY <1>2, <2>1, FlattenChooses
    <2>3. QED
      BY <1>2, <2>0, <2>2, JoinsAreLaid
  <1>3. QED
    BY <1>1, <1>2

LEMMA LaidInOrder ==
    ASSUME NEW X, NEW parts \in Seq(Seq(X)), NEW at, NEW whole, Laid(at, parts, whole),
           NEW i \in 1 .. Len(parts) + 1, NEW j \in 1 .. Len(parts) + 1, i <= j
    PROVE  at[i] <= at[j]
  <1> DEFINE T == {m \in i .. j : ~(at[i] <= at[m])}
  <1>0. /\ \A m \in 1 .. Len(parts) + 1 : at[m] \in Nat
        /\ \A m \in 1 .. Len(parts) : at[m + 1] = at[m] + Len(parts[m]) /\ Len(parts[m]) \in Nat
        /\ Len(parts) \in Nat /\ DOMAIN parts = 1 .. Len(parts)
    <2>1. /\ Len(parts) \in Nat /\ DOMAIN parts = 1 .. Len(parts)
          /\ \A m \in 1 .. Len(parts) : Len(parts[m]) \in Nat
      BY PartsAre
    <2>2. QED
      BY <2>1 DEF Laid
  <1>1. SUFFICES ASSUME T # {}
                 PROVE  FALSE
    OBVIOUS
  <1>2. PICK m \in T : \A k \in T : m <= k
    <2>1. T \in SUBSET Nat
      OBVIOUS
    <2> HIDE DEF T
    <2> QED  BY <1>1, <2>1, NatMin
  <1>3. m # i
    BY <1>0, <1>2
  <1>4. m - 1 \in i .. j /\ m - 1 \notin T /\ m - 1 \in 1 .. Len(parts)
    BY <1>0, <1>2, <1>3
  <1>5. at[i] <= at[m - 1] /\ at[m] = at[m - 1] + Len(parts[m - 1]) /\ Len(parts[m - 1]) \in Nat
    <2>1. (m - 1) + 1 = m
      BY <1>2
    <2>2. QED
      BY <1>0, <1>4, <2>1
  <1>6. at[i] \in Nat /\ at[m - 1] \in Nat
    BY <1>0, <1>4
  <1>7. QED
    BY <1>2, <1>5, <1>6

\* The place p of the whole is a place of a part.
Covered(at, parts, p) == \E i \in DOMAIN parts : \E k \in DOMAIN parts[i] : p = at[i] + k

LEMMA LaidCovers ==
    ASSUME NEW X, NEW parts \in Seq(Seq(X)), NEW at, NEW whole \in Seq(X), Laid(at, parts, whole),
           NEW p \in DOMAIN whole
    PROVE  Covered(at, parts, p)
  <1> DEFINE n == Len(parts)
             T == {i \in 1 .. n + 1 : p <= at[i]}
  <1>1. /\ n \in Nat /\ DOMAIN parts = 1 .. n /\ \A i \in 1 .. n + 1 : at[i] \in Nat
        /\ \A i \in 1 .. n : /\ at[i + 1] = at[i] + Len(parts[i]) /\ Len(parts[i]) \in Nat
                             /\ DOMAIN parts[i] = 1 .. Len(parts[i])
    <2>1. /\ n \in Nat /\ DOMAIN parts = 1 .. n
          /\ \A i \in 1 .. n : Len(parts[i]) \in Nat /\ DOMAIN parts[i] = 1 .. Len(parts[i])
      BY PartsAre
    <2>2. QED
      BY <2>1 DEF Laid
  <1>2. n + 1 \in T
    BY <1>1 DEF Laid
  <1>3. PICK m \in T : \A k \in T : m <= k
    <2>1. T \in SUBSET Nat
      BY <1>1
    <2> HIDE DEF T
    <2> QED  BY <1>2, <2>1, NatMin
  <1>4. m # 1
    BY <1>3 DEF Laid
  <1>5. m - 1 \in 1 .. n /\ m - 1 \notin T
    BY <1>1, <1>3, <1>4
  <1>6. ~(p <= at[m - 1]) /\ p <= at[m] /\ at[m] = at[m - 1] + Len(parts[m - 1])
    <2>1. (m - 1) + 1 = m /\ m \in 1 .. n + 1 /\ p <= at[m]
      BY <1>1, <1>3
    <2>2. at[m] = at[m - 1] + Len(parts[m - 1])
      BY <1>1, <1>5, <2>1
    <2>3. ~(p <= at[m - 1])
      <3>1. m - 1 \in 1 .. n + 1
        BY <1>1, <1>5
      <3>2. QED
        BY <1>5, <3>1
    <2>4. QED
      BY <2>1, <2>2, <2>3
  <1>7. p - at[m - 1] \in DOMAIN parts[m - 1] /\ p = at[m - 1] + (p - at[m - 1])
    <2>1. /\ at[m - 1] \in Nat /\ at[m] \in Nat /\ p \in Nat
          /\ DOMAIN parts[m - 1] = 1 .. Len(parts[m - 1])
      BY <1>1, <1>3, <1>5
    <2>2. QED
      BY <1>6, <2>1
  <1>8. QED
    BY <1>1, <1>5, <1>7 DEF Covered

-----------------------------------------------------------------------------
(* Sequences that are filtered                                             *)

\* KeepAt, of a set of positions: operators cannot be the parameters of a lemma.
Chosen(s, P) == FlattenSeq([i \in DOMAIN s |-> IF i \in P THEN <<s[i]>> ELSE <<>>])

\* r holds the elements of s at the positions P: f says which.
Filters(f, r, s, P) ==
    /\ f \in [DOMAIN r -> P]
    /\ \A k \in DOMAIN r : r[k] = s[f[k]]
    /\ \A k, l \in DOMAIN r : f[k] = f[l] => k = l
    /\ \A i \in P : \E k \in DOMAIN r : f[k] = i

LEMMA ChosenAre ==
    ASSUME NEW X, NEW s \in Seq(X), NEW P \in SUBSET (DOMAIN s)
    PROVE  Chosen(s, P) \in Seq(X) /\ \E f : Filters(f, Chosen(s, P), s, P)
  <1> DEFINE n == Len(s)
             parts == [i \in DOMAIN s |-> IF i \in P THEN <<s[i]>> ELSE <<>>]
             r == FlattenSeq(parts)
  <1>1. n \in Nat /\ DOMAIN s = 1 .. n /\ \A i \in 1 .. n : s[i] \in X
    OBVIOUS
  <1>2. DOMAIN parts = 1 .. n /\ \A i \in 1 .. n : parts[i] \in Seq(X)
    BY <1>1
  <1>3. parts \in Seq(Seq(X)) /\ Len(parts) = n
    <2>1. parts = [i \in 1 .. n |-> parts[i]]
      BY <1>2
    <2> HIDE DEF parts
    <2>2. parts \in [1 .. n -> Seq(X)]
      BY <1>2, <2>1
    <2>3. QED
      BY <1>1, <2>2
  <1>4. \A i \in 1 .. n : /\ i \in P => Len(parts[i]) = 1 /\ DOMAIN parts[i] = 1 .. 1 /\ parts[i][1] = s[i]
                          /\ i \notin P => DOMAIN parts[i] = {}
    BY <1>1
  <1> HIDE DEF parts, n
  <1>5. r \in Seq(X) /\ \E at : Laid(at, parts, r)
    BY <1>3, FlattenIsLaid
  <1>6. PICK at : Laid(at, parts, r)
    BY <1>5
  <1> HIDE DEF r
  <1>7. /\ \A i \in 1 .. n + 1 : at[i] \in Nat
        /\ at[n + 1] = Len(r)
        /\ \A i \in P : at[i + 1] = at[i] + 1 /\ r[at[i] + 1] = s[i]
    <2>1. \A i \in P : i \in 1 .. n /\ 1 \in DOMAIN parts[i]
      BY <1>1, <1>4
    <2>2. \A i \in 1 .. n : /\ at[i + 1] = at[i] + Len(parts[i])
                            /\ \A k \in DOMAIN parts[i] : r[at[i] + k] = parts[i][k]
      BY <1>2, <1>6 DEF Laid
    <2>3. \A i \in P : at[i + 1] = at[i] + 1 /\ r[at[i] + 1] = s[i]
      BY <1>4, <2>1, <2>2
    <2>4. (\A i \in 1 .. n + 1 : at[i] \in Nat) /\ at[n + 1] = Len(r)
      BY <1>3, <1>6 DEF Laid
    <2>5. QED
      BY <2>3, <2>4
  <1>8. DOMAIN r = 1 .. Len(r) /\ Len(r) \in Nat
    BY <1>5
  <1>9. ASSUME NEW k \in DOMAIN r
        PROVE  \E i \in P : k = at[i] + 1
    <2>1. PICK i \in DOMAIN parts : \E l \in DOMAIN parts[i] : k = at[i] + l
      <3>1. parts \in Seq(Seq(X)) /\ r \in Seq(X) /\ Laid(at, parts, r)
        BY <1>3, <1>5, <1>6
      <3>2. Covered(at, parts, k)
        BY <1>9, <3>1, LaidCovers
      <3>3. QED
        BY <3>2 DEF Covered
    <2>2. i \in P
      BY <1>2, <1>4, <2>1
    <2>3. \A l \in DOMAIN parts[i] : l = 1
      BY <1>2, <1>4, <2>2
    <2>4. QED
      BY <2>1, <2>2, <2>3
  <1>10. ASSUME NEW i \in P, NEW j \in P, at[i] = at[j], i < j
         PROVE  FALSE
    <2>1. i + 1 \in 1 .. n + 1 /\ j \in 1 .. n + 1 /\ i + 1 <= j /\ i \in 1 .. n + 1
      BY <1>1, <1>10
    <2>2. at[i + 1] <= at[j]
      BY <1>3, <1>6, <2>1, LaidInOrder
    <2>3. QED
      BY <1>7, <1>10, <2>1, <2>2
  <1>11. ASSUME NEW i \in P
         PROVE  at[i] + 1 \in DOMAIN r
    <2>1. i \in 1 .. n /\ i + 1 \in 1 .. n + 1 /\ n + 1 \in 1 .. n + 1 /\ i + 1 <= n + 1
      BY <1>1
    <2>2. at[i + 1] <= at[n + 1]
      BY <1>3, <1>6, <2>1, LaidInOrder
    <2>3. at[i] \in Nat
      BY <1>7, <2>1
    <2>4. QED
      BY <1>7, <1>8, <2>2, <2>3
  <1> DEFINE f == [k \in DOMAIN r |-> CHOOSE i \in P : k = at[i] + 1]
  <1>12. \A k \in DOMAIN r : f[k] \in P /\ k = at[f[k]] + 1
    BY <1>9
  <1>13. f = [k \in DOMAIN r |-> f[k]]
    OBVIOUS
  <1> HIDE DEF f
  <1>14. f \in [DOMAIN r -> P]
    BY <1>12, <1>13
  <1>15. \A k \in DOMAIN r : r[k] = s[f[k]]
    BY <1>7, <1>12
  <1>16. \A k, l \in DOMAIN r : f[k] = f[l] => k = l
    BY <1>12
  <1>17. ASSUME NEW i \in P
         PROVE  \E k \in DOMAIN r : f[k] = i
    <2> DEFINE k == at[i] + 1
    <2>1. k \in DOMAIN r
      BY <1>11
    <2>2. f[k] \in P /\ at[i] + 1 = at[f[k]] + 1
      BY <1>12, <2>1
    <2>3. i \in 1 .. n /\ f[k] \in 1 .. n /\ at[i] \in Nat /\ at[f[k]] \in Nat
      <3>1. i \in 1 .. n /\ f[k] \in 1 .. n
        BY <1>1, <2>2
      <3>2. i \in 1 .. n + 1 /\ f[k] \in 1 .. n + 1
        BY <1>1, <3>1
      <3>3. QED
        BY <1>7, <3>1, <3>2
    <2>4. at[i] = at[f[k]]
      BY <2>2, <2>3
    <2>5. ~(i < f[k]) /\ ~(f[k] < i)
      BY <1>10, <2>2, <2>4
    <2>6. QED
      BY <1>1, <2>1, <2>3, <2>5
  <1>18. Filters(f, r, s, P)
    BY <1>14, <1>15, <1>16, <1>17 DEF Filters
  <1>19. Chosen(s, P) = r
    BY DEF Chosen, r, parts
  <1>20. QED
    BY <1>5, <1>18, <1>19

\* No two results answer the same call.
Single(rs) == \A k, l \in DOMAIN rs : rs[k].id = rs[l].id => k = l
IdsOf(rs) == {r.id : r \in ToSet(rs)}

LEMMA ChosenHave ==
    ASSUME NEW X, NEW s \in Seq(X), NEW P \in SUBSET (DOMAIN s)
    PROVE  /\ Chosen(s, P) \in Seq(X)
           /\ ToSet(Chosen(s, P)) = {s[i] : i \in P}
           /\ (\A i, j \in P : s[i] = s[j] => i = j) => IsInjective(Chosen(s, P))
           /\ (\A i, j \in P : s[i].id = s[j].id => i = j) => Single(Chosen(s, P))
  <1> DEFINE r == Chosen(s, P)
  <1>1. r \in Seq(X) /\ \E f : Filters(f, r, s, P)
    BY ChosenAre
  <1>2. PICK f : Filters(f, r, s, P)
    BY <1>1
  <1> HIDE DEF r
  <1>3. /\ \A k \in DOMAIN r : f[k] \in P /\ r[k] = s[f[k]]
        /\ \A k, l \in DOMAIN r : f[k] = f[l] => k = l
        /\ \A i \in P : \E k \in DOMAIN r : f[k] = i
    BY <1>2 DEF Filters
  <1>4. ToSet(r) = {s[i] : i \in P}
    <2>1. ToSet(r) = {r[k] : k \in DOMAIN r}
      BY DEF ToSet
    <2>2. QED
      BY <1>3, <2>1
  <1>5. ASSUME \A i, j \in P : s[i] = s[j] => i = j
        PROVE  IsInjective(r)
    BY <1>3, <1>5 DEF IsInjective
  <1>6. ASSUME \A i, j \in P : s[i].id = s[j].id => i = j
        PROVE  Single(r)
    BY <1>3, <1>6 DEF Single
  <1>7. QED
    BY <1>1, <1>4, <1>5, <1>6 DEF r

-----------------------------------------------------------------------------
(* Calls and results                                                       *)

Result == [id : Ids, real : BOOLEAN]

\* Users answer calls, assistants make them.
Message ==
    {m \in [role : {"user", "assistant"}, text : BOOLEAN, uses : Seq(Ids), results : Seq(Result)] :
        /\ m.role = "user" => m.uses = <<>>
        /\ m.role = "assistant" => m.results = <<>>}

AllReal(rs) == \A r \in ToSet(rs) : r.real
NoneReal(rs) == \A r \in ToSet(rs) : ~r.real

LEMMA FirstOfEachIs ==
    ASSUME NEW ids \in Seq(Ids)
    PROVE  /\ FirstOfEach(ids) \in Seq(Ids) /\ IsInjective(FirstOfEach(ids))
           /\ ToSet(FirstOfEach(ids)) = ToSet(ids)
  <1> DEFINE P == {i \in DOMAIN ids : \A j \in 1 .. i - 1 : ids[j] # ids[i]}
  <1>1. FirstOfEach(ids) = Chosen(ids, P)
    <2>1. [i \in DOMAIN ids |-> IF \A j \in 1 .. i - 1 : ids[j] # ids[i] THEN <<ids[i]>> ELSE <<>>]
            = [i \in DOMAIN ids |-> IF i \in P THEN <<ids[i]>> ELSE <<>>]
      OBVIOUS
    <2> HIDE DEF P
    <2>2. QED
      BY <2>1 DEF FirstOfEach, KeepAt, Chosen
  <1>2. DOMAIN ids = 1 .. Len(ids) /\ Len(ids) \in Nat
    OBVIOUS
  <1>3. ASSUME NEW i \in P, NEW j \in P, ids[i] = ids[j]
        PROVE  i = j
    <2>1. i \in Nat /\ j \in Nat /\ i >= 1 /\ j >= 1
      BY <1>2
    <2>2. ~(i < j) /\ ~(j < i)
      BY <1>3, <2>1
    <2>3. QED
      BY <2>1, <2>2
  <1>4. {ids[i] : i \in P} = ToSet(ids)
    <2>1. ASSUME NEW k \in DOMAIN ids
          PROVE  \E i \in P : ids[i] = ids[k]
      <3> DEFINE T == {i \in 1 .. Len(ids) : ids[i] = ids[k]}
      <3>1. T \in SUBSET Nat /\ k \in T
        BY <1>2
      <3>2. PICK i \in T : \A j \in T : i <= j
        <4> HIDE DEF T
        <4> QED  BY <3>1, NatMin
      <3>3. \A j \in 1 .. i - 1 : ids[j] # ids[i]
        BY <1>2, <3>2
      <3>4. QED
        BY <1>2, <3>2, <3>3
    <2>2. P \subseteq DOMAIN ids
      OBVIOUS
    <2> HIDE DEF P
    <2>3. QED
      BY <2>1, <2>2 DEF ToSet
  <1>5. P \in SUBSET (DOMAIN ids)
    OBVIOUS
  <1> HIDE DEF P
  <1>6. \A i, j \in P : ids[i] = ids[j] => i = j
    BY <1>3
  <1>7. /\ Chosen(ids, P) \in Seq(Ids) /\ ToSet(Chosen(ids, P)) = {ids[i] : i \in P}
        /\ IsInjective(Chosen(ids, P))
    BY <1>5, <1>6, ChosenHave
  <1>8. QED
    BY <1>1, <1>4, <1>7

LEMMA WithoutIs ==
    ASSUME NEW ids \in Seq(Ids), NEW done
    PROVE  /\ Without(ids, done) \in Seq(Ids)
           /\ ToSet(Without(ids, done)) = ToSet(ids) \ done
           /\ IsInjective(ids) => IsInjective(Without(ids, done))
  <1> DEFINE P == {i \in DOMAIN ids : ids[i] \notin done}
  <1>1. Without(ids, done) = Chosen(ids, P)
    <2>1. [i \in DOMAIN ids |-> IF ids[i] \notin done THEN <<ids[i]>> ELSE <<>>]
            = [i \in DOMAIN ids |-> IF i \in P THEN <<ids[i]>> ELSE <<>>]
      OBVIOUS
    <2> HIDE DEF P
    <2>2. QED
      BY <2>1 DEF Without, KeepAt, Chosen
  <1>2. {ids[i] : i \in P} = ToSet(ids) \ done
    BY DEF ToSet
  <1>3. P \in SUBSET (DOMAIN ids)
    OBVIOUS
  <1> HIDE DEF P
  <1>4. IsInjective(ids) => \A i, j \in P : ids[i] = ids[j] => i = j
    BY <1>3 DEF IsInjective
  <1>5. QED
    BY <1>1, <1>2, <1>3, <1>4, ChosenHave

LEMMA PlaceholdersAre ==
    ASSUME NEW ids \in Seq(Ids)
    PROVE  /\ Placeholders(ids) \in Seq(Result) /\ IdsOf(Placeholders(ids)) = ToSet(ids)
           /\ NoneReal(Placeholders(ids)) /\ (Placeholders(ids) = <<>> <=> ids = <<>>)
           /\ IsInjective(ids) => Single(Placeholders(ids))
  <1> DEFINE rs == Placeholders(ids)
  <1>1. DOMAIN ids = 1 .. Len(ids) /\ Len(ids) \in Nat /\ \A k \in 1 .. Len(ids) : ids[k] \in Ids
    OBVIOUS
  <1>2. DOMAIN rs = DOMAIN ids /\ \A k \in DOMAIN ids : rs[k] = [id |-> ids[k], real |-> FALSE]
    BY DEF Placeholders, Placeholder
  <1>3. rs \in Seq(Result) /\ Len(rs) = Len(ids)
    <2>1. rs = [k \in 1 .. Len(ids) |-> rs[k]]
      BY <1>1 DEF Placeholders
    <2> HIDE DEF rs
    <2>2. ASSUME NEW k \in 1 .. Len(ids)
          PROVE  rs[k] \in Result
      <3>1. rs[k] = [id |-> ids[k], real |-> FALSE] /\ ids[k] \in Ids
        BY <1>1, <1>2
      <3>2. [id |-> ids[k], real |-> FALSE] \in [id : Ids, real : BOOLEAN]
        BY <3>1
      <3>3. QED
        BY <3>1, <3>2 DEF Result
    <2>3. rs \in [1 .. Len(ids) -> Result]
      BY <2>1, <2>2
    <2>4. QED
      BY <1>1, <2>3
  <1> HIDE DEF rs
  <1>4. IdsOf(rs) = ToSet(ids) /\ NoneReal(rs)
    <2>1. ToSet(rs) = {rs[k] : k \in DOMAIN ids}
      BY <1>2 DEF ToSet
    <2>2. QED
      BY <1>2, <2>1 DEF IdsOf, NoneReal, ToSet
  <1>5. IsInjective(ids) => Single(rs)
    BY <1>2 DEF IsInjective, Single
  <1>6. rs = <<>> <=> ids = <<>>
    BY <1>3
  <1>7. QED
    BY <1>3, <1>4, <1>5, <1>6 DEF rs

LEMMA FillIs ==
    ASSUME NEW m \in Message, NEW done
    PROVE  /\ Fill(m, done) \in Seq(Result) /\ Single(Fill(m, done)) /\ NoneReal(Fill(m, done))
           /\ IdsOf(Fill(m, done)) = ToSet(m.uses) \ (done \cup Reserved)
  <1> DEFINE calls == FirstOfEach(m.uses)
             open == Without(calls, done \cup Reserved)
  <1>1. m.uses \in Seq(Ids)
    BY DEF Message
  <1>2. calls \in Seq(Ids) /\ IsInjective(calls) /\ ToSet(calls) = ToSet(m.uses)
    BY <1>1, FirstOfEachIs
  <1> HIDE DEF calls
  <1>3. open \in Seq(Ids) /\ IsInjective(open) /\ ToSet(open) = ToSet(calls) \ (done \cup Reserved)
    BY <1>2, WithoutIs
  <1> HIDE DEF open
  <1>4. Fill(m, done) = Placeholders(open)
    BY DEF Fill, open, calls
  <1>5. QED
    BY <1>2, <1>3, <1>4, PlaceholdersAre

LEMMA KeptResultsAre ==
    ASSUME NEW msgs \in Seq(Message), NEW i \in DOMAIN msgs
    PROVE  LET kept == KeptResults(msgs, i)
           IN  /\ kept \in Seq(Result) /\ Single(kept) /\ ToSet(kept) \subseteq ToSet(msgs[i].results)
               /\ IdsOf(kept) = IdsOf(msgs[i].results) \cap UsesAt(msgs, i - 1)
  <1> DEFINE rs == msgs[i].results
             U == UsesAt(msgs, i - 1)
             P == {k \in DOMAIN rs : rs[k].id \in U /\ \A j \in 1 .. k - 1 : rs[j].id # rs[k].id}
  <1>1. rs \in Seq(Result)
    BY DEF Message
  <1> HIDE DEF rs, U
  <1>2. KeptResults(msgs, i) = Chosen(rs, P)
    <2>1. [k \in DOMAIN rs |-> IF rs[k].id \in U /\ \A j \in 1 .. k - 1 : rs[j].id # rs[k].id
                               THEN <<rs[k]>> ELSE <<>>]
            = [k \in DOMAIN rs |-> IF k \in P THEN <<rs[k]>> ELSE <<>>]
      OBVIOUS
    <2> HIDE DEF P
    <2>2. QED
      BY <2>1 DEF KeptResults, KeepAt, Chosen, rs, U
  <1>3. DOMAIN rs = 1 .. Len(rs) /\ Len(rs) \in Nat
    BY <1>1
  <1>4. ASSUME NEW k \in P, NEW l \in P, rs[k].id = rs[l].id
        PROVE  k = l
    <2>1. k \in Nat /\ l \in Nat /\ k >= 1 /\ l >= 1
      BY <1>3
    <2>2. ~(k < l) /\ ~(l < k)
      BY <1>4, <2>1
    <2>3. QED
      BY <2>1, <2>2
  <1>5. ASSUME NEW k \in DOMAIN rs, rs[k].id \in U
        PROVE  \E l \in P : rs[l].id = rs[k].id
    <2> DEFINE T == {l \in 1 .. Len(rs) : rs[l].id = rs[k].id}
    <2>1. T \in SUBSET Nat /\ k \in T
      BY <1>3
    <2>2. PICK l \in T : \A j \in T : l <= j
      <3> HIDE DEF T
      <3> QED  BY <2>1, NatMin
    <2>3. l \in 1 .. Len(rs) /\ rs[l].id = rs[k].id /\ \A j \in 1 .. l - 1 : j \notin T
      BY <1>3, <2>2
    <2>4. \A j \in 1 .. l - 1 : rs[j].id # rs[l].id
      BY <1>3, <2>3
    <2>5. QED
      BY <1>3, <1>5, <2>3, <2>4
  <1>6. P \in SUBSET (DOMAIN rs) /\ \A k \in P : rs[k].id \in U
    OBVIOUS
  <1> HIDE DEF P
  <1> DEFINE kept == Chosen(rs, P)
  <1>7. kept \in Seq(Result) /\ ToSet(kept) = {rs[k] : k \in P} /\ Single(kept)
    BY <1>1, <1>4, <1>6, ChosenHave
  <1> HIDE DEF kept
  <1>8. ToSet(kept) \subseteq ToSet(rs)
    BY <1>6, <1>7 DEF ToSet
  <1>9. IdsOf(kept) = IdsOf(rs) \cap U
    <2>1. IdsOf(kept) = {rs[k].id : k \in P}
      BY <1>7 DEF IdsOf
    <2>2. IdsOf(rs) = {rs[k].id : k \in DOMAIN rs}
      BY DEF IdsOf, ToSet
    <2>3. QED
      BY <1>5, <1>6, <2>1, <2>2
  <1>10. QED
    BY <1>2, <1>7, <1>8, <1>9 DEF kept, rs, U

LEMMA Together ==
    ASSUME NEW r \in Seq(Result), NEW q \in Seq(Result)
    PROVE  /\ r \o q \in Seq(Result) /\ ToSet(r \o q) = ToSet(r) \cup ToSet(q)
           /\ IdsOf(r \o q) = IdsOf(r) \cup IdsOf(q)
           /\ Single(r) /\ Single(q) /\ IdsOf(r) \cap IdsOf(q) = {} => Single(r \o q)
           /\ (r \o q = <<>> <=> r = <<>> /\ q = <<>>)
  <1> DEFINE s == r \o q
  <1>1. /\ DOMAIN r = 1 .. Len(r) /\ Len(r) \in Nat /\ DOMAIN q = 1 .. Len(q) /\ Len(q) \in Nat
        /\ s \in Seq(Result) /\ DOMAIN s = 1 .. Len(r) + Len(q) /\ Len(s) = Len(r) + Len(q)
        /\ \A k \in 1 .. Len(r) + Len(q) : s[k] = IF k <= Len(r) THEN r[k] ELSE q[k - Len(r)]
    OBVIOUS
  <1>2. /\ \A k \in DOMAIN r : k \in DOMAIN s /\ s[k] = r[k]
        /\ \A k \in DOMAIN q : Len(r) + k \in DOMAIN s /\ s[Len(r) + k] = q[k]
        /\ \A k \in DOMAIN s : \/ k \in DOMAIN r /\ s[k] = r[k]
                               \/ k - Len(r) \in DOMAIN q /\ s[k] = q[k - Len(r)]
    <2> HIDE DEF s
    <2> QED  BY <1>1
  <1> HIDE DEF s
  <1>3. ToSet(s) = ToSet(r) \cup ToSet(q)
    BY <1>2 DEF ToSet
  <1>4. IdsOf(s) = IdsOf(r) \cup IdsOf(q)
    BY <1>3 DEF IdsOf
  <1>5. ASSUME Single(r), Single(q), IdsOf(r) \cap IdsOf(q) = {}
        PROVE  Single(s)
    <2>1. ASSUME NEW k \in DOMAIN s, NEW l \in DOMAIN s, s[k].id = s[l].id
          PROVE  k = l
      <3>1. \A a \in DOMAIN r : r[a].id \in IdsOf(r)
        BY DEF IdsOf, ToSet
      <3>2. \A a \in DOMAIN q : q[a].id \in IdsOf(q)
        BY DEF IdsOf, ToSet
      <3>3. CASE k \in DOMAIN r /\ s[k] = r[k]
        <4>1. l \in DOMAIN r /\ s[l] = r[l]
          BY <1>2, <1>5, <2>1, <3>1, <3>2, <3>3
        <4>2. QED
          BY <1>5, <2>1, <3>3, <4>1 DEF Single
      <3>4. CASE k - Len(r) \in DOMAIN q /\ s[k] = q[k - Len(r)]
        <4>1. l - Len(r) \in DOMAIN q /\ s[l] = q[l - Len(r)]
          BY <1>2, <1>5, <2>1, <3>1, <3>2, <3>4
        <4>2. k - Len(r) = l - Len(r)
          BY <1>5, <2>1, <3>4, <4>1 DEF Single
        <4>3. QED
          BY <1>1, <4>2
      <3>5. QED
        BY <1>2, <3>3, <3>4
    <2>2. QED
      BY <2>1 DEF Single
  <1>6. s = <<>> <=> r = <<>> /\ q = <<>>
    BY <1>1
  <1>7. QED
    BY <1>1, <1>3, <1>4, <1>5, <1>6 DEF s

LEMMA MessageFields ==
    ASSUME NEW m \in Message
    PROVE  /\ m.role \in {"user", "assistant"} /\ m.text \in BOOLEAN
           /\ m.uses \in Seq(Ids) /\ m.results \in Seq(Result)
           /\ m.role = "user" => m.uses = <<>> /\ ToSet(m.uses) = {}
           /\ m.role = "assistant" => m.results = <<>> /\ IdsOf(m.results) = {}
           /\ m = [role |-> m.role, text |-> m.text, uses |-> m.uses, results |-> m.results]
  BY DEF Message, ToSet, IdsOf

LEMMA UserIs ==
    ASSUME NEW text \in BOOLEAN, NEW rs \in Seq(Result)
    PROVE  /\ User(text, rs) \in Message /\ User(text, rs).role = "user"
           /\ User(text, rs).results = rs /\ User(text, rs).text = text
           /\ User(text, rs).uses = <<>> /\ ToSet(User(text, rs).uses) = {}
  BY DEF User, Message, ToSet

LEMMA WithResults ==
    ASSUME NEW m \in Message, m.role = "user", NEW rs \in Seq(Result)
    PROVE  LET n == [m EXCEPT !.results = rs]
           IN  n \in Message /\ n.role = "user" /\ n.text = m.text /\ n.uses = m.uses /\ n.results = rs
  BY DEF Message

LEMMA WithUses ==
    ASSUME NEW m \in Message, m.role = "assistant", NEW ids \in Seq(Ids)
    PROVE  LET n == [m EXCEPT !.uses = ids]
           IN  /\ n \in Message /\ n.role = "assistant" /\ n.text = m.text /\ n.uses = ids
               /\ n.results = <<>>
  BY DEF Message

LEMMA OneOrTwo ==
    ASSUME NEW X, NEW x \in X, NEW y \in X
    PROVE  /\ <<x>> \in Seq(X) /\ Len(<<x>>) = 1 /\ <<x>>[1] = x
           /\ <<x, y>> \in Seq(X) /\ Len(<<x, y>>) = 2 /\ <<x, y>>[1] = x /\ <<x, y>>[2] = y
  OBVIOUS

LEMMA MessageAt ==
    ASSUME NEW msgs \in Seq(Message), NEW i
    PROVE  /\ i \in DOMAIN msgs => msgs[i] \in Message /\ (IsUser(msgs, i) \/ IsAssistant(msgs, i))
           /\ IsUser(msgs, i) => /\ i \in DOMAIN msgs /\ msgs[i].role = "user" /\ ~IsAssistant(msgs, i)
                                 /\ UsesAt(msgs, i) = {}
           /\ IsAssistant(msgs, i) => i \in DOMAIN msgs /\ msgs[i].role = "assistant"
           /\ i \in DOMAIN msgs => UsesAt(msgs, i) = ToSet(msgs[i].uses)
           /\ i \notin DOMAIN msgs => UsesAt(msgs, i) = {}
           /\ DOMAIN msgs = 1 .. Len(msgs) /\ Len(msgs) \in Nat
  <1>1. i \in DOMAIN msgs => msgs[i] \in Message
    OBVIOUS
  <1>2. i \in DOMAIN msgs => msgs[i].role \in {"user", "assistant"}
    BY <1>1, MessageFields
  <1>3. i \in DOMAIN msgs /\ msgs[i].role = "user" => ToSet(msgs[i].uses) = {}
    BY <1>1, MessageFields
  <1>4. DOMAIN msgs = 1 .. Len(msgs) /\ Len(msgs) \in Nat
    OBVIOUS
  <1>5. QED
    BY <1>1, <1>2, <1>3, <1>4 DEF IsUser, IsAssistant, UsesAt

-----------------------------------------------------------------------------
(* sanitizeAnthropicMessages                                               *)

\* What becomes of a message
Sanitized(msgs, i, part) ==
    /\ part \in Seq(Message) /\ Len(part) \in {1, 2}
    /\ part[1].role = msgs[i].role /\ part[1].text = msgs[i].text
    /\ IsInjective(part[1].uses) /\ ToSet(part[1].uses) = ToSet(msgs[i].uses)
    /\ Len(part) = 2 => /\ IsAssistant(msgs, i) /\ ~IsUser(msgs, i + 1) /\ part[2].role = "user"
                        /\ part[2].results # <<>> /\ Single(part[2].results) /\ NoneReal(part[2].results)
                        /\ IdsOf(part[2].results) \subseteq ToSet(msgs[i].uses)
    /\ IsUser(msgs, i) /\ ~IsAssistant(msgs, i - 1) => part[1] = msgs[i]
    /\ IsUser(msgs, i) /\ IsAssistant(msgs, i - 1) =>
           LET answered == IdsOf(msgs[i].results) \cap UsesAt(msgs, i - 1)
           IN  /\ Single(part[1].results)
               /\ answered \subseteq IdsOf(part[1].results)
               /\ IdsOf(part[1].results) \subseteq UsesAt(msgs, i - 1)
               /\ AllReal(msgs[i].results) =>
                      \A id \in Ids : Real(id) \in ToSet(part[1].results) <=> id \in answered

LEMMA RealId ==
    ASSUME NEW rs \in Seq(Result), AllReal(rs), NEW id
    PROVE  Real(id) \in ToSet(rs) <=> id \in IdsOf(rs)
  <1>1. Real(id) \in ToSet(rs) => id \in IdsOf(rs)
    BY DEF IdsOf, Real
  <1>2. ASSUME id \in IdsOf(rs)
        PROVE  Real(id) \in ToSet(rs)
    <2>1. PICK r \in ToSet(rs) : r.id = id
      BY <1>2 DEF IdsOf
    <2>2. r.real /\ r \in Result
      BY <2>1 DEF AllReal, ToSet
    <2>3. r = Real(id)
      BY <2>1, <2>2 DEF Result, Real
    <2>4. QED
      BY <2>1, <2>3
  <1>3. QED
    BY <1>1, <1>2

LEMMA RealOnes ==
    ASSUME NEW kept \in Seq(Result), NEW rs \in Seq(Result), NEW fill \in Seq(Result), NEW U,
           ToSet(kept) \subseteq ToSet(rs), IdsOf(kept) = IdsOf(rs) \cap U, AllReal(rs),
           NoneReal(fill), NEW id
    PROVE  Real(id) \in ToSet(kept \o fill) <=> id \in IdsOf(rs) \cap U
  <1>1. ToSet(kept \o fill) = ToSet(kept) \cup ToSet(fill)
    BY Together
  <1>2. Real(id) \notin ToSet(fill)
    BY DEF NoneReal, Real
  <1>3. AllReal(kept)
    BY DEF AllReal
  <1>4. Real(id) \in ToSet(kept) <=> id \in IdsOf(kept)
    BY <1>3, RealId
  <1>5. QED
    BY <1>1, <1>2, <1>4

LEMMA SanitizedAt ==
    ASSUME NEW msgs \in Seq(Message), NEW i \in DOMAIN msgs
    PROVE  Sanitized(msgs, i, SanitizeAt(msgs, i))
  <1> DEFINE m == msgs[i]
             part == SanitizeAt(msgs, i)
  <1>1. m \in Message /\ UsesAt(msgs, i) = ToSet(m.uses)
    BY MessageAt
  <1>2. CASE IsAssistant(msgs, i)
    <2> DEFINE deduped == [m EXCEPT !.uses = FirstOfEach(m.uses)]
               fill == Fill(m, {})
    <2>1. m.role = "assistant" /\ ~IsUser(msgs, i)
      BY <1>2, MessageAt
    <2>2. m.uses \in Seq(Ids)
      BY <1>1, MessageFields
    <2>3. /\ FirstOfEach(m.uses) \in Seq(Ids) /\ IsInjective(FirstOfEach(m.uses))
          /\ ToSet(FirstOfEach(m.uses)) = ToSet(m.uses)
      BY <2>2, FirstOfEachIs
    <2>4. /\ deduped \in Message /\ deduped.role = m.role /\ deduped.text = m.text
          /\ deduped.uses = FirstOfEach(m.uses)
      BY <1>1, <2>1, <2>3, WithUses
    <2>5. /\ fill \in Seq(Result) /\ Single(fill) /\ NoneReal(fill)
          /\ IdsOf(fill) \subseteq ToSet(m.uses)
      <3>1. /\ fill \in Seq(Result) /\ Single(fill) /\ NoneReal(fill)
            /\ IdsOf(fill) = ToSet(m.uses) \ ({} \cup Reserved)
        BY <1>1, FillIs
      <3>2. QED
        BY <3>1
    <2>6. User(FALSE, fill) \in Message /\ User(FALSE, fill).role = "user" /\ User(FALSE, fill).results = fill
      BY <2>5, UserIs
    <2>7. part = IF IsUser(msgs, i + 1) \/ fill = <<>> THEN <<deduped>> ELSE <<deduped, User(FALSE, fill)>>
      BY <1>2 DEF SanitizeAt
    <2> DEFINE user == User(FALSE, fill)
    <2> HIDE DEF deduped, fill, user, part, m
    <2>8. \/ part = <<deduped>>
          \/ part = <<deduped, user>> /\ ~IsUser(msgs, i + 1) /\ fill # <<>>
      BY <2>7 DEF user
    <2>9. user \in Message /\ user.role = "user" /\ user.results = fill
      BY <2>6 DEF user
    <2>10. CASE part = <<deduped>>
      <3>1. part \in Seq(Message) /\ Len(part) = 1 /\ part[1] = deduped
        BY <2>4, <2>10, OneOrTwo
      <3>2. QED
        BY <2>1, <2>3, <2>4, <3>1 DEF Sanitized, part, m
    <2>11. CASE part = <<deduped, user>> /\ ~IsUser(msgs, i + 1) /\ fill # <<>>
      <3>1. part \in Seq(Message) /\ Len(part) = 2 /\ part[1] = deduped /\ part[2] = user
        BY <2>4, <2>9, <2>11, OneOrTwo
      <3>2. QED
        BY <1>2, <2>1, <2>3, <2>4, <2>5, <2>9, <2>11, <3>1 DEF Sanitized, part, m
    <2>12. QED
      BY <2>8, <2>10, <2>11 DEF part
  <1>3. CASE ~IsAssistant(msgs, i)
    <2>1. m.role = "user" /\ IsUser(msgs, i) /\ m.uses = <<>>
      <3>1. IsUser(msgs, i) /\ m.role = "user"
        BY <1>3, MessageAt
      <3>2. QED
        BY <1>1, <3>1, MessageFields
    <2>2. IsInjective(m.uses)
      BY <2>1 DEF IsInjective
    <2>3. CASE ~IsAssistant(msgs, i - 1)
      <3>1. part = <<m>>
        BY <1>3, <2>3 DEF SanitizeAt
      <3> HIDE DEF part, m
      <3>2. part \in Seq(Message) /\ Len(part) = 1 /\ part[1] = m
        BY <1>1, <3>1, OneOrTwo
      <3>3. QED
        BY <2>1, <2>2, <2>3, <3>2 DEF Sanitized, part, m
    <2>4. CASE IsAssistant(msgs, i - 1)
      <3> DEFINE kept == KeptResults(msgs, i)
                 fill == Fill(msgs[i - 1], Answered(msgs[i]))
                 answers == kept \o fill
                 answered == [m EXCEPT !.results = answers]
                 U == UsesAt(msgs, i - 1)
      <3>1. msgs[i - 1] \in Message /\ U = ToSet(msgs[i - 1].uses)
        BY <2>4, MessageAt
      <3>2. /\ kept \in Seq(Result) /\ Single(kept) /\ ToSet(kept) \subseteq ToSet(m.results)
            /\ IdsOf(kept) = IdsOf(m.results) \cap U
        BY KeptResultsAre
      <3>3. /\ fill \in Seq(Result) /\ Single(fill) /\ NoneReal(fill)
            /\ IdsOf(fill) = U \ (IdsOf(m.results) \cup Reserved)
        <4>1. Answered(msgs[i]) = IdsOf(m.results)
          BY DEF Answered, IdsOf
        <4>2. QED
          BY <3>1, <4>1, FillIs
      <3>4. part = <<answered>>
        BY <1>3, <2>4 DEF SanitizeAt
      <3> HIDE DEF kept, fill
      <3>5. answers \in Seq(Result) /\ Single(answers) /\ IdsOf(answers) = IdsOf(kept) \cup IdsOf(fill)
        BY <3>2, <3>3, Together
      <3>6. m.results \in Seq(Result)
        BY <1>1, MessageFields
      <3>7. AllReal(m.results) => \A id \in Ids : Real(id) \in ToSet(answers) <=> id \in IdsOf(m.results) \cap U
        <4> DEFINE rs == m.results
        <4> HIDE DEF m, U, rs
        <4>1. SUFFICES ASSUME AllReal(rs), NEW id \in Ids
                       PROVE  Real(id) \in ToSet(answers) <=> id \in IdsOf(rs) \cap U
          BY DEF rs
        <4>2. /\ kept \in Seq(Result) /\ rs \in Seq(Result) /\ fill \in Seq(Result)
              /\ ToSet(kept) \subseteq ToSet(rs) /\ IdsOf(kept) = IdsOf(rs) \cap U /\ NoneReal(fill)
          BY <3>2, <3>3, <3>6 DEF rs
        <4>3. QED
          BY <4>1, <4>2, RealOnes
      <3> HIDE DEF answers
      <3>8. /\ answered \in Message /\ answered.role = "user" /\ answered.text = m.text
            /\ answered.uses = m.uses /\ answered.results = answers
        BY <1>1, <2>1, <3>5, WithResults
      <3> HIDE DEF answered, U, part, m
      <3>9. part \in Seq(Message) /\ Len(part) = 1 /\ part[1] = answered
        BY <3>4, <3>8, OneOrTwo
      <3>10. IdsOf(m.results) \cap U \subseteq IdsOf(answers) /\ IdsOf(answers) \subseteq U
        BY <3>2, <3>3, <3>5
      <3>11. QED
        BY <2>1, <2>2, <2>4, <3>5, <3>7, <3>8, <3>9, <3>10 DEF Sanitized, U, part, m
    <2>5. QED
      BY <2>3, <2>4
  <1>4. QED
    BY <1>2, <1>3

-----------------------------------------------------------------------------
(* A repair: every message becomes none, one or two                        *)

Rewrites(parts, msgs) ==
    /\ parts \in Seq(Seq(Message)) /\ Len(parts) = Len(msgs)
    /\ \A i \in DOMAIN msgs : Len(parts[i]) \in {0, 1, 2}

\* Only a message that follows no assistant may go, and only what is not followed by a
\* user may get one.
Repair(parts, msgs) ==
    /\ parts \in Seq(Seq(Message)) /\ Len(parts) = Len(msgs)
    /\ \A i \in DOMAIN msgs :
           /\ Len(parts[i]) \in {0, 1, 2}
           /\ Len(parts[i]) # 0 => parts[i][1].role = msgs[i].role
           /\ Len(parts[i]) = 0 => IsUser(msgs, i) /\ ~IsAssistant(msgs, i - 1)
           /\ Len(parts[i]) = 2 => /\ IsAssistant(msgs, i) /\ ~IsUser(msgs, i + 1)
                                   /\ parts[i][2].role = "user"

Stays(parts) == {i \in DOMAIN parts : Len(parts[i]) # 0}

\* Where what becomes of a message begins
Places(pl, parts, out) ==
    /\ pl \in [Stays(parts) -> DOMAIN out]
    /\ \A i, j \in Stays(parts) : i < j => pl[i] < pl[j]
    /\ \A i \in Stays(parts) : out[pl[i]] = parts[i][1]
    /\ \A i \in Stays(parts) : Len(parts[i]) = 2 => /\ pl[i] + 1 \in DOMAIN out
                                                    /\ out[pl[i] + 1] = parts[i][2]
    /\ \A i, j \in Stays(parts) : j = i + 1 => pl[j] = pl[i] + Len(parts[i])
    /\ \A p \in DOMAIN out : \/ \E i \in Stays(parts) : p = pl[i]
                             \/ \E i \in Stays(parts) : Len(parts[i]) = 2 /\ p = pl[i] + 1

LEMMA NextPlace ==
    ASSUME NEW a \in Nat, NEW b \in Nat, NEW l \in {1, 2}, b = a + l
    PROVE  a + 1 <= b /\ (l = 2 => b = a + 2)
  OBVIOUS

LEMMA RewritesHavePlaces ==
    ASSUME NEW msgs \in Seq(Message), NEW parts, Rewrites(parts, msgs)
    PROVE  FlattenSeq(parts) \in Seq(Message) /\ \E pl : Places(pl, parts, FlattenSeq(parts))
  <1> DEFINE n == Len(msgs)
             out == FlattenSeq(parts)
             K == Stays(parts)
  <1>0. DOMAIN msgs = 1 .. n /\ n \in Nat
    BY MessageAt
  <1>1. parts \in Seq(Seq(Message)) /\ Len(parts) = n
    BY DEF Rewrites
  <1>2. /\ DOMAIN parts = 1 .. n
        /\ \A i \in 1 .. n : DOMAIN parts[i] = 1 .. Len(parts[i]) /\ Len(parts[i]) \in {0, 1, 2}
    <2>1. DOMAIN parts = 1 .. n /\ \A i \in 1 .. n : DOMAIN parts[i] = 1 .. Len(parts[i])
      BY <1>1, PartsAre
    <2>2. \A i \in 1 .. n : Len(parts[i]) \in {0, 1, 2}
      BY <1>0 DEF Rewrites
    <2>3. QED
      BY <2>1, <2>2
  <1>3. out \in Seq(Message) /\ \E at : Laid(at, parts, out)
    BY <1>1, FlattenIsLaid
  <1>4. PICK at : Laid(at, parts, out)
    BY <1>3
  <1> HIDE DEF n, out
  <1>5. /\ \A i \in 1 .. n + 1 : at[i] \in Nat
        /\ at[n + 1] = Len(out) /\ Len(out) \in Nat /\ DOMAIN out = 1 .. Len(out)
        /\ \A i \in 1 .. n : /\ at[i + 1] = at[i] + Len(parts[i])
                             /\ \A k \in DOMAIN parts[i] : out[at[i] + k] = parts[i][k]
    <2>1. Len(out) \in Nat /\ DOMAIN out = 1 .. Len(out)
      BY <1>3
    <2>2. QED
      BY <1>1, <1>2, <1>4, <2>1 DEF Laid
  <1>6. \A i \in 1 .. n : i \in 1 .. n + 1 /\ i + 1 \in 1 .. n + 1 /\ n + 1 \in 1 .. n + 1 /\ i + 1 <= n + 1
    BY <1>0
  <1>7. ASSUME NEW i \in 1 .. n
        PROVE  at[i + 1] <= Len(out) /\ at[i] \in Nat /\ at[i + 1] \in Nat
    <2>1. i \in 1 .. n + 1 /\ i + 1 \in 1 .. n + 1 /\ n + 1 \in 1 .. n + 1 /\ i + 1 <= n + 1
      BY <1>6
    <2>2. at[i + 1] <= at[n + 1]
      BY <1>1, <1>4, <2>1, LaidInOrder
    <2>3. QED
      BY <1>5, <2>1, <2>2
  <1>8. K = {i \in 1 .. n : Len(parts[i]) # 0}
    BY <1>2 DEF Stays
  <1> HIDE DEF K
  <1> DEFINE pl == [i \in K |-> at[i] + 1]
  <1>9. \A i \in K : i \in 1 .. n /\ at[i] + 1 \in DOMAIN out /\ out[at[i] + 1] = parts[i][1]
    <2>1. SUFFICES ASSUME NEW i \in K
                   PROVE  i \in 1 .. n /\ at[i] + 1 \in DOMAIN out /\ out[at[i] + 1] = parts[i][1]
      OBVIOUS
    <2>2. i \in 1 .. n /\ Len(parts[i]) \in {1, 2}
      BY <1>2, <1>8
    <2>3. 1 \in DOMAIN parts[i]
      BY <1>2, <2>2
    <2>4. at[i] + 1 <= at[i + 1] /\ at[i + 1] <= Len(out) /\ at[i] \in Nat /\ at[i + 1] \in Nat
      <3>1. at[i + 1] <= Len(out) /\ at[i] \in Nat /\ at[i + 1] \in Nat
        BY <1>7, <2>2
      <3>2. at[i + 1] = at[i] + Len(parts[i])
        BY <1>5, <2>2
      <3>3. at[i] + 1 <= at[i + 1]
        BY <2>2, <3>1, <3>2, NextPlace
      <3>4. QED
        BY <3>1, <3>3
    <2>5. out[at[i] + 1] = parts[i][1]
      BY <1>5, <2>2, <2>3
    <2>6. at[i] + 1 \in DOMAIN out
      <3>1. DOMAIN out = 1 .. Len(out) /\ Len(out) \in Nat
        BY <1>5
      <3>2. QED
        BY <2>4, <3>1
    <2>7. QED
      BY <2>2, <2>5, <2>6
  <1>10. \A i \in K : pl[i] = at[i] + 1
    OBVIOUS
  <1>11. pl \in [K -> DOMAIN out]
    BY <1>9
  <1> HIDE DEF pl
  <1>12. ASSUME NEW i \in K, NEW j \in K, i < j
         PROVE  pl[i] < pl[j]
    <2>1. i \in 1 .. n /\ j \in 1 .. n /\ i + 1 <= j /\ Len(parts[i]) \in {1, 2}
      BY <1>0, <1>2, <1>8, <1>12
    <2>2. i + 1 \in 1 .. n + 1 /\ j \in 1 .. n + 1
      BY <1>6, <2>1
    <2>3. at[i + 1] <= at[j]
      BY <1>1, <1>4, <2>1, <2>2, LaidInOrder
    <2>4. at[i + 1] = at[i] + Len(parts[i]) /\ at[i] \in Nat /\ at[i + 1] \in Nat /\ at[j] \in Nat
      BY <1>5, <1>6, <2>1
    <2>5. pl[i] = at[i] + 1 /\ pl[j] = at[j] + 1
      BY <1>10
    <2>6. at[i] + 1 <= at[i + 1]
      BY <2>1, <2>4, NextPlace
    <2> DEFINE a == at[i]
               b == at[i + 1]
               c == at[j]
    <2>7. a \in Nat /\ b \in Nat /\ c \in Nat /\ a + 1 <= b /\ b <= c
      BY <2>3, <2>4, <2>6
    <2>8. pl[i] = a + 1 /\ pl[j] = c + 1
      BY <2>5
    <2> HIDE DEF a, b, c
    <2>9. QED
      BY <2>7, <2>8
  <1>13. ASSUME NEW i \in K, Len(parts[i]) = 2
         PROVE  pl[i] + 1 \in DOMAIN out /\ out[pl[i] + 1] = parts[i][2]
    <2>1. i \in 1 .. n /\ 2 \in DOMAIN parts[i]
      BY <1>2, <1>8, <1>13
    <2>2. at[i] + 2 <= Len(out) /\ at[i] \in Nat /\ at[i + 1] = at[i] + 2
      BY <1>5, <1>7, <1>13, <2>1
    <2>3. pl[i] + 1 = at[i] + 2
      BY <1>10, <2>2
    <2>4. out[at[i] + 2] = parts[i][2]
      BY <1>5, <2>1
    <2>5. DOMAIN out = 1 .. Len(out) /\ Len(out) \in Nat
      BY <1>5
    <2>6. QED
      BY <2>2, <2>3, <2>4, <2>5
  <1>14. ASSUME NEW i \in K, NEW j \in K, j = i + 1
         PROVE  pl[j] = pl[i] + Len(parts[i])
    <2>1. i \in 1 .. n /\ Len(parts[i]) \in Nat
      BY <1>2, <1>8
    <2>2. at[j] = at[i] + Len(parts[i]) /\ at[i] \in Nat
      BY <1>5, <1>7, <1>14, <2>1
    <2>3. QED
      BY <1>10, <2>1, <2>2
  <1>15. ASSUME NEW p \in DOMAIN out
         PROVE  \/ \E i \in K : p = pl[i]
                \/ \E i \in K : Len(parts[i]) = 2 /\ p = pl[i] + 1
    <2>1. Covered(at, parts, p)
      BY <1>1, <1>3, <1>4, LaidCovers
    <2>2. PICK i \in 1 .. n : \E k \in DOMAIN parts[i] : p = at[i] + k
      BY <1>2, <2>1 DEF Covered
    <2>3. PICK k \in DOMAIN parts[i] : p = at[i] + k
      BY <2>2
    <2>4. Len(parts[i]) \in {1, 2} /\ k \in 1 .. Len(parts[i])
      BY <1>2, <2>3
    <2>5. i \in K /\ at[i] \in Nat /\ (k = 1 \/ (k = 2 /\ Len(parts[i]) = 2))
      <3>1. Len(parts[i]) # 0
        BY <2>4
      <3>2. i \in K
        BY <1>8, <3>1
      <3>3. at[i] \in Nat
        BY <1>7
      <3>4. QED
        BY <2>4, <3>2, <3>3
    <2>6. QED
      BY <1>10, <2>3, <2>5
  <1>16. Places(pl, parts, out)
    BY <1>9, <1>10, <1>11, <1>12, <1>13, <1>14, <1>15 DEF Places, K
  <1>17. QED
    BY <1>3, <1>16 DEF out

LEMMA RepairHasPlaces ==
    ASSUME NEW msgs \in Seq(Message), NEW parts, Repair(parts, msgs)
    PROVE  FlattenSeq(parts) \in Seq(Message) /\ \E pl : Places(pl, parts, FlattenSeq(parts))
  <1>1. Rewrites(parts, msgs)
    BY DEF Repair, Rewrites
  <1>2. QED
    BY <1>1, RewritesHavePlaces

\* Who speaks at which place, after a repair
Speakers(msgs, parts, out, pl) ==
    /\ \A i \in DOMAIN msgs : IsAssistant(msgs, i) =>
           /\ i \in Stays(parts) /\ pl[i] \in DOMAIN out /\ pl[i] \in Nat
           /\ IsAssistant(out, pl[i]) /\ out[pl[i]] = parts[i][1]
           /\ Len(parts[i]) = 2 => IsUser(out, pl[i] + 1) /\ out[pl[i] + 1] = parts[i][2]
           /\ IsUser(msgs, i + 1) => /\ i + 1 \in Stays(parts) /\ IsUser(out, pl[i] + 1)
                                     /\ out[pl[i] + 1] = parts[i + 1][1]
                                     /\ pl[i + 1] = pl[i] + 1 /\ Len(parts[i]) = 1
           /\ IsUser(out, pl[i] + 1) => Len(parts[i]) = 2 \/ IsUser(msgs, i + 1)
    /\ \A p \in DOMAIN out : IsAssistant(out, p) =>
           \E i \in DOMAIN msgs : IsAssistant(msgs, i) /\ p = pl[i]
    /\ \A i, j \in Stays(parts) : pl[i] = pl[j] => i = j

LEMMA RolesStay ==
    ASSUME NEW msgs \in Seq(Message), NEW parts, Repair(parts, msgs),
           NEW out \in Seq(Message), NEW pl, Places(pl, parts, out)
    PROVE  Speakers(msgs, parts, out, pl)
  <1> DEFINE K == Stays(parts)
  <1>1. /\ DOMAIN msgs = 1 .. Len(msgs) /\ Len(msgs) \in Nat
        /\ DOMAIN out = 1 .. Len(out) /\ Len(out) \in Nat
    BY MessageAt
  <1>2. DOMAIN parts = DOMAIN msgs /\ K \subseteq DOMAIN msgs
    <2>1. DOMAIN parts = 1 .. Len(parts) /\ Len(parts) = Len(msgs)
      BY PartsAre DEF Repair
    <2>2. QED
      BY <1>1, <2>1 DEF Stays
  <1>3. \A i \in DOMAIN msgs : i \in K <=> Len(parts[i]) # 0
    BY <1>2 DEF Stays
  <1> HIDE DEF K
  <1>4. /\ \A i \in K : pl[i] \in DOMAIN out /\ out[pl[i]] = parts[i][1]
        /\ \A i, j \in K : i < j => pl[i] < pl[j]
        /\ \A i \in K : Len(parts[i]) = 2 => pl[i] + 1 \in DOMAIN out /\ out[pl[i] + 1] = parts[i][2]
        /\ \A i, j \in K : j = i + 1 => pl[j] = pl[i] + Len(parts[i])
        /\ \A p \in DOMAIN out : \/ \E i \in K : p = pl[i]
                                 \/ \E i \in K : Len(parts[i]) = 2 /\ p = pl[i] + 1
    BY DEF Places, K
  <1>5. \A i \in DOMAIN msgs : Len(parts[i]) \in {0, 1, 2}
    BY DEF Repair
  <1>6. \A i \in K : /\ IsAssistant(out, pl[i]) <=> IsAssistant(msgs, i)
                     /\ IsUser(out, pl[i]) <=> IsUser(msgs, i)
    <2>1. \A i \in K : i \in DOMAIN msgs /\ parts[i][1].role = msgs[i].role
      BY <1>2, <1>3 DEF Repair
    <2>2. QED
      BY <1>4, <2>1 DEF IsAssistant, IsUser
  <1>7. ASSUME NEW i \in DOMAIN msgs, IsAssistant(msgs, i)
        PROVE  /\ i \in K /\ Len(parts[i]) \in {1, 2}
               /\ IsUser(msgs, i + 1) => i + 1 \in K /\ Len(parts[i]) = 1
    <2>1. ~IsUser(msgs, i)
      BY <1>7, MessageAt
    <2>2. Len(parts[i]) # 0
      BY <2>1 DEF Repair
    <2>3. ASSUME IsUser(msgs, i + 1)
          PROVE  i + 1 \in K /\ Len(parts[i]) # 2
      <3>1. i + 1 \in DOMAIN msgs /\ (i + 1) - 1 = i
        BY <1>1, <2>3, MessageAt
      <3>2. Len(parts[i + 1]) # 0
        BY <1>7, <3>1 DEF Repair
      <3>3. QED
        BY <1>3, <2>3, <3>1, <3>2 DEF Repair
    <2>4. QED
      BY <1>3, <1>5, <2>2, <2>3
  <1>8. ASSUME NEW i \in DOMAIN msgs, IsAssistant(msgs, i)
        PROVE  /\ i \in K /\ pl[i] \in DOMAIN out /\ pl[i] \in Nat
               /\ IsAssistant(out, pl[i]) /\ out[pl[i]] = parts[i][1]
               /\ Len(parts[i]) = 2 => IsUser(out, pl[i] + 1) /\ out[pl[i] + 1] = parts[i][2]
               /\ IsUser(msgs, i + 1) => /\ i + 1 \in K /\ IsUser(out, pl[i] + 1)
                                         /\ out[pl[i] + 1] = parts[i + 1][1]
                                         /\ pl[i + 1] = pl[i] + 1 /\ Len(parts[i]) = 1
    <2>1. i \in K /\ pl[i] \in DOMAIN out /\ pl[i] \in Nat /\ IsAssistant(out, pl[i]) /\ out[pl[i]] = parts[i][1]
      BY <1>1, <1>4, <1>6, <1>7, <1>8
    <2>2. ASSUME Len(parts[i]) = 2
          PROVE  IsUser(out, pl[i] + 1) /\ out[pl[i] + 1] = parts[i][2]
      <3>1. parts[i][2].role = "user"
        BY <2>2 DEF Repair
      <3>2. QED
        BY <1>4, <2>1, <2>2, <3>1 DEF IsUser
    <2>3. ASSUME IsUser(msgs, i + 1)
          PROVE  /\ i + 1 \in K /\ IsUser(out, pl[i] + 1) /\ out[pl[i] + 1] = parts[i + 1][1]
                 /\ pl[i + 1] = pl[i] + 1 /\ Len(parts[i]) = 1
      <3>1. i + 1 \in K /\ Len(parts[i]) = 1
        BY <1>7, <1>8, <2>3
      <3> DEFINE j == i + 1
      <3>a. j \in K /\ j = i + 1
        BY <3>1
      <3> HIDE DEF j
      <3>b. pl[j] = pl[i] + Len(parts[i])
        BY <1>4, <2>1, <3>a
      <3>2. pl[i + 1] = pl[i] + 1
        BY <3>1, <3>b DEF j
      <3>3. IsUser(out, pl[i + 1]) /\ out[pl[i + 1]] = parts[i + 1][1]
        BY <1>4, <1>6, <2>3, <3>1
      <3>4. QED
        BY <3>1, <3>2, <3>3
    <2>4. QED
      BY <2>1, <2>2, <2>3
  <1>9. ASSUME NEW i \in DOMAIN msgs, IsAssistant(msgs, i), IsUser(out, pl[i] + 1), Len(parts[i]) # 2
        PROVE  IsUser(msgs, i + 1)
    <2>1. i \in K /\ pl[i] \in Nat /\ pl[i] + 1 \in DOMAIN out /\ Len(parts[i]) = 1
      BY <1>5, <1>7, <1>8, <1>9, MessageAt
    <2>2. ASSUME NEW k \in K, Len(parts[k]) = 2, pl[i] + 1 = pl[k] + 1
          PROVE  FALSE
      <3>a. i \in Nat /\ k \in Nat
        BY <1>1, <1>2
      <3>b. pl[k] \in Nat /\ pl[i] \in Nat
        BY <1>4, <2>1
      <3>1. pl[k] = pl[i] /\ i \in Nat /\ k \in Nat
        BY <2>2, <3>a, <3>b
      <3>2. ~(i < k) /\ ~(k < i)
        BY <1>4, <2>1, <3>1
      <3>3. QED
        BY <1>9, <2>2, <3>1, <3>2
    <2>3. PICK j \in K : pl[i] + 1 = pl[j]
      BY <1>4, <2>1, <2>2
    <2>4. IsUser(msgs, j)
      BY <1>6, <1>9, <2>3
    <2>5. i \in 1 .. Len(msgs) /\ j \in 1 .. Len(msgs) /\ i < j
      <3>1. i \in 1 .. Len(msgs) /\ j \in 1 .. Len(msgs)
        BY <1>1, <1>2
      <3>2. pl[i] < pl[j]
        BY <2>1, <2>3
      <3>3. ~(j < i) /\ j # i
        BY <1>4, <2>1, <2>3, <3>2
      <3>4. QED
        BY <3>1, <3>3
    <2>6. i + 1 \in K
      <3>1. i + 1 \in DOMAIN msgs /\ (i + 1) - 1 = i
        BY <1>1, <2>5
      <3>2. Len(parts[i + 1]) # 0
        BY <1>9, <3>1 DEF Repair
      <3>3. QED
        BY <1>3, <3>1, <3>2
    <2> DEFINE next == i + 1
    <2>a. next \in K /\ next = i + 1 /\ i + 1 <= j
      BY <2>5, <2>6
    <2> HIDE DEF next
    <2>b. pl[next] = pl[i] + Len(parts[i])
      BY <1>4, <2>1, <2>a
    <2>7. pl[i + 1] = pl[j] /\ i + 1 <= j
      BY <2>1, <2>3, <2>a, <2>b
    <2>8. i + 1 = j
      <3>1. ~(i + 1 < j)
        BY <1>1, <1>4, <2>6, <2>7
      <3>2. QED
        BY <2>5, <2>7, <3>1
    <2>9. QED
      BY <2>4, <2>8
  <1>10. ASSUME NEW p \in DOMAIN out, IsAssistant(out, p)
         PROVE  \E i \in DOMAIN msgs : IsAssistant(msgs, i) /\ p = pl[i]
    <2>1. CASE \E i \in K : p = pl[i]
      BY <1>2, <1>6, <1>10, <2>1
    <2>2. CASE \E i \in K : Len(parts[i]) = 2 /\ p = pl[i] + 1
      <3>1. PICK i \in K : Len(parts[i]) = 2 /\ p = pl[i] + 1
        BY <2>2
      <3>2. out[p].role = "user"
        BY <1>2, <1>4, <3>1 DEF Repair
      <3>3. QED
        BY <1>10, <3>2 DEF IsAssistant
    <2>3. QED
      BY <1>4, <2>1, <2>2
  <1>11. ASSUME NEW i \in K, NEW j \in K, pl[i] = pl[j]
         PROVE  i = j
    <2>1. i \in Nat /\ j \in Nat /\ pl[i] \in Nat
      BY <1>1, <1>2, <1>4
    <2>2. ~(i < j) /\ ~(j < i)
      BY <1>4, <1>11, <2>1
    <2>3. QED
      BY <2>1, <2>2
  <1>12. QED
    BY <1>8, <1>9, <1>10, <1>11 DEF K, Speakers

-----------------------------------------------------------------------------
(* dropOrphanToolResults and backfillToolResults                           *)

Answering(rs, U) == {r \in ToSet(rs) : r.id \in U}

LEMMA EmptyOnes ==
    ASSUME NEW X, NEW s \in Seq(X)
    PROVE  s = <<>> <=> ToSet(s) = {}
  <1>1. DOMAIN s = 1 .. Len(s) /\ Len(s) \in Nat
    OBVIOUS
  <1>2. ASSUME s # <<>>
        PROVE  s[1] \in ToSet(s)
    <2>1. Len(s) # 0
      BY <1>2
    <2>2. 1 \in DOMAIN s
      BY <1>1, <2>1
    <2>3. QED
      BY <2>2 DEF ToSet
  <1>3. ASSUME s = <<>>
        PROVE  ToSet(s) = {}
    BY <1>3 DEF ToSet
  <1>4. QED
    BY <1>2, <1>3

LEMMA NoneAnswered ==
    ASSUME NEW rs \in Seq(Result)
    PROVE  (rs = <<>> <=> ToSet(rs) = {}) /\ (rs = <<>> <=> IdsOf(rs) = {})
  <1>1. rs = <<>> <=> ToSet(rs) = {}
    BY EmptyOnes
  <1>2. ToSet(rs) = {} <=> IdsOf(rs) = {}
    BY DEF IdsOf
  <1>3. QED
    BY <1>1, <1>2

KeptFor(rs, U) == KeepAt(rs, LAMBDA k : rs[k].id \in U)

LEMMA KeptAnswers ==
    ASSUME NEW rs \in Seq(Result), NEW U
    PROVE  /\ KeptFor(rs, U) \in Seq(Result) /\ ToSet(KeptFor(rs, U)) = Answering(rs, U)
           /\ Single(rs) => Single(KeptFor(rs, U))
  <1> DEFINE P == {k \in DOMAIN rs : rs[k].id \in U}
             kept == KeptFor(rs, U)
  <1>1. kept = Chosen(rs, P)
    <2>1. [k \in DOMAIN rs |-> IF rs[k].id \in U THEN <<rs[k]>> ELSE <<>>]
            = [k \in DOMAIN rs |-> IF k \in P THEN <<rs[k]>> ELSE <<>>]
      OBVIOUS
    <2> HIDE DEF P
    <2>2. QED
      BY <2>1 DEF KeptFor, KeepAt, Chosen
  <1>2. {rs[k] : k \in P} = Answering(rs, U)
    BY DEF Answering, ToSet
  <1>3. P \in SUBSET (DOMAIN rs)
    OBVIOUS
  <1> HIDE DEF P, kept
  <1>4. kept \in Seq(Result) /\ ToSet(kept) = Answering(rs, U)
    <2>1. Chosen(rs, P) \in Seq(Result) /\ ToSet(Chosen(rs, P)) = {rs[k] : k \in P}
      BY <1>3, ChosenHave
    <2>2. QED
      BY <1>1, <1>2, <2>1
  <1>5. ASSUME Single(rs)
        PROVE  Single(kept)
    <2>1. \A k, l \in P : rs[k].id = rs[l].id => k = l
      BY <1>3, <1>5 DEF Single
    <2>2. QED
      BY <1>1, <1>3, <2>1, ChosenHave
  <1>6. QED
    BY <1>4, <1>5 DEF kept

\* What becomes of a message in DropOrphans
Dropped(msgs, i, part) ==
    /\ part \in Seq(Message) /\ Len(part) \in {0, 1}
    /\ Len(part) = 1 =>
           /\ part[1].role = msgs[i].role /\ part[1].text = msgs[i].text /\ part[1].uses = msgs[i].uses
           /\ ToSet(part[1].results) = Answering(msgs[i].results, LastUses(msgs, i))
           /\ Single(msgs[i].results) => Single(part[1].results)
           /\ part[1] = msgs[i] \/ part[1].text \/ part[1].results # <<>>
    /\ Len(part) = 0 =>
           /\ IsUser(msgs, i) /\ ~msgs[i].text /\ msgs[i].results # <<>>
           /\ Answering(msgs[i].results, LastUses(msgs, i)) = {}

LEMMA DroppedAt ==
    ASSUME NEW msgs \in Seq(Message), NEW i \in DOMAIN msgs
    PROVE  Dropped(msgs, i, DropOrphansAt(msgs, i))
  <1> DEFINE m == msgs[i]
             rs == m.results
             U == LastUses(msgs, i)
             kept == KeptFor(rs, U)
             fewer == [m EXCEPT !.results = kept]
             part == DropOrphansAt(msgs, i)
  <1>1. m \in Message /\ rs \in Seq(Result) /\ (IsUser(msgs, i) \/ IsAssistant(msgs, i))
    BY MessageAt, MessageFields
  <1>2. kept \in Seq(Result) /\ ToSet(kept) = Answering(rs, U) /\ (Single(rs) => Single(kept))
    BY <1>1, KeptAnswers
  <1>3. part = IF kept = rs THEN <<m>> ELSE IF kept = <<>> /\ ~m.text THEN <<>> ELSE <<fewer>>
    BY DEF DropOrphansAt, KeptFor
  <1>4. ASSUME ~IsUser(msgs, i)
        PROVE  kept = rs
    <2>1. m.role = "assistant"
      BY <1>1, <1>4, MessageAt
    <2>2. rs = <<>>
      BY <1>1, <2>1, MessageFields
    <2>3. ToSet(rs) = {}
      BY <1>1, <2>2, NoneAnswered
    <2> HIDE DEF kept, rs, m, U
    <2>4. ToSet(kept) = {}
      BY <1>2, <2>3 DEF Answering
    <2>5. QED
      BY <1>2, <2>2, <2>4, NoneAnswered
  <1> HIDE DEF kept, U
  <1>5. CASE kept = rs
    <2>1. part = <<m>>
      BY <1>3, <1>5
    <2> HIDE DEF part, m
    <2>2. part \in Seq(Message) /\ Len(part) = 1 /\ part[1] = m
      BY <1>1, <2>1, OneOrTwo
    <2>3. QED
      BY <1>2, <1>5, <2>2 DEF Dropped, part, m, U
  <1>6. CASE kept # rs /\ kept = <<>> /\ ~m.text
    <2>1. part = <<>>
      BY <1>3, <1>6
    <2>2. ToSet(kept) = {}
      BY <1>2, <1>6, NoneAnswered
    <2>3. IsUser(msgs, i)
      BY <1>4, <1>6
    <2> HIDE DEF part
    <2>4. part \in Seq(Message) /\ Len(part) = 0
      BY <2>1
    <2>5. QED
      BY <1>2, <1>6, <2>2, <2>3, <2>4 DEF Dropped, part, U
  <1>7. CASE kept # rs /\ ~(kept = <<>> /\ ~m.text)
    <2>1. part = <<fewer>>
      BY <1>3, <1>7
    <2>2. IsUser(msgs, i) /\ m.role = "user"
      BY <1>4, <1>7, MessageAt
    <2>3. fewer \in Message /\ fewer.role = "user" /\ fewer.text = m.text /\ fewer.uses = m.uses /\ fewer.results = kept
      BY <1>1, <1>2, <2>2, WithResults
    <2> HIDE DEF part, fewer
    <2>4. part \in Seq(Message) /\ Len(part) = 1 /\ part[1] = fewer
      BY <2>1, <2>3, OneOrTwo
    <2>5. QED
      BY <1>2, <1>7, <2>2, <2>3, <2>4 DEF Dropped, part, U
  <1>8. QED
    BY <1>5, <1>6, <1>7

\* What becomes of a message in Backfill
Filled(msgs, i, part) ==
    /\ part \in Seq(Message) /\ Len(part) \in {1, 2}
    /\ part[1].role = msgs[i].role /\ part[1].text = msgs[i].text /\ part[1].uses = msgs[i].uses
    /\ Len(part) = 2 =>
           /\ IsAssistant(msgs, i) /\ ~IsUser(msgs, i + 1)
           /\ part[2].role = "user" /\ part[2].results # <<>>
           /\ NoneReal(part[2].results) /\ IdsOf(part[2].results) = ToSet(msgs[i].uses)
           /\ IsInjective(msgs[i].uses) => Single(part[2].results)
    /\ IsAssistant(msgs, i) /\ Len(part) = 1 => IsUser(msgs, i + 1) \/ msgs[i].uses = <<>>
    /\ ~(IsUser(msgs, i) /\ IsAssistant(msgs, i - 1)) => part[1] = msgs[i]
    /\ IsUser(msgs, i) /\ IsAssistant(msgs, i - 1) =>
           /\ IdsOf(part[1].results) = IdsOf(msgs[i].results) \cup UsesAt(msgs, i - 1)
           /\ \A id \in Ids : Real(id) \in ToSet(part[1].results) <=> Real(id) \in ToSet(msgs[i].results)
           /\ IsInjective(msgs[i - 1].uses) /\ Single(msgs[i].results) => Single(part[1].results)

LEMMA MissingAre ==
    ASSUME NEW msgs \in Seq(Message), NEW i \in DOMAIN msgs
    PROVE  LET new == Placeholders(Missing(msgs, i))
               done == IF IsUser(msgs, i + 1) THEN IdsOf(msgs[i + 1].results) ELSE {}
           IN  /\ Missing(msgs, i) \in Seq(Ids)
               /\ new \in Seq(Result) /\ NoneReal(new) /\ (new = <<>> <=> Missing(msgs, i) = <<>>)
               /\ IdsOf(new) = ToSet(msgs[i].uses) \ done
               /\ IsInjective(msgs[i].uses) => Single(new)
  <1> DEFINE done == IF IsUser(msgs, i + 1) THEN IdsOf(msgs[i + 1].results) ELSE {}
             open == Missing(msgs, i)
             ids == msgs[i].uses
  <1>1. ids \in Seq(Ids)
    BY MessageAt, MessageFields
  <1>2. open = Without(ids, done)
    BY DEF Missing, Answered, IdsOf
  <1> HIDE DEF done, open, ids
  <1>3. open \in Seq(Ids) /\ ToSet(open) = ToSet(ids) \ done /\ (IsInjective(ids) => IsInjective(open))
    BY <1>1, <1>2, WithoutIs
  <1>4. /\ Placeholders(open) \in Seq(Result) /\ IdsOf(Placeholders(open)) = ToSet(open)
        /\ NoneReal(Placeholders(open)) /\ (Placeholders(open) = <<>> <=> open = <<>>)
        /\ IsInjective(open) => Single(Placeholders(open))
    BY <1>3, PlaceholdersAre
  <1>5. QED
    BY <1>3, <1>4 DEF done, open, ids

LEMMA FilledAt ==
    ASSUME NEW msgs \in Seq(Message), NEW i \in DOMAIN msgs
    PROVE  Filled(msgs, i, BackfillAt(msgs, i))
  <1> DEFINE m == msgs[i]
             part == BackfillAt(msgs, i)
             new == Placeholders(Missing(msgs, i))
             done == IF IsUser(msgs, i + 1) THEN IdsOf(msgs[i + 1].results) ELSE {}
  <1>1. m \in Message /\ m.results \in Seq(Result) /\ (IsUser(msgs, i) \/ IsAssistant(msgs, i))
    BY MessageAt, MessageFields
  <1>2. /\ Missing(msgs, i) \in Seq(Ids)
        /\ new \in Seq(Result) /\ NoneReal(new) /\ (new = <<>> <=> Missing(msgs, i) = <<>>)
        /\ IdsOf(new) = ToSet(m.uses) \ done /\ (IsInjective(m.uses) => Single(new))
    BY MissingAre
  <1>3. CASE IsAssistant(msgs, i)
    <2> DEFINE user == User(FALSE, new)
    <2>1. part = IF IsUser(msgs, i + 1) \/ new = <<>> THEN <<m>> ELSE <<m, user>>
      BY <1>2, <1>3 DEF BackfillAt
    <2>2. user \in Message /\ user.role = "user" /\ user.results = new
      BY <1>2, UserIs
    <2>3. ~IsUser(msgs, i)
      BY <1>3, MessageAt
    <2> HIDE DEF user, part
    <2>4. CASE IsUser(msgs, i + 1) \/ new = <<>>
      <3>1. part = <<m>>
        BY <2>1, <2>4
      <3> HIDE DEF m, new
      <3>2. part \in Seq(Message) /\ Len(part) = 1 /\ part[1] = m
        BY <1>1, <3>1, OneOrTwo
      <3>3. IsUser(msgs, i + 1) \/ m.uses = <<>>
        <4>1. SUFFICES ASSUME ~IsUser(msgs, i + 1)
                       PROVE  m.uses = <<>>
          OBVIOUS
        <4>2. IdsOf(new) = {} /\ done = {}
          BY <1>2, <2>4, <4>1, NoneAnswered
        <4>3. ToSet(m.uses) = {} /\ m.uses \in Seq(Ids)
          BY <1>1, <1>2, <4>2, MessageFields
        <4> DEFINE ids == m.uses
        <4>4. ids \in Seq(Ids) /\ ToSet(ids) = {}
          BY <4>3
        <4> HIDE DEF ids
        <4>5. ids = <<>>
          BY <4>4, EmptyOnes
        <4>6. QED
          BY <4>5 DEF ids
      <3>4. QED
        BY <1>3, <2>3, <3>2, <3>3 DEF Filled, part, m
    <2>5. CASE ~(IsUser(msgs, i + 1) \/ new = <<>>)
      <3>1. part = <<m, user>>
        BY <2>1, <2>5
      <3>2. done = {}
        BY <2>5
      <3> HIDE DEF m, new, done
      <3>3. part \in Seq(Message) /\ Len(part) = 2 /\ part[1] = m /\ part[2] = user
        BY <1>1, <2>2, <3>1, OneOrTwo
      <3>4. IdsOf(new) = ToSet(m.uses)
        BY <1>2, <3>2
      <3>5. QED
        BY <1>2, <1>3, <2>2, <2>3, <2>5, <3>3, <3>4 DEF Filled, part, m
    <2>6. QED
      BY <2>4, <2>5 DEF part
  <1>4. CASE ~IsAssistant(msgs, i)
    <2>1. IsUser(msgs, i) /\ m.role = "user"
      BY <1>4, MessageAt
    <2>2. CASE ~IsAssistant(msgs, i - 1)
      <3>1. part = <<m>>
        BY <1>4, <2>2 DEF BackfillAt
      <3> HIDE DEF m, part
      <3>2. part \in Seq(Message) /\ Len(part) = 1 /\ part[1] = m
        BY <1>1, <3>1, OneOrTwo
      <3>3. QED
        BY <1>4, <2>1, <2>2, <3>2 DEF Filled, part, m
    <2>3. CASE IsAssistant(msgs, i - 1)
      <3> DEFINE last == Placeholders(Missing(msgs, i - 1))
                 rs == last \o m.results
                 completed == [m EXCEPT !.results = rs]
                 U == UsesAt(msgs, i - 1)
      <3>1. part = <<completed>>
        BY <1>4, <2>3 DEF BackfillAt
      <3>2. i - 1 \in DOMAIN msgs /\ U = ToSet(msgs[i - 1].uses)
        BY <2>3, MessageAt
      <3>3. /\ last \in Seq(Result) /\ NoneReal(last) /\ IdsOf(last) = U \ IdsOf(m.results)
            /\ IsInjective(msgs[i - 1].uses) => Single(last)
        <4> DEFINE j == i - 1
        <4>1. j \in DOMAIN msgs /\ U = ToSet(msgs[j].uses)
          BY <3>2
        <4>2. j + 1 = i
          BY MessageAt
        <4> HIDE DEF j, U
        <4>3. LET answers == IF IsUser(msgs, j + 1) THEN IdsOf(msgs[j + 1].results) ELSE {}
                  open == Placeholders(Missing(msgs, j))
              IN  /\ open \in Seq(Result) /\ NoneReal(open) /\ IdsOf(open) = ToSet(msgs[j].uses) \ answers
                  /\ IsInjective(msgs[j].uses) => Single(open)
          BY <4>1, MissingAre
        <4>4. (IF IsUser(msgs, j + 1) THEN IdsOf(msgs[j + 1].results) ELSE {}) = IdsOf(m.results)
          BY <2>1, <4>2
        <4>5. QED
          BY <4>1, <4>3, <4>4 DEF j
      <3> HIDE DEF last
      <3>4. /\ rs \in Seq(Result) /\ ToSet(rs) = ToSet(last) \cup ToSet(m.results)
            /\ IdsOf(rs) = IdsOf(last) \cup IdsOf(m.results)
            /\ Single(last) /\ Single(m.results) /\ IdsOf(last) \cap IdsOf(m.results) = {} => Single(rs)
        BY <1>1, <3>3, Together
      <3> HIDE DEF rs, U
      <3>5. completed \in Message /\ completed.role = "user" /\ completed.text = m.text /\ completed.uses = m.uses /\ completed.results = rs
        BY <1>1, <2>1, <3>4, WithResults
      <3> HIDE DEF completed, m, part
      <3>6. part \in Seq(Message) /\ Len(part) = 1 /\ part[1] = completed
        BY <3>1, <3>5, OneOrTwo
      <3>7. \A id \in Ids : Real(id) \in ToSet(rs) <=> Real(id) \in ToSet(m.results)
        BY <3>3, <3>4 DEF NoneReal, Real
      <3>8. IdsOf(rs) = IdsOf(m.results) \cup U
        BY <3>3, <3>4
      <3>9. IsInjective(msgs[i - 1].uses) /\ Single(m.results) => Single(rs)
        <4>1. IdsOf(last) \cap IdsOf(m.results) = {}
          BY <3>3
        <4>2. QED
          BY <3>3, <3>4, <4>1
      <3>10. QED
        BY <1>4, <2>1, <2>3, <3>5, <3>6, <3>7, <3>8, <3>9 DEF Filled, part, m, U
    <2>4. QED
      BY <2>2, <2>3
  <1>5. QED
    BY <1>3, <1>4

-----------------------------------------------------------------------------
(* The steps as repairs                                                    *)

SanitizeParts(msgs) == [i \in DOMAIN msgs |-> SanitizeAt(msgs, i)]
DropParts(msgs) == [i \in DOMAIN msgs |-> DropOrphansAt(msgs, i)]
BackfillParts(msgs) == [i \in DOMAIN msgs |-> BackfillAt(msgs, i)]

LEMMA StepsJoin ==
    ASSUME NEW msgs
    PROVE  /\ Sanitize(msgs) = FlattenSeq(SanitizeParts(msgs))
           /\ DropOrphans(msgs) = FlattenSeq(DropParts(msgs))
           /\ Backfill(msgs) = FlattenSeq(BackfillParts(msgs))
  BY DEF Sanitize, DropOrphans, Backfill, Rewrite, SanitizeParts, DropParts, BackfillParts

LEMMA PartsOf ==
    ASSUME NEW msgs \in Seq(Message), NEW parts, parts = [i \in DOMAIN msgs |-> parts[i]],
           \A i \in DOMAIN msgs : parts[i] \in Seq(Message)
    PROVE  parts \in Seq(Seq(Message)) /\ Len(parts) = Len(msgs)
  <1>1. DOMAIN msgs = 1 .. Len(msgs) /\ Len(msgs) \in Nat
    OBVIOUS
  <1>2. parts \in [1 .. Len(msgs) -> Seq(Message)]
    BY <1>1
  <1>3. QED
    BY <1>1, <1>2

\* An assistant message holds no call twice, and the user message right after it answers
\* none twice and nothing else.
Paired(msgs) ==
    \A i \in DOMAIN msgs :
        /\ IsInjective(msgs[i].uses)
        /\ IsUser(msgs, i) /\ IsAssistant(msgs, i - 1) =>
               /\ Single(msgs[i].results)
               /\ IdsOf(msgs[i].results) \subseteq UsesAt(msgs, i - 1)

\* A step that makes or leaves the messages paired
Pairs(msgs, parts) ==
    \A i \in DOMAIN msgs :
        /\ Len(parts[i]) # 0 => IsInjective(parts[i][1].uses)
        /\ Len(parts[i]) = 2 =>
               /\ Single(parts[i][2].results)
               /\ IdsOf(parts[i][2].results) \subseteq ToSet(parts[i][1].uses)
        /\ IsAssistant(msgs, i) /\ IsUser(msgs, i + 1) =>
               /\ Single(parts[i + 1][1].results)
               /\ IdsOf(parts[i + 1][1].results) \subseteq ToSet(parts[i][1].uses)

LEMMA SanitizeIs ==
    ASSUME NEW msgs \in Seq(Message)
    PROVE  LET parts == SanitizeParts(msgs)
           IN  /\ \A i \in DOMAIN msgs : Sanitized(msgs, i, parts[i])
               /\ Repair(parts, msgs) /\ Pairs(msgs, parts)
  <1> DEFINE parts == SanitizeParts(msgs)
  <1>1. \A i \in DOMAIN msgs : parts[i] = SanitizeAt(msgs, i)
    BY DEF SanitizeParts
  <1>2. \A i \in DOMAIN msgs : Sanitized(msgs, i, parts[i])
    BY <1>1, SanitizedAt
  <1>3. parts = [i \in DOMAIN msgs |-> parts[i]]
    BY DEF SanitizeParts
  <1> HIDE DEF parts
  <1>4. parts \in Seq(Seq(Message)) /\ Len(parts) = Len(msgs)
    <2>1. \A i \in DOMAIN msgs : parts[i] \in Seq(Message)
      BY <1>2 DEF Sanitized
    <2>2. QED
      BY <1>3, <2>1, PartsOf
  <1>5. Repair(parts, msgs)
    BY <1>2, <1>4 DEF Repair, Sanitized
  <1>6. ASSUME NEW i \in DOMAIN msgs
        PROVE  /\ Len(parts[i]) # 0 => IsInjective(parts[i][1].uses)
               /\ Len(parts[i]) = 2 =>
                      /\ Single(parts[i][2].results)
                      /\ IdsOf(parts[i][2].results) \subseteq ToSet(parts[i][1].uses)
    BY <1>2 DEF Sanitized
  <1>7. ASSUME NEW i \in DOMAIN msgs, IsAssistant(msgs, i), IsUser(msgs, i + 1)
        PROVE  /\ Single(parts[i + 1][1].results)
               /\ IdsOf(parts[i + 1][1].results) \subseteq ToSet(parts[i][1].uses)
    <2> DEFINE j == i + 1
    <2>1. j \in DOMAIN msgs /\ j - 1 = i /\ IsUser(msgs, j) /\ UsesAt(msgs, i) = ToSet(msgs[i].uses)
      BY <1>7, MessageAt
    <2> HIDE DEF j
    <2>2. Single(parts[j][1].results) /\ IdsOf(parts[j][1].results) \subseteq UsesAt(msgs, i)
      BY <1>2, <1>7, <2>1 DEF Sanitized
    <2>3. ToSet(parts[i][1].uses) = ToSet(msgs[i].uses)
      BY <1>2 DEF Sanitized
    <2>4. QED
      BY <2>1, <2>2, <2>3 DEF j
  <1>8. Pairs(msgs, parts)
    BY <1>6, <1>7 DEF Pairs
  <1>9. QED
    BY <1>2, <1>5, <1>8 DEF parts

-----------------------------------------------------------------------------
(* The last assistant message before a user message                        *)

LastBefore(msgs, i, j) ==
    i \in 1 .. j - 1 /\ IsAssistant(msgs, i) /\ \A k \in i + 1 .. j : IsUser(msgs, k)

LEMMA LastIs ==
    ASSUME NEW msgs \in Seq(Message), NEW j \in DOMAIN msgs, NEW i, LastBefore(msgs, i, j)
    PROVE  LastUses(msgs, j) = UsesAt(msgs, i)
  <1> DEFINE before == {k \in 1 .. j - 1 : IsAssistant(msgs, k)}
             last == {k \in before : \A l \in before : l <= k}
  <1>1. j \in Nat /\ i \in 1 .. j - 1 /\ IsAssistant(msgs, i) /\ \A k \in i + 1 .. j : ~IsAssistant(msgs, k)
    BY MessageAt DEF LastBefore
  <1>2. i \in before /\ \A k \in before : k <= i
    BY <1>1
  <1>3. last = {i}
    <2>1. before \subseteq Nat
      OBVIOUS
    <2> HIDE DEF before
    <2>2. i \in last
      BY <1>2
    <2>3. ASSUME NEW k \in last
          PROVE  k = i
      <3>1. k \in Nat /\ i \in Nat /\ k <= i /\ i <= k
        BY <1>2, <2>1
      <3>2. QED
        BY <3>1
    <2>4. QED
      BY <2>2, <2>3
  <1>4. LastUses(msgs, j) = UNION {UsesAt(msgs, k) : k \in last}
    BY DEF LastUses
  <1> HIDE DEF last
  <1>5. QED
    BY <1>3, <1>4

LEMMA LastExists ==
    ASSUME NEW msgs \in Seq(Message), NEW j, IsUser(msgs, j), LastUses(msgs, j) # {}
    PROVE  \E i \in 1 .. j - 1 : LastBefore(msgs, i, j)
  <1> DEFINE before == {k \in 1 .. j - 1 : IsAssistant(msgs, k)}
             last == {k \in before : \A l \in before : l <= k}
  <1>1. LastUses(msgs, j) = UNION {UsesAt(msgs, k) : k \in last}
    BY DEF LastUses
  <1>2. PICK i \in last : TRUE
    <2> HIDE DEF last
    <2> QED  BY <1>1
  <1>3. i \in 1 .. j - 1 /\ IsAssistant(msgs, i) /\ \A l \in 1 .. j - 1 : IsAssistant(msgs, l) => l <= i
    BY <1>2
  <1>4. j \in Nat /\ \A k \in 1 .. j : k \in DOMAIN msgs
    BY MessageAt
  <1>5. ASSUME NEW k \in i + 1 .. j
        PROVE  IsUser(msgs, k)
    <2>1. k \in 1 .. j /\ (k = j \/ k \in 1 .. j - 1) /\ ~(k <= i)
      BY <1>3, <1>4
    <2>2. ~IsAssistant(msgs, k) \/ k = j
      BY <1>3, <2>1
    <2>3. QED
      BY <1>4, <2>1, <2>2, MessageAt
  <1>6. QED
    BY <1>3, <1>5 DEF LastBefore

LEMMA NextToLast ==
    ASSUME NEW msgs \in Seq(Message), NEW j, IsUser(msgs, j), IsAssistant(msgs, j - 1)
    PROVE  LastBefore(msgs, j - 1, j)
  <1>1. j - 1 \in 1 .. j - 1 /\ j \in Nat
    <2>1. j \in DOMAIN msgs /\ j - 1 \in DOMAIN msgs
      BY MessageAt
    <2>2. QED
      BY <2>1, MessageAt
  <1>2. \A k \in (j - 1) + 1 .. j : k = j
    BY <1>1
  <1>3. QED
    BY <1>1, <1>2 DEF LastBefore

LEMMA DropOrphansIs ==
    ASSUME NEW msgs \in Seq(Message), Paired(msgs)
    PROVE  LET parts == DropParts(msgs)
           IN  /\ \A i \in DOMAIN msgs : Dropped(msgs, i, parts[i])
               /\ Repair(parts, msgs) /\ Pairs(msgs, parts)
  <1> DEFINE parts == DropParts(msgs)
  <1>1. \A i \in DOMAIN msgs : parts[i] = DropOrphansAt(msgs, i)
    BY DEF DropParts
  <1>2. \A i \in DOMAIN msgs : Dropped(msgs, i, parts[i])
    BY <1>1, DroppedAt
  <1>3. parts = [i \in DOMAIN msgs |-> parts[i]]
    BY DEF DropParts
  <1> HIDE DEF parts
  <1>4. parts \in Seq(Seq(Message)) /\ Len(parts) = Len(msgs)
    <2>1. \A i \in DOMAIN msgs : parts[i] \in Seq(Message)
      BY <1>2 DEF Dropped
    <2>2. QED
      BY <1>3, <2>1, PartsOf
  <1>5. ASSUME NEW j \in DOMAIN msgs, IsUser(msgs, j), IsAssistant(msgs, j - 1)
        PROVE  /\ Len(parts[j]) = 1 /\ Single(parts[j][1].results)
               /\ IdsOf(parts[j][1].results) \subseteq UsesAt(msgs, j - 1)
    <2>1. /\ msgs[j].results \in Seq(Result) /\ Single(msgs[j].results)
          /\ IdsOf(msgs[j].results) \subseteq UsesAt(msgs, j - 1)
      BY <1>5, MessageAt, MessageFields DEF Paired
    <2>2. LastUses(msgs, j) = UsesAt(msgs, j - 1)
      BY <1>5, NextToLast, LastIs
    <2>3. Answering(msgs[j].results, LastUses(msgs, j)) = ToSet(msgs[j].results)
      BY <2>1, <2>2 DEF Answering, IdsOf
    <2>4. Len(parts[j]) # 0
      BY <1>2, <2>1, <2>3, NoneAnswered DEF Dropped
    <2>5. Len(parts[j]) = 1 /\ Single(parts[j][1].results) /\ ToSet(parts[j][1].results) = ToSet(msgs[j].results)
      BY <1>2, <2>1, <2>3, <2>4 DEF Dropped
    <2>6. QED
      BY <2>1, <2>5 DEF IdsOf
  <1>6. Repair(parts, msgs)
    <2>1. ASSUME NEW i \in DOMAIN msgs
          PROVE  /\ Len(parts[i]) \in {0, 1, 2} /\ Len(parts[i]) # 2
                 /\ Len(parts[i]) # 0 => parts[i][1].role = msgs[i].role
                 /\ Len(parts[i]) = 0 => IsUser(msgs, i) /\ ~IsAssistant(msgs, i - 1)
      <3>1. Dropped(msgs, i, parts[i])
        BY <1>2
      <3> DEFINE part == parts[i]
                 l == Len(part)
      <3>2. /\ l \in {0, 1} /\ (l = 1 => part[1].role = msgs[i].role)
            /\ (l = 0 => IsUser(msgs, i))
        BY <3>1 DEF Dropped
      <3>3. l = 0 => ~IsAssistant(msgs, i - 1)
        BY <1>5, <3>2
      <3> HIDE DEF l
      <3>4. /\ l \in {0, 1, 2} /\ l # 2
            /\ l # 0 => part[1].role = msgs[i].role
            /\ l = 0 => IsUser(msgs, i) /\ ~IsAssistant(msgs, i - 1)
        BY <3>2, <3>3
      <3>5. QED
        BY <3>4 DEF l
    <2>2. QED
      BY <1>4, <2>1 DEF Repair
  <1>7. ASSUME NEW i \in DOMAIN msgs
        PROVE  Len(parts[i]) # 2 /\ (Len(parts[i]) # 0 => IsInjective(parts[i][1].uses))
    <2>1. Dropped(msgs, i, parts[i]) /\ IsInjective(msgs[i].uses)
      BY <1>2 DEF Paired
    <2> DEFINE part == parts[i]
               l == Len(part)
    <2>2. l \in {0, 1} /\ (l = 1 => part[1].uses = msgs[i].uses)
      BY <2>1 DEF Dropped
    <2> HIDE DEF l
    <2>3. l # 2 /\ (l # 0 => IsInjective(part[1].uses))
      BY <2>1, <2>2
    <2>4. QED
      BY <2>3 DEF l
  <1>8. ASSUME NEW i \in DOMAIN msgs, IsAssistant(msgs, i), IsUser(msgs, i + 1)
        PROVE  /\ Single(parts[i + 1][1].results)
               /\ IdsOf(parts[i + 1][1].results) \subseteq ToSet(parts[i][1].uses)
    <2> DEFINE j == i + 1
    <2>1. j \in DOMAIN msgs /\ j - 1 = i /\ IsUser(msgs, j) /\ UsesAt(msgs, i) = ToSet(msgs[i].uses)
      BY <1>8, MessageAt
    <2> HIDE DEF j
    <2>2. Single(parts[j][1].results) /\ IdsOf(parts[j][1].results) \subseteq UsesAt(msgs, i)
      BY <1>5, <1>8, <2>1
    <2>3. ToSet(parts[i][1].uses) = ToSet(msgs[i].uses)
      <3>1. ~IsUser(msgs, i)
        BY <1>8, MessageAt
      <3>2. parts[i][1].uses = msgs[i].uses
        BY <1>2, <3>1 DEF Dropped
      <3>3. QED
        BY <3>2
    <2>4. QED
      BY <2>1, <2>2, <2>3 DEF j
  <1>9. Pairs(msgs, parts)
    BY <1>7, <1>8 DEF Pairs
  <1>10. QED
    BY <1>2, <1>6, <1>9 DEF parts

LEMMA BackfillIs ==
    ASSUME NEW msgs \in Seq(Message), Paired(msgs)
    PROVE  LET parts == BackfillParts(msgs)
           IN  /\ \A i \in DOMAIN msgs : Filled(msgs, i, parts[i])
               /\ Repair(parts, msgs) /\ Pairs(msgs, parts)
  <1> DEFINE parts == BackfillParts(msgs)
  <1>1. \A i \in DOMAIN msgs : parts[i] = BackfillAt(msgs, i)
    BY DEF BackfillParts
  <1>2. \A i \in DOMAIN msgs : Filled(msgs, i, parts[i])
    BY <1>1, FilledAt
  <1>3. parts = [i \in DOMAIN msgs |-> parts[i]]
    BY DEF BackfillParts
  <1> HIDE DEF parts
  <1>4. parts \in Seq(Seq(Message)) /\ Len(parts) = Len(msgs)
    <2>1. \A i \in DOMAIN msgs : parts[i] \in Seq(Message)
      BY <1>2 DEF Filled
    <2>2. QED
      BY <1>3, <2>1, PartsOf
  <1>5. Repair(parts, msgs)
    BY <1>2, <1>4 DEF Repair, Filled
  <1>6. ASSUME NEW i \in DOMAIN msgs
        PROVE  /\ IsInjective(parts[i][1].uses)
               /\ Len(parts[i]) = 2 =>
                      /\ Single(parts[i][2].results)
                      /\ IdsOf(parts[i][2].results) \subseteq ToSet(parts[i][1].uses)
    <2>1. Filled(msgs, i, parts[i]) /\ IsInjective(msgs[i].uses)
      BY <1>2 DEF Paired
    <2>2. QED
      BY <2>1 DEF Filled
  <1>7. ASSUME NEW i \in DOMAIN msgs, IsAssistant(msgs, i), IsUser(msgs, i + 1)
        PROVE  /\ Single(parts[i + 1][1].results)
               /\ IdsOf(parts[i + 1][1].results) \subseteq ToSet(parts[i][1].uses)
    <2> DEFINE j == i + 1
    <2>1. j \in DOMAIN msgs /\ j - 1 = i /\ IsUser(msgs, j) /\ UsesAt(msgs, i) = ToSet(msgs[i].uses)
      BY <1>7, MessageAt
    <2> HIDE DEF j
    <2>2. Single(msgs[j].results) /\ IdsOf(msgs[j].results) \subseteq UsesAt(msgs, i) /\ IsInjective(msgs[i].uses)
      BY <1>7, <2>1 DEF Paired
    <2>3. Single(parts[j][1].results) /\ IdsOf(parts[j][1].results) = IdsOf(msgs[j].results) \cup UsesAt(msgs, i)
      <3>1. Filled(msgs, j, parts[j])
        BY <1>2, <2>1
      <3>2. QED
        BY <1>7, <2>1, <2>2, <3>1 DEF Filled
    <2>4. ToSet(parts[i][1].uses) = ToSet(msgs[i].uses)
      BY <1>2 DEF Filled
    <2>5. QED
      BY <2>1, <2>2, <2>3, <2>4 DEF j
  <1>8. Pairs(msgs, parts)
    BY <1>6, <1>7 DEF Pairs
  <1>9. QED
    BY <1>2, <1>5, <1>8 DEF parts

\* A step of that kind pairs the messages.
LEMMA PairedAfter ==
    ASSUME NEW msgs \in Seq(Message), NEW parts, Repair(parts, msgs), Pairs(msgs, parts),
           NEW out \in Seq(Message), NEW pl, Places(pl, parts, out)
    PROVE  Paired(out)
  <1>1. Speakers(msgs, parts, out, pl)
    BY RolesStay
  <1>2. /\ \A i \in Stays(parts) : i \in DOMAIN msgs /\ Len(parts[i]) # 0
        /\ \A i \in Stays(parts) : out[pl[i]] = parts[i][1] /\ (Len(parts[i]) = 2 => out[pl[i] + 1] = parts[i][2])
        /\ \A p \in DOMAIN out : \/ \E i \in Stays(parts) : p = pl[i]
                                 \/ \E i \in Stays(parts) : Len(parts[i]) = 2 /\ p = pl[i] + 1
    <2>1. DOMAIN parts = DOMAIN msgs
      <3>1. parts \in Seq(Seq(Message)) /\ Len(parts) = Len(msgs)
        BY DEF Repair
      <3>2. DOMAIN parts = 1 .. Len(parts) /\ DOMAIN msgs = 1 .. Len(msgs)
        BY <3>1, PartsAre, MessageAt
      <3>3. QED
        BY <3>1, <3>2
    <2>2. \A i \in Stays(parts) : i \in DOMAIN msgs /\ Len(parts[i]) # 0
      BY <2>1 DEF Stays
    <2>3. QED
      BY <2>2 DEF Places
  <1>3. ASSUME NEW p \in DOMAIN out
        PROVE  IsInjective(out[p].uses)
    <2>1. CASE \E i \in Stays(parts) : p = pl[i]
      BY <1>2, <2>1 DEF Pairs
    <2>2. CASE \E i \in Stays(parts) : Len(parts[i]) = 2 /\ p = pl[i] + 1
      <3>1. out[p].role = "user" /\ out[p] \in Message
        BY <1>2, <2>2 DEF Repair
      <3>2. out[p].uses = <<>>
        BY <3>1, MessageFields
      <3>3. QED
        BY <3>2 DEF IsInjective
    <2>3. QED
      BY <1>2, <2>1, <2>2
  <1>4. ASSUME NEW p \in DOMAIN out, IsUser(out, p), IsAssistant(out, p - 1)
        PROVE  Single(out[p].results) /\ IdsOf(out[p].results) \subseteq UsesAt(out, p - 1)
    <2>1. p - 1 \in DOMAIN out /\ (p - 1) + 1 = p /\ UsesAt(out, p - 1) = ToSet(out[p - 1].uses)
      BY <1>4, MessageAt
    <2>2. PICK i \in DOMAIN msgs : IsAssistant(msgs, i) /\ p - 1 = pl[i]
      BY <1>1, <1>4, <2>1 DEF Speakers
    <2>3. p = pl[i] + 1
      BY <2>1, <2>2
    <2>4. /\ out[p - 1] = parts[i][1] /\ Len(parts[i]) # 0
          /\ \/ Len(parts[i]) = 2 /\ out[p] = parts[i][2]
             \/ IsUser(msgs, i + 1) /\ out[p] = parts[i + 1][1]
      BY <1>1, <1>2, <1>4, <2>2, <2>3 DEF Speakers
    <2>5. QED
      BY <2>1, <2>2, <2>4 DEF Pairs
  <1>5. QED
    BY <1>3, <1>4 DEF Paired

\* Every call of an assistant message is answered by the very next message, once.
Replied(msgs) ==
    \A i \in DOMAIN msgs : \A id \in UsesAt(msgs, i) :
        IsUser(msgs, i + 1) /\ Single(msgs[i + 1].results) /\ id \in IdsOf(msgs[i + 1].results)

LEMMA RepliedAfter ==
    ASSUME NEW msgs \in Seq(Message), Paired(msgs), NEW parts, parts = BackfillParts(msgs),
           NEW out \in Seq(Message), NEW pl, Places(pl, parts, out)
    PROVE  Replied(out)
  <1>1. Repair(parts, msgs) /\ Pairs(msgs, parts) /\ \A i \in DOMAIN msgs : Filled(msgs, i, parts[i])
    BY BackfillIs
  <1>2. Speakers(msgs, parts, out, pl) /\ Paired(out)
    BY <1>1, RolesStay, PairedAfter
  <1>3. SUFFICES ASSUME NEW p \in DOMAIN out, NEW id \in UsesAt(out, p)
                 PROVE  /\ IsUser(out, p + 1) /\ Single(out[p + 1].results)
                        /\ id \in IdsOf(out[p + 1].results)
    BY DEF Replied
  <1>4. IsAssistant(out, p)
    BY <1>3, MessageAt
  <1>5. PICK i \in DOMAIN msgs : IsAssistant(msgs, i) /\ p = pl[i]
    BY <1>2, <1>4 DEF Speakers
  <1>6. out[p] = parts[i][1] /\ id \in ToSet(out[p].uses) /\ Filled(msgs, i, parts[i])
    BY <1>1, <1>2, <1>3, <1>5, MessageAt DEF Speakers
  <1>7. id \in ToSet(msgs[i].uses) /\ id \in UsesAt(msgs, i)
    <2>1. out[p].uses = msgs[i].uses
      BY <1>6 DEF Filled
    <2>2. QED
      BY <1>6, <2>1, MessageAt
  <1>8. Len(parts[i]) = 2 \/ IsUser(msgs, i + 1)
    <2>1. msgs[i].uses # <<>>
      BY <1>7 DEF ToSet
    <2>2. QED
      BY <1>5, <1>6, <2>1 DEF Filled
  <1>9. IsUser(out, p + 1) /\ id \in IdsOf(out[p + 1].results)
    <2>1. CASE Len(parts[i]) = 2
      <3>1. IsUser(out, p + 1) /\ out[p + 1] = parts[i][2]
        BY <1>2, <1>5, <2>1 DEF Speakers
      <3>2. IdsOf(parts[i][2].results) = ToSet(msgs[i].uses)
        BY <1>6, <2>1 DEF Filled
      <3>3. QED
        BY <1>7, <3>1, <3>2
    <2>2. CASE IsUser(msgs, i + 1)
      <3>1. IsUser(out, p + 1) /\ out[p + 1] = parts[i + 1][1]
        BY <1>2, <1>5, <2>2 DEF Speakers
      <3> DEFINE j == i + 1
      <3>2. j \in DOMAIN msgs /\ j - 1 = i /\ IsUser(msgs, j) /\ out[p + 1] = parts[j][1]
        BY <2>2, <3>1, MessageAt
      <3> HIDE DEF j
      <3>3. Filled(msgs, j, parts[j])
        BY <1>1, <3>2
      <3>4. IdsOf(parts[j][1].results) = IdsOf(msgs[j].results) \cup UsesAt(msgs, i)
        BY <1>5, <3>2, <3>3 DEF Filled
      <3>5. QED
        BY <1>7, <3>1, <3>2, <3>4
    <2>3. QED
      BY <1>8, <2>1, <2>2
  <1>10. Single(out[p + 1].results)
    <2> DEFINE q == p + 1
    <2>1. q \in DOMAIN out /\ IsUser(out, q) /\ q - 1 = p
      BY <1>3, <1>9, MessageAt
    <2> HIDE DEF q
    <2>2. Single(out[q].results)
      BY <1>2, <1>4, <2>1 DEF Paired
    <2>3. QED
      BY <2>2 DEF q
  <1>11. QED
    BY <1>9, <1>10

-----------------------------------------------------------------------------
(* The question that is asked                                              *)

Asked(question) == IF question THEN <<User(TRUE, <<>>)>> ELSE <<>>

LEMMA AskedIs ==
    ASSUME NEW msgs \in Seq(Message), NEW question \in BOOLEAN
    PROVE  LET all == msgs \o Asked(question)
           IN  /\ all \in Seq(Message)
               /\ \A i \in DOMAIN msgs : i \in DOMAIN all /\ all[i] = msgs[i]
               /\ \A i \in DOMAIN all : \/ i \in DOMAIN msgs
                                        \/ all[i] = User(TRUE, <<>>) /\ IsUser(all, i)
               /\ \A i \in DOMAIN msgs : \A j \in 1 .. i : j \in DOMAIN msgs
  <1> DEFINE all == msgs \o Asked(question)
             n == Len(msgs)
             m == User(TRUE, <<>>)
  <1>1. DOMAIN msgs = 1 .. n /\ n \in Nat
    OBVIOUS
  <1>2. m \in Message /\ m.role = "user"
    <2>1. <<>> \in Seq(Result) /\ TRUE \in BOOLEAN
      OBVIOUS
    <2>2. QED
      BY <2>1, UserIs
  <1> HIDE DEF m, n
  <1>3. CASE question
    <2>1. all = msgs \o <<m>>
      BY <1>3 DEF Asked, m
    <2>2. <<m>> \in Seq(Message) /\ Len(<<m>>) = 1 /\ <<m>>[1] = m
      BY <1>2, OneOrTwo
    <2> DEFINE one == <<m>>
    <2> HIDE DEF one
    <2>3. /\ msgs \o one \in Seq(Message) /\ Len(msgs \o one) = n + 1 /\ DOMAIN (msgs \o one) = 1 .. n + 1
          /\ \A i \in 1 .. n + 1 : (msgs \o one)[i] = IF i <= n THEN msgs[i] ELSE one[i - n]
      BY <1>1, <2>2 DEF one, n
    <2>4. all = msgs \o one
      BY <2>1 DEF one
    <2> HIDE DEF all
    <2>5. all[n + 1] = m /\ n + 1 \in DOMAIN all
      <3>1. n + 1 \in 1 .. n + 1 /\ ~(n + 1 <= n) /\ (n + 1) - n = 1
        BY <1>1
      <3>2. QED
        BY <2>2, <2>3, <2>4, <3>1 DEF one
    <2>6. \A i \in 1 .. n : i \in DOMAIN all /\ all[i] = msgs[i]
      BY <1>1, <2>3, <2>4
    <2>7. \A i \in DOMAIN all : i \in 1 .. n \/ i = n + 1
      BY <1>1, <2>3, <2>4
    <2>8. IsUser(all, n + 1)
      BY <1>2, <2>5 DEF IsUser
    <2>9. \A i \in 1 .. n : \A j \in 1 .. i : j \in 1 .. n
      BY <1>1
    <2>10. all \in Seq(Message)
      BY <2>3, <2>4
    <2>11. QED
      BY <1>1, <2>5, <2>6, <2>7, <2>8, <2>9, <2>10 DEF all, m
  <1>4. CASE ~question
    <2>1. all = msgs
      BY <1>4 DEF Asked
    <2>2. \A i \in 1 .. n : \A j \in 1 .. i : j \in 1 .. n
      BY <1>1
    <2> HIDE DEF all
    <2>3. QED
      BY <1>1, <2>1, <2>2 DEF all
  <1>5. QED
    BY <1>3, <1>4

LEMMA AskedIsPaired ==
    ASSUME NEW msgs \in Seq(Message), NEW question \in BOOLEAN, Paired(msgs)
    PROVE  Paired(msgs \o Asked(question))
  <1> DEFINE all == msgs \o Asked(question)
             m == User(TRUE, <<>>)
  <1>1. /\ all \in Seq(Message)
        /\ \A i \in DOMAIN msgs : i \in DOMAIN all /\ all[i] = msgs[i]
        /\ \A i \in DOMAIN all : i \in DOMAIN msgs \/ all[i] = m
        /\ \A i \in DOMAIN msgs : \A j \in 1 .. i : j \in DOMAIN msgs
    BY AskedIs
  <1>2. /\ m.uses = <<>> /\ m.results = <<>> /\ IsInjective(m.uses) /\ Single(m.results)
        /\ IdsOf(m.results) = {}
    BY DEF User, IsInjective, Single, IdsOf, ToSet
  <1> HIDE DEF all, m
  <1>3. SUFFICES ASSUME NEW i \in DOMAIN all
                 PROVE  /\ IsInjective(all[i].uses)
                        /\ IsUser(all, i) /\ IsAssistant(all, i - 1) =>
                               Single(all[i].results) /\ IdsOf(all[i].results) \subseteq UsesAt(all, i - 1)
    BY DEF Paired, all
  <1>4. CASE i \in DOMAIN msgs
    <2>1. all[i] = msgs[i] /\ IsInjective(msgs[i].uses)
      BY <1>1, <1>4 DEF Paired
    <2>2. ASSUME IsUser(all, i), IsAssistant(all, i - 1)
          PROVE  Single(all[i].results) /\ IdsOf(all[i].results) \subseteq UsesAt(all, i - 1)
      <3>1. i - 1 \in DOMAIN msgs
        <4>1. i - 1 \in DOMAIN all /\ DOMAIN all = 1 .. Len(all) /\ Len(all) \in Nat
          BY <1>1, <2>2, MessageAt
        <4>2. i - 1 \in 1 .. i
          BY <4>1
        <4>3. QED
          BY <1>1, <1>4, <4>2
      <3>2. all[i - 1] = msgs[i - 1] /\ i - 1 \in DOMAIN all
        BY <1>1, <3>1
      <3>3. IsUser(msgs, i) /\ IsAssistant(msgs, i - 1) /\ UsesAt(all, i - 1) = UsesAt(msgs, i - 1)
        BY <1>4, <2>1, <2>2, <3>1, <3>2 DEF IsUser, IsAssistant, UsesAt
      <3>4. QED
        BY <1>4, <2>1, <3>3 DEF Paired
    <2>3. QED
      BY <2>1, <2>2
  <1>5. CASE i \notin DOMAIN msgs
    BY <1>1, <1>2, <1>5
  <1>6. QED
    BY <1>4, <1>5

-----------------------------------------------------------------------------
(* From the history of the front end to messages                           *)

\* What becomes of a message of the front end
Converted(h, part) ==
    /\ part \in Seq(Message) /\ Len(part) \in {0, 1}
    /\ Len(part) = 1 =>
           /\ part[1].role = h.role /\ part[1].uses = h.uses /\ part[1].results = h.results
           /\ part[1].text \/ h.uses # <<>> \/ h.results # <<>>
           /\ h.results # <<>> => ~part[1].text
    /\ Len(part) = 0 => h.uses = <<>> /\ h.results = <<>>

LEMMA ConvertedOne ==
    ASSUME NEW h \in Message
    PROVE  Converted(h, ConvertOne(h))
  <1> DEFINE part == ConvertOne(h)
             answers == User(FALSE, h.results)
             question == User(TRUE, <<>>)
             said == Assistant(h.text, h.uses)
  <1>1. /\ h.role \in {"user", "assistant"} /\ h.text \in BOOLEAN
        /\ h.uses \in Seq(Ids) /\ h.results \in Seq(Result)
        /\ h.role = "user" => h.uses = <<>>
        /\ h.role = "assistant" => h.results = <<>>
    BY MessageFields
  <1>2. part = IF h.role = "user"
               THEN IF h.results # <<>> THEN <<answers>> ELSE IF h.text THEN <<question>> ELSE <<>>
               ELSE IF h.text \/ h.uses # <<>> THEN <<said>> ELSE <<>>
    BY DEF ConvertOne
  <1>3. /\ answers \in Message /\ answers.role = "user" /\ answers.results = h.results
        /\ answers.text = FALSE /\ answers.uses = <<>>
    BY <1>1, UserIs
  <1>4. /\ question \in Message /\ question.role = "user" /\ question.results = <<>>
        /\ question.text = TRUE /\ question.uses = <<>>
    <2>1. TRUE \in BOOLEAN /\ <<>> \in Seq(Result)
      OBVIOUS
    <2>2. QED
      BY <2>1, UserIs
  <1>5. /\ said \in Message /\ said.role = "assistant" /\ said.results = <<>>
        /\ said.text = h.text /\ said.uses = h.uses
    BY <1>1 DEF Assistant, Message
  <1> HIDE DEF part, answers, question, said
  <1>6. CASE h.role = "user" /\ h.results # <<>>
    <2>1. part = <<answers>>
      BY <1>2, <1>6
    <2>2. part \in Seq(Message) /\ Len(part) = 1 /\ part[1] = answers
      BY <1>3, <2>1, OneOrTwo
    <2>3. QED
      BY <1>1, <1>3, <1>6, <2>2 DEF Converted, part
  <1>7. CASE h.role = "user" /\ h.results = <<>> /\ h.text
    <2>1. part = <<question>>
      BY <1>2, <1>7
    <2>2. part \in Seq(Message) /\ Len(part) = 1 /\ part[1] = question
      BY <1>4, <2>1, OneOrTwo
    <2>3. QED
      BY <1>1, <1>4, <1>7, <2>2 DEF Converted, part
  <1>8. CASE h.role = "assistant" /\ (h.text \/ h.uses # <<>>)
    <2>1. part = <<said>>
      BY <1>2, <1>8
    <2>2. part \in Seq(Message) /\ Len(part) = 1 /\ part[1] = said
      BY <1>5, <2>1, OneOrTwo
    <2>3. QED
      BY <1>1, <1>5, <1>8, <2>2 DEF Converted, part
  <1>9. CASE \/ h.role = "user" /\ h.results = <<>> /\ ~h.text
             \/ h.role = "assistant" /\ ~(h.text \/ h.uses # <<>>)
    <2>1. part = <<>>
      BY <1>2, <1>9
    <2>2. part \in Seq(Message) /\ Len(part) = 0
      BY <2>1
    <2>3. h.uses = <<>> /\ h.results = <<>>
      BY <1>1, <1>9
    <2>4. QED
      BY <2>2, <2>3 DEF Converted, part
  <1>10. QED
    BY <1>1, <1>6, <1>7, <1>8, <1>9

ConvertParts(hist) == [i \in DOMAIN hist |-> ConvertOne(hist[i])]

LEMMA ConvertIs ==
    ASSUME NEW hist \in Seq(Message)
    PROVE  LET parts == ConvertParts(hist)
           IN  /\ \A i \in DOMAIN hist : Converted(hist[i], parts[i])
               /\ Rewrites(parts, hist)
               /\ Convert(hist) = FlattenSeq(parts)
  <1> DEFINE parts == ConvertParts(hist)
  <1>1. \A i \in DOMAIN hist : parts[i] = ConvertOne(hist[i])
    BY DEF ConvertParts
  <1>2. \A i \in DOMAIN hist : Converted(hist[i], parts[i])
    <2>1. \A i \in DOMAIN hist : hist[i] \in Message
      BY MessageAt
    <2>2. QED
      BY <1>1, <2>1, ConvertedOne
  <1>3. parts = [i \in DOMAIN hist |-> parts[i]]
    BY DEF ConvertParts
  <1>4. Convert(hist) = FlattenSeq(parts)
    BY DEF Convert, Rewrite, ConvertParts
  <1> HIDE DEF parts
  <1>5. parts \in Seq(Seq(Message)) /\ Len(parts) = Len(hist)
    <2>1. \A i \in DOMAIN hist : parts[i] \in Seq(Message)
      BY <1>2 DEF Converted
    <2>2. QED
      BY <1>3, <2>1, PartsOf
  <1>6. \A i \in DOMAIN hist : Len(parts[i]) \in {0, 1, 2}
    BY <1>2 DEF Converted
  <1>7. Rewrites(parts, hist)
    BY <1>5, <1>6 DEF Rewrites
  <1>8. QED
    BY <1>2, <1>4, <1>7 DEF parts

\* The messages of the front end are messages, unless they have another role; their
\* results are real ones.
LEMMA HistoryIs ==
    ASSUME NEW m \in Messages
    PROVE  /\ AllReal(m.results)
           /\ m.role \in {"user", "assistant"} => m \in Message
           /\ m.role \notin {"user", "assistant"} => m.uses = <<>> /\ m.results = <<>>
  <1>0. DataTools \subseteq Ids
    BY DEF Ids
  <1>1. CASE \E t \in BOOLEAN, u \in Calls : m = Assistant(t, u)
    <2>1. PICK t \in BOOLEAN, u \in Calls : m = Assistant(t, u)
      BY <1>1
    <2>2. \/ u = <<>>
          \/ \E a \in Ids : u = <<a>>
          \/ \E a \in DataTools, b \in Ids : u = <<a, b>>
      BY DEF Calls
    <2>a. u \in Seq(Ids)
      <3>1. ASSUME NEW a \in Ids, u = <<a>>
            PROVE  u \in Seq(Ids)
        BY <3>1, OneOrTwo
      <3>2. ASSUME NEW a \in DataTools, NEW b \in Ids, u = <<a, b>>
            PROVE  u \in Seq(Ids)
        BY <1>0, <3>2, OneOrTwo
      <3>3. <<>> \in Seq(Ids)
        OBVIOUS
      <3>4. QED
        BY <2>2, <3>1, <3>2, <3>3
    <2>3. QED
      BY <2>1, <2>a DEF Assistant, Message, AllReal, ToSet
  <1>2. CASE \E t \in BOOLEAN : m = User(t, <<>>)
    <2>1. PICK t \in BOOLEAN : m = User(t, <<>>)
      BY <1>2
    <2>2. QED
      BY <2>1 DEF User, Message, AllReal, ToSet
  <1>3. CASE \E a \in Answers : m = User(TRUE, [k \in DOMAIN a |-> Real(a[k])])
    <2>1. PICK a \in Answers : m = User(TRUE, [k \in DOMAIN a |-> Real(a[k])])
      BY <1>3
    <2> DEFINE rs == [k \in DOMAIN a |-> Real(a[k])]
    <2>a. \/ \E x \in Ids : a = <<x>>
          \/ \E x, y \in Ids : a = <<x, y>>
      BY DEF Answers
    <2>2. a \in Seq(Ids)
      <3>1. ASSUME NEW x \in Ids, NEW y \in Ids, a = <<x>> \/ a = <<x, y>>
            PROVE  a \in Seq(Ids)
        <4>1. <<x>> \in Seq(Ids) /\ <<x, y>> \in Seq(Ids)
          BY OneOrTwo
        <4>2. QED
          BY <3>1, <4>1
      <3>2. QED
        BY <2>a, <3>1
    <2>3. DOMAIN a = 1 .. Len(a) /\ Len(a) \in Nat /\ \A k \in 1 .. Len(a) : a[k] \in Ids
      BY <2>2
    <2>4. rs \in Seq(Result) /\ AllReal(rs)
      <3>1. \A k \in 1 .. Len(a) : rs[k] = Real(a[k]) /\ Real(a[k]) \in Result /\ Real(a[k]).real
        BY <2>3 DEF Real, Result
      <3>2. rs = [k \in 1 .. Len(a) |-> rs[k]]
        BY <2>3
      <3> HIDE DEF rs
      <3>3. rs \in [1 .. Len(a) -> Result]
        BY <3>1, <3>2
      <3>4. rs \in Seq(Result) /\ DOMAIN rs = 1 .. Len(a)
        BY <2>3, <3>3
      <3>5. QED
        BY <3>1, <3>4 DEF AllReal, ToSet
    <2> HIDE DEF rs
    <2>5. m = User(TRUE, rs)
      BY <2>1 DEF rs
    <2>6. User(TRUE, rs) \in Message /\ User(TRUE, rs).role = "user" /\ User(TRUE, rs).results = rs
      BY <2>4, UserIs
    <2>7. QED
      BY <2>4, <2>5, <2>6
  <1>4. CASE m = [User(TRUE, <<>>) EXCEPT !.role = "system"]
    BY <1>4 DEF User, AllReal, ToSet
  <1>5. \/ \E t \in BOOLEAN, u \in Calls : m = Assistant(t, u)
        \/ \E t \in BOOLEAN : m = User(t, <<>>)
        \/ \E a \in Answers : m = User(TRUE, [k \in DOMAIN a |-> Real(a[k])])
        \/ m = [User(TRUE, <<>>) EXCEPT !.role = "system"]
    <2> DEFINE said == {Assistant(t, u) : t \in BOOLEAN, u \in Calls}
               typed == {User(t, <<>>) : t \in BOOLEAN}
               answered == {User(TRUE, [k \in DOMAIN a |-> Real(a[k])]) : a \in Answers}
               other == {[User(TRUE, <<>>) EXCEPT !.role = "system"]}
    <2>1. Messages = said \cup typed \cup answered \cup other
      BY DEF Messages
    <2>2. m \in said => \E t \in BOOLEAN, u \in Calls : m = Assistant(t, u)
      OBVIOUS
    <2>3. m \in typed => \E t \in BOOLEAN : m = User(t, <<>>)
      OBVIOUS
    <2>4. m \in answered => \E a \in Answers : m = User(TRUE, [k \in DOMAIN a |-> Real(a[k])])
      OBVIOUS
    <2>5. m \in other => m = [User(TRUE, <<>>) EXCEPT !.role = "system"]
      OBVIOUS
    <2> HIDE DEF said, typed, answered, other
    <2>6. QED
      BY <2>1, <2>2, <2>3, <2>4, <2>5
  <1>6. QED
    BY <1>1, <1>2, <1>3, <1>4, <1>5

LEMMA RecentIs ==
    ASSUME NEW hist \in Seq(Messages)
    PROVE  /\ Truncate(hist) \in Seq(Messages)
           /\ \E d \in Nat : /\ Len(hist) = Len(Truncate(hist)) + d
                             /\ \A i \in DOMAIN Truncate(hist) : Truncate(hist)[i] = hist[i + d]
  <1>1. Len(hist) \in Nat /\ MaxHistory \in Nat
    BY HistoryAssumption
  <1>2. CASE Len(hist) > MaxHistory
    <2> DEFINE d == Len(hist) - MaxHistory
               recent == SubSeq(hist, d + 1, Len(hist))
    <2>1. Truncate(hist) = recent
      BY <1>2 DEF Truncate
    <2>2. d \in Nat /\ Len(hist) = MaxHistory + d
      BY <1>1, <1>2
    <2> HIDE DEF d
    <2>3. recent \in Seq(Messages) /\ Len(recent) = MaxHistory /\ \A i \in 1 .. Len(recent) : recent[i] = hist[i + d]
      <3> DEFINE l == Len(hist)
      <3>1. l \in Nat /\ d \in Nat /\ MaxHistory \in Nat /\ l = MaxHistory + d
        BY <1>1, <2>2
      <3>2. \A i \in d + 1 .. l : hist[i] \in Messages
        BY <3>1
      <3> HIDE DEF l
      <3>3. recent = [i \in 1 .. MaxHistory |-> hist[i + d]]
        BY <3>1 DEF l
      <3>4. \A i \in 1 .. MaxHistory : i + d \in d + 1 .. l
        BY <3>1
      <3>5. recent \in [1 .. MaxHistory -> Messages]
        BY <3>2, <3>3, <3>4, Zenon
      <3>6. recent \in Seq(Messages) /\ Len(recent) = MaxHistory
        BY <3>1, <3>5
      <3>7. QED
        BY <3>3, <3>6
    <2> HIDE DEF recent
    <2>4. DOMAIN recent = 1 .. Len(recent)
      BY <2>3
    <2>5. QED
      BY <2>1, <2>2, <2>3, <2>4
  <1>3. CASE ~(Len(hist) > MaxHistory)
    <2>1. Truncate(hist) = hist
      BY <1>3 DEF Truncate
    <2>2. Len(hist) = Len(hist) + 0 /\ \A i \in DOMAIN hist : hist[i] = hist[i + 0]
      BY <1>1
    <2>3. QED
      BY <2>1, <2>2, Zenon
  <1>4. QED
    BY <1>2, <1>3

-----------------------------------------------------------------------------
(* What a step makes                                                       *)

\* There are places for what the messages became.
Placed(parts, out) == \E pl : Places(pl, parts, out)

LEMMA RepairMakes ==
    ASSUME NEW msgs \in Seq(Message), NEW parts, Repair(parts, msgs), Pairs(msgs, parts)
    PROVE  /\ FlattenSeq(parts) \in Seq(Message) /\ Paired(FlattenSeq(parts))
           /\ Placed(parts, FlattenSeq(parts))
  <1> DEFINE out == FlattenSeq(parts)
  <1>1. out \in Seq(Message) /\ \E pl : Places(pl, parts, out)
    BY RepairHasPlaces
  <1> HIDE DEF out
  <1>2. PICK pl : Places(pl, parts, out)
    BY <1>1
  <1>3. Paired(out)
    BY <1>1, <1>2, PairedAfter
  <1>4. QED
    BY <1>1, <1>2, <1>3 DEF out, Placed

LEMMA SanitizeMakes ==
    ASSUME NEW msgs \in Seq(Message)
    PROVE  /\ Sanitize(msgs) \in Seq(Message) /\ Paired(Sanitize(msgs))
           /\ Placed(SanitizeParts(msgs), Sanitize(msgs))
  <1>1. Repair(SanitizeParts(msgs), msgs) /\ Pairs(msgs, SanitizeParts(msgs))
    BY SanitizeIs
  <1>2. QED
    BY <1>1, RepairMakes, StepsJoin

LEMMA DropOrphansMakes ==
    ASSUME NEW msgs \in Seq(Message), Paired(msgs)
    PROVE  /\ DropOrphans(msgs) \in Seq(Message) /\ Paired(DropOrphans(msgs))
           /\ Placed(DropParts(msgs), DropOrphans(msgs))
  <1>1. Repair(DropParts(msgs), msgs) /\ Pairs(msgs, DropParts(msgs))
    BY DropOrphansIs
  <1>2. QED
    BY <1>1, RepairMakes, StepsJoin

LEMMA BackfillMakes ==
    ASSUME NEW msgs \in Seq(Message), Paired(msgs)
    PROVE  /\ Backfill(msgs) \in Seq(Message) /\ Paired(Backfill(msgs))
           /\ Placed(BackfillParts(msgs), Backfill(msgs))
  <1>1. Repair(BackfillParts(msgs), msgs) /\ Pairs(msgs, BackfillParts(msgs))
    BY BackfillIs
  <1>2. QED
    BY <1>1, RepairMakes, StepsJoin

LEMMA ConvertMakes ==
    ASSUME NEW hist \in Seq(Message)
    PROVE  Convert(hist) \in Seq(Message) /\ Placed(ConvertParts(hist), Convert(hist))
  <1> DEFINE parts == ConvertParts(hist)
  <1>1. Rewrites(parts, hist) /\ Convert(hist) = FlattenSeq(parts)
    BY ConvertIs
  <1> HIDE DEF parts
  <1>2. QED
    BY <1>1, RewritesHavePlaces DEF Placed, parts

\* A request that is not rejected is the recent history, converted, and what the three
\* repairs make of it and of the question.
Cleaned(hist) == Sanitize(Convert(Truncate(hist)))
Kept(question, hist) == DropOrphans(Cleaned(hist) \o Asked(question))

LEMMA BuildIs ==
    ASSUME NEW hist \in Seq(Messages), NEW question \in BOOLEAN, Build(question, hist) # Rejected
    PROVE  /\ Truncate(hist) \in Seq(Message)
           /\ Build(question, hist) = Backfill(Kept(question, hist))
  <1> DEFINE recent == Truncate(hist)
  <1>1. recent \in Seq(Messages)
    BY RecentIs
  <1>2. /\ ~ \E i \in DOMAIN recent : recent[i].role \notin {"user", "assistant"}
        /\ Build(question, hist) = Backfill(Kept(question, hist))
    BY DEF Build, Kept, Cleaned, Asked
  <1> HIDE DEF recent
  <1>3. DOMAIN recent = 1 .. Len(recent) /\ Len(recent) \in Nat /\ \A i \in 1 .. Len(recent) : recent[i] \in Messages
    BY <1>1
  <1>4. \A i \in 1 .. Len(recent) : recent[i] \in Message
    BY <1>2, <1>3, HistoryIs
  <1>5. recent \in Seq(Message)
    <2>1. recent = [i \in 1 .. Len(recent) |-> recent[i]]
      BY <1>1
    <2>2. recent \in [1 .. Len(recent) -> Message]
      BY <1>4, <2>1
    <2>3. QED
      BY <1>3, <2>2
  <1>6. QED
    BY <1>2, <1>5 DEF recent

LEMMA StepsMake ==
    ASSUME NEW hist, Truncate(hist) \in Seq(Message), NEW question \in BOOLEAN
    PROVE  /\ Cleaned(hist) \in Seq(Message) /\ Paired(Cleaned(hist))
           /\ Cleaned(hist) \o Asked(question) \in Seq(Message)
           /\ Paired(Cleaned(hist) \o Asked(question))
           /\ Kept(question, hist) \in Seq(Message) /\ Paired(Kept(question, hist))
           /\ Backfill(Kept(question, hist)) \in Seq(Message)
           /\ Paired(Backfill(Kept(question, hist)))
  <1> DEFINE c == Convert(Truncate(hist))
             s == Cleaned(hist)
             a == s \o Asked(question)
             d == Kept(question, hist)
  <1>1. c \in Seq(Message)
    BY ConvertMakes
  <1>2. s \in Seq(Message) /\ Paired(s)
    BY <1>1, SanitizeMakes DEF Cleaned
  <1> HIDE DEF c, s
  <1>3. a \in Seq(Message) /\ Paired(a)
    BY <1>2, AskedIs, AskedIsPaired
  <1>4. d = DropOrphans(a)
    BY DEF Kept, s
  <1> HIDE DEF a, d
  <1>5. d \in Seq(Message) /\ Paired(d)
    BY <1>3, <1>4, DropOrphansMakes
  <1>6. Backfill(d) \in Seq(Message) /\ Paired(Backfill(d))
    BY <1>5, BackfillMakes
  <1>7. QED
    BY <1>2, <1>3, <1>5, <1>6 DEF s, a, d

-----------------------------------------------------------------------------
(* The theorems                                                            *)

HistoryInv ==
    /\ history \in Seq(Messages)
    /\ request = NotSent \/ \E question \in BOOLEAN : request = Build(question, history)

\* Invariance: the browser's history is one of messages, and a request is always built from
\* the history that stays with it.
THEOREM Invariance == Spec => []HistoryInv
  <1>1. Init => HistoryInv
    BY DEF Init, HistoryInv
  <1>2. HistoryInv /\ [Next]_vars => HistoryInv'
    <2>1. SUFFICES ASSUME HistoryInv, [Next]_vars
                   PROVE  HistoryInv'
      OBVIOUS
    <2>2. CASE Grow
      BY <2>1, <2>2 DEF Grow, HistoryInv
    <2>3. CASE Post
      BY <2>1, <2>3 DEF Post, HistoryInv
    <2>4. CASE UNCHANGED vars
      BY <2>1, <2>4 DEF vars, HistoryInv
    <2>5. QED
      BY <2>1, <2>2, <2>3, <2>4 DEF Next
  <1>3. QED
    BY <1>1, <1>2, PTL DEF Spec

LEMMA SentIs ==
    ASSUME HistoryInv
    PROVE  \/ Sent = <<>>
           \/ \E question \in BOOLEAN : /\ Build(question, history) # Rejected
                                        /\ Sent = Build(question, history)
                                        /\ request = Build(question, history)
  BY DEF HistoryInv, Sent, NotSent

LEMMA OneOfThem ==
    ASSUME NEW m \in Message, Single(m.results), NEW id \in IdsOf(m.results)
    PROVE  Times(id, m) = 1
  <1> DEFINE rs == m.results
             at == {k \in DOMAIN rs : rs[k].id = id}
  <1>1. PICK k \in DOMAIN rs : rs[k].id = id
    BY DEF IdsOf, ToSet
  <1>2. \A l \in at : l = k
    BY <1>1 DEF Single
  <1>3. k \in at
    BY <1>1
  <1>4. Times(id, m) = Cardinality(at)
    BY DEF Times
  <1> HIDE DEF at
  <1>5. at = {k}
    BY <1>2, <1>3
  <1>6. QED
    BY <1>4, <1>5, FS_Singleton

\* EveryUse: in a request the assistant messages hold no call twice, and the very next
\* message, a user message, answers each of their calls exactly once.
THEOREM EveryUse == Spec => []EveryUseIsAnswered
  <1>1. HistoryInv => EveryUseIsAnswered
    <2>1. SUFFICES ASSUME HistoryInv
                   PROVE  EveryUseIsAnswered
      OBVIOUS
    <2>2. CASE Sent = <<>>
      BY <2>2 DEF EveryUseIsAnswered
    <2>3. ASSUME NEW question \in BOOLEAN, Build(question, history) # Rejected,
                 Sent = Build(question, history)
          PROVE  EveryUseIsAnswered
      <3> DEFINE d == Kept(question, history)
      <3>1. history \in Seq(Messages)
        BY <2>1 DEF HistoryInv
      <3>2. Truncate(history) \in Seq(Message) /\ Sent = Backfill(d)
        BY <2>3, <3>1, BuildIs
      <3>3. d \in Seq(Message) /\ Paired(d) /\ Sent \in Seq(Message) /\ Paired(Sent)
        BY <3>2, StepsMake
      <3> HIDE DEF d
      <3>4. Replied(Sent)
        <4>1. Placed(BackfillParts(d), Sent)
          BY <3>2, <3>3, BackfillMakes
        <4>2. PICK pl : Places(pl, BackfillParts(d), Sent)
          BY <4>1 DEF Placed
        <4>3. QED
          BY <3>3, <4>2, RepliedAfter
      <3>5. ASSUME NEW i \in DOMAIN Sent, NEW id \in UsesAt(Sent, i)
            PROVE  IsUser(Sent, i + 1) /\ Times(id, Sent[i + 1]) = 1
        <4>1. /\ IsUser(Sent, i + 1) /\ Single(Sent[i + 1].results)
              /\ id \in IdsOf(Sent[i + 1].results)
          BY <3>4, <3>5 DEF Replied
        <4>2. Sent[i + 1] \in Message
          BY <3>3, <4>1, MessageAt
        <4>3. QED
          BY <4>1, <4>2, OneOfThem
      <3>6. QED
        BY <3>3, <3>5 DEF EveryUseIsAnswered, Paired
    <2>4. QED
      BY <2>1, <2>2, <2>3, SentIs
  <1>2. QED
    BY <1>1, Invariance, PTL

-----------------------------------------------------------------------------
(* No orphans                                                              *)

\* Every result answers a call of the last assistant message before it.
Parented(msgs) ==
    \A j \in DOMAIN msgs : msgs[j].results # <<>> =>
        \E i \in 1 .. j - 1 :
            LastBefore(msgs, i, j) /\ IdsOf(msgs[j].results) \subseteq UsesAt(msgs, i)

\* What stays, and where
Staying(msgs, parts, out, pl) ==
    /\ \A i \in Stays(parts) : /\ i \in DOMAIN msgs /\ i \in Nat /\ Len(parts[i]) # 0
                               /\ pl[i] \in DOMAIN out /\ pl[i] \in Nat /\ out[pl[i]] = parts[i][1]
                               /\ Len(parts[i]) = 2 => out[pl[i] + 1] = parts[i][2]
    /\ \A i \in DOMAIN msgs : i \notin Stays(parts) => Len(parts[i]) = 0
    /\ \A i, j \in Stays(parts) : i < j <=> pl[i] < pl[j]
    /\ \A p \in DOMAIN out : \/ \E i \in Stays(parts) : p = pl[i]
                             \/ \E i \in Stays(parts) : Len(parts[i]) = 2 /\ p = pl[i] + 1

LEMMA RewriteStays ==
    ASSUME NEW msgs \in Seq(Message), NEW parts, Rewrites(parts, msgs),
           NEW out \in Seq(Message), NEW pl, Places(pl, parts, out)
    PROVE  Staying(msgs, parts, out, pl)
  <1>1. /\ DOMAIN msgs = 1 .. Len(msgs) /\ Len(msgs) \in Nat
        /\ DOMAIN out = 1 .. Len(out) /\ Len(out) \in Nat
    BY MessageAt
  <1>2. DOMAIN parts = DOMAIN msgs
    <2>1. parts \in Seq(Seq(Message)) /\ Len(parts) = Len(msgs)
      BY DEF Rewrites
    <2>2. DOMAIN parts = 1 .. Len(parts)
      BY <2>1, PartsAre
    <2>3. QED
      BY <1>1, <2>1, <2>2
  <1>3. \A i \in DOMAIN msgs : i \in Stays(parts) <=> Len(parts[i]) # 0
    BY <1>2 DEF Stays
  <1>4. \A i \in Stays(parts) : i \in DOMAIN msgs /\ i \in Nat
    BY <1>1, <1>2 DEF Stays
  <1>5. \A i \in Stays(parts) : pl[i] \in DOMAIN out /\ pl[i] \in Nat
    BY <1>1 DEF Places
  <1>6. ASSUME NEW i \in Stays(parts), NEW j \in Stays(parts)
        PROVE  i < j <=> pl[i] < pl[j]
    <2>1. (i < j => pl[i] < pl[j]) /\ (j < i => pl[j] < pl[i])
      BY DEF Places
    <2> DEFINE a == pl[i]
               b == pl[j]
    <2>2. a \in Nat /\ b \in Nat /\ i \in Nat /\ j \in Nat /\ (i = j => a = b)
      BY <1>4, <1>5
    <2>3. (i < j => a < b) /\ (j < i => b < a)
      BY <2>1
    <2> HIDE DEF a, b
    <2>4. i < j <=> a < b
      BY <2>2, <2>3
    <2>5. QED
      BY <2>4 DEF a, b
  <1>7. QED
    BY <1>3, <1>4, <1>5, <1>6 DEF Places, Staying

LEMMA StaysAre ==
    ASSUME NEW msgs \in Seq(Message), NEW parts, Repair(parts, msgs),
           NEW out \in Seq(Message), NEW pl, Places(pl, parts, out)
    PROVE  Staying(msgs, parts, out, pl)
  <1>1. Rewrites(parts, msgs)
    BY DEF Repair, Rewrites
  <1>2. QED
    BY <1>1, RewriteStays

\* The last assistant message before a user message stays the last one before it.
LEMMA LastStays ==
    ASSUME NEW msgs \in Seq(Message), NEW parts, Repair(parts, msgs),
           NEW out \in Seq(Message), NEW pl, Places(pl, parts, out),
           NEW i, NEW j \in Stays(parts), LastBefore(msgs, i, j)
    PROVE  /\ pl[i] \in 1 .. pl[j] - 1 /\ LastBefore(out, pl[i], pl[j]) /\ i \in DOMAIN msgs
           /\ out[pl[i]] = parts[i][1]
  <1>1. Speakers(msgs, parts, out, pl)
    BY RolesStay
  <1>2. /\ \A k \in Stays(parts) : /\ k \in DOMAIN msgs /\ k \in Nat
                                   /\ pl[k] \in DOMAIN out /\ pl[k] \in Nat
        /\ \A k, l \in Stays(parts) : k < l <=> pl[k] < pl[l]
    BY StaysAre DEF Staying
  <1>3. /\ i \in 1 .. j - 1 /\ IsAssistant(msgs, i) /\ i \in DOMAIN msgs
        /\ \A k \in i + 1 .. j : ~IsAssistant(msgs, k)
    BY MessageAt DEF LastBefore
  <1>4. i \in Stays(parts) /\ IsAssistant(out, pl[i]) /\ out[pl[i]] = parts[i][1] /\ pl[i] \in DOMAIN out
    BY <1>1, <1>3 DEF Speakers
  <1>5. DOMAIN out = 1 .. Len(out) /\ Len(out) \in Nat
    BY MessageAt
  <1>6. pl[i] < pl[j] /\ pl[i] \in Nat /\ pl[j] \in Nat /\ pl[i] >= 1 /\ pl[j] <= Len(out)
    <2>1. i < j
      BY <1>2, <1>3
    <2>2. pl[i] < pl[j]
      BY <1>2, <1>4, <2>1
    <2>3. QED
      BY <1>2, <1>4, <1>5, <2>2
  <1>7. ASSUME NEW p \in pl[i] + 1 .. pl[j]
        PROVE  IsUser(out, p)
    <2>1. p \in DOMAIN out /\ pl[i] < p /\ p <= pl[j] /\ p \in Nat
      BY <1>5, <1>6, <1>7
    <2>2. SUFFICES ASSUME IsAssistant(out, p)
                   PROVE  FALSE
      BY <2>1, MessageAt
    <2>3. PICK k \in DOMAIN msgs : IsAssistant(msgs, k) /\ p = pl[k]
      BY <1>1, <2>1, <2>2 DEF Speakers
    <2>4. k \in Stays(parts)
      BY <1>1, <2>3 DEF Speakers
    <2>5. i < k /\ ~(j < k)
      <3>1. pl[i] < pl[k] /\ ~(pl[j] < pl[k])
        BY <1>6, <2>1, <2>3
      <3>2. QED
        BY <1>2, <1>4, <2>4, <3>1
    <2>6. k \in i + 1 .. j
      BY <1>2, <1>4, <2>4, <2>5
    <2>7. QED
      BY <1>3, <2>3, <2>6
  <1>8. QED
    BY <1>3, <1>4, <1>6, <1>7 DEF LastBefore

LEMMA ParentedByDrop ==
    ASSUME NEW msgs \in Seq(Message), Paired(msgs), NEW parts, parts = DropParts(msgs),
           NEW out \in Seq(Message), NEW pl, Places(pl, parts, out)
    PROVE  Parented(out)
  <1>1. Repair(parts, msgs) /\ \A i \in DOMAIN msgs : Dropped(msgs, i, parts[i])
    BY DropOrphansIs
  <1>2. SUFFICES ASSUME NEW p \in DOMAIN out, out[p].results # <<>>
                 PROVE  \E i \in 1 .. p - 1 : LastBefore(out, i, p) /\ IdsOf(out[p].results) \subseteq UsesAt(out, i)
    BY DEF Parented
  <1>3. PICK j \in Stays(parts) : p = pl[j]
    <2>1. \A j \in Stays(parts) : j \in DOMAIN msgs
      BY <1>1, StaysAre DEF Staying
    <2>2. ASSUME NEW j \in Stays(parts)
          PROVE  Len(parts[j]) # 2
      <3> DEFINE l == Len(parts[j])
      <3>1. l \in {0, 1}
        BY <1>1, <2>1 DEF Dropped
      <3> HIDE DEF l
      <3>2. l # 2
        BY <3>1
      <3>3. QED
        BY <3>2 DEF l
    <2>3. QED
      BY <1>1, <2>2, StaysAre DEF Staying
  <1>4. j \in DOMAIN msgs /\ Len(parts[j]) # 0 /\ out[p] = parts[j][1]
    BY <1>1, <1>3, StaysAre DEF Staying
  <1>5. /\ out[p].role = msgs[j].role
        /\ ToSet(out[p].results) = Answering(msgs[j].results, LastUses(msgs, j))
    BY <1>1, <1>4 DEF Dropped
  <1>6. out[p] \in Message /\ out[p].results \in Seq(Result)
    BY MessageAt, MessageFields
  <1>7. IsUser(msgs, j)
    <2>1. out[p].role # "assistant"
      BY <1>2, <1>6, MessageFields
    <2>2. QED
      BY <1>4, <1>5, <2>1, MessageAt
  <1>8. ToSet(out[p].results) # {} /\ IdsOf(out[p].results) \subseteq LastUses(msgs, j)
    BY <1>2, <1>5, <1>6, NoneAnswered DEF Answering, IdsOf
  <1>9. PICK i \in 1 .. j - 1 : LastBefore(msgs, i, j)
    <2>1. LastUses(msgs, j) # {}
      BY <1>5, <1>8 DEF Answering
    <2>2. QED
      BY <1>7, <2>1, LastExists
  <1>10. LastUses(msgs, j) = UsesAt(msgs, i)
    BY <1>4, <1>9, LastIs
  <1>11. pl[i] \in 1 .. p - 1 /\ LastBefore(out, pl[i], p) /\ i \in DOMAIN msgs /\ out[pl[i]] = parts[i][1]
    BY <1>1, <1>3, <1>9, LastStays
  <1>12. UsesAt(out, pl[i]) = UsesAt(msgs, i)
    <2>1. IsAssistant(msgs, i) /\ IsAssistant(out, pl[i])
      BY <1>9, <1>11 DEF LastBefore
    <2>2. ~IsUser(msgs, i) /\ pl[i] \in DOMAIN out
      BY <2>1, MessageAt
    <2>3. parts[i][1].uses = msgs[i].uses
      BY <1>1, <1>11, <2>2 DEF Dropped
    <2>4. QED
      BY <1>11, <2>2, <2>3 DEF UsesAt
  <1>13. QED
    BY <1>8, <1>10, <1>11, <1>12

LEMMA ParentedByBackfill ==
    ASSUME NEW msgs \in Seq(Message), Paired(msgs), Parented(msgs),
           NEW parts, parts = BackfillParts(msgs),
           NEW out \in Seq(Message), NEW pl, Places(pl, parts, out)
    PROVE  Parented(out)
  <1>1. Repair(parts, msgs) /\ \A i \in DOMAIN msgs : Filled(msgs, i, parts[i])
    BY BackfillIs
  <1>2. Speakers(msgs, parts, out, pl)
    BY <1>1, RolesStay
  <1>3. SUFFICES ASSUME NEW p \in DOMAIN out, out[p].results # <<>>
                 PROVE  \E i \in 1 .. p - 1 : LastBefore(out, i, p) /\ IdsOf(out[p].results) \subseteq UsesAt(out, i)
    BY DEF Parented
  <1>4. DOMAIN out = 1 .. Len(out) /\ out[p] \in Message
    BY MessageAt
  <1>5. ASSUME NEW j \in Stays(parts), p = pl[j]
        PROVE  \E i \in 1 .. p - 1 : LastBefore(out, i, p) /\ IdsOf(out[p].results) \subseteq UsesAt(out, i)
    <2>1. j \in DOMAIN msgs /\ out[p] = parts[j][1] /\ Filled(msgs, j, parts[j])
      BY <1>1, <1>5, StaysAre DEF Staying
    <2>2. IsUser(msgs, j)
      <3>1. out[p].role # "assistant"
        BY <1>3, <1>4, MessageFields
      <3>2. out[p].role = msgs[j].role
        BY <2>1 DEF Filled
      <3>3. QED
        BY <2>1, <3>1, <3>2, MessageAt
    <2>3. \E i \in 1 .. j - 1 : LastBefore(msgs, i, j) /\ IdsOf(out[p].results) \subseteq UsesAt(msgs, i)
      <3>1. CASE IsAssistant(msgs, j - 1)
        <4>1. IdsOf(out[p].results) = IdsOf(msgs[j].results) \cup UsesAt(msgs, j - 1)
          BY <2>1, <2>2, <3>1 DEF Filled
        <4>2. IdsOf(msgs[j].results) \subseteq UsesAt(msgs, j - 1)
          BY <2>1, <2>2, <3>1 DEF Paired
        <4>3. LastBefore(msgs, j - 1, j)
          BY <2>2, <3>1, NextToLast
        <4>4. j - 1 \in 1 .. j - 1
          BY <4>3 DEF LastBefore
        <4>5. QED
          BY <4>1, <4>2, <4>3, <4>4
      <3>2. CASE ~IsAssistant(msgs, j - 1)
        <4>1. out[p] = msgs[j]
          BY <2>1, <3>2 DEF Filled
        <4>2. QED
          BY <1>3, <2>1, <4>1 DEF Parented
      <3>3. QED
        BY <3>1, <3>2
    <2>4. PICK i \in 1 .. j - 1 : LastBefore(msgs, i, j) /\ IdsOf(out[p].results) \subseteq UsesAt(msgs, i)
      BY <2>3
    <2>5. pl[i] \in 1 .. p - 1 /\ LastBefore(out, pl[i], p) /\ i \in DOMAIN msgs /\ out[pl[i]] = parts[i][1]
      BY <1>1, <1>5, <2>4, LastStays
    <2>6. UsesAt(out, pl[i]) = UsesAt(msgs, i)
      <3>1. pl[i] \in DOMAIN out
        BY <2>5, MessageAt DEF LastBefore
      <3>2. parts[i][1].uses = msgs[i].uses
        BY <1>1, <2>5 DEF Filled
      <3>3. QED
        BY <2>5, <3>1, <3>2 DEF UsesAt
    <2>7. QED
      BY <2>4, <2>5, <2>6
  <1>6. ASSUME NEW i \in Stays(parts), Len(parts[i]) = 2, p = pl[i] + 1
        PROVE  \E k \in 1 .. p - 1 : LastBefore(out, k, p) /\ IdsOf(out[p].results) \subseteq UsesAt(out, k)
    <2>1. /\ i \in DOMAIN msgs /\ pl[i] \in DOMAIN out /\ pl[i] \in Nat /\ out[pl[i]] = parts[i][1]
          /\ out[p] = parts[i][2]
      BY <1>1, <1>6, StaysAre DEF Staying
    <2>2. Filled(msgs, i, parts[i])
      BY <1>1, <2>1
    <2>3. IsAssistant(msgs, i) /\ IdsOf(out[p].results) = ToSet(msgs[i].uses) /\ parts[i][1].uses = msgs[i].uses
      BY <1>6, <2>1, <2>2 DEF Filled
    <2>4. IsAssistant(out, pl[i]) /\ IsUser(out, p)
      BY <1>2, <1>6, <2>1, <2>3 DEF Speakers
    <2>5. p - 1 = pl[i]
      BY <1>6, <2>1
    <2>6. LastBefore(out, pl[i], p)
      BY <2>4, <2>5, NextToLast
    <2>7. pl[i] \in 1 .. p - 1
      BY <2>6 DEF LastBefore
    <2>8. IdsOf(out[p].results) \subseteq UsesAt(out, pl[i])
      BY <2>1, <2>3 DEF UsesAt
    <2>9. QED
      BY <2>6, <2>7, <2>8
  <1>7. QED
    BY <1>1, <1>5, <1>6, StaysAre DEF Staying

\* NoneLeft: every result of a request answers a call of the last assistant message before
\* it, with nothing but user messages in between.
THEOREM NoneLeft == Spec => []NoOrphans
  <1>1. HistoryInv => NoOrphans
    <2>1. SUFFICES ASSUME HistoryInv
                   PROVE  NoOrphans
      OBVIOUS
    <2>2. CASE Sent = <<>>
      BY <2>2 DEF NoOrphans
    <2>3. ASSUME NEW question \in BOOLEAN, Build(question, history) # Rejected,
                 Sent = Build(question, history)
          PROVE  NoOrphans
      <3> DEFINE a == Cleaned(history) \o Asked(question)
                 d == Kept(question, history)
      <3>1. history \in Seq(Messages)
        BY <2>1 DEF HistoryInv
      <3>2. Truncate(history) \in Seq(Message) /\ Sent = Backfill(d)
        BY <2>3, <3>1, BuildIs
      <3>3. /\ a \in Seq(Message) /\ Paired(a) /\ d \in Seq(Message) /\ Paired(d)
            /\ Sent \in Seq(Message)
        BY <3>2, StepsMake
      <3>4. d = DropOrphans(a)
        BY DEF Kept
      <3> HIDE DEF a, d
      <3>5. Parented(d)
        <4>1. Placed(DropParts(a), d)
          BY <3>3, <3>4, DropOrphansMakes
        <4>2. PICK pl : Places(pl, DropParts(a), d)
          BY <4>1 DEF Placed
        <4>3. QED
          BY <3>3, <4>2, ParentedByDrop
      <3>6. Parented(Sent)
        <4>1. Placed(BackfillParts(d), Sent)
          BY <3>2, <3>3, BackfillMakes
        <4>2. PICK pl : Places(pl, BackfillParts(d), Sent)
          BY <4>1 DEF Placed
        <4>3. QED
          BY <3>3, <3>5, <4>2, ParentedByBackfill
      <3>7. \A j \in DOMAIN Sent : Answered(Sent[j]) = IdsOf(Sent[j].results)
        BY DEF Answered, IdsOf
      <3>8. QED
        BY <3>6, <3>7 DEF NoOrphans, Parented, LastBefore
    <2>4. QED
      BY <2>1, <2>2, <2>3, SentIs
  <1>2. QED
    BY <1>1, Invariance, PTL

-----------------------------------------------------------------------------
(* No real answer is lost or added                                         *)

CallAnswered(msgs, i, id) == id \in RealPairs(msgs, i, i + 1)

LEMMA CallsAre ==
    ASSUME NEW msgs, NEW c
    PROVE  c \in AnsweredCalls(msgs) <=> \E i \in DOMAIN msgs : \E id \in Ids : c = <<i, id>> /\ CallAnswered(msgs, i, id)
  <1>1. ASSUME c \in AnsweredCalls(msgs)
        PROVE  \E i \in DOMAIN msgs : \E id \in Ids : c = <<i, id>> /\ CallAnswered(msgs, i, id)
    <2>1. c \in (DOMAIN msgs) \X Ids /\ CallAnswered(msgs, c[1], c[2])
      BY <1>1 DEF AnsweredCalls, CallAnswered
    <2>2. c = <<c[1], c[2]>> /\ c[1] \in DOMAIN msgs /\ c[2] \in Ids
      BY <2>1
    <2>3. QED
      BY <2>1, <2>2
  <1>2. ASSUME NEW i \in DOMAIN msgs, NEW id \in Ids, c = <<i, id>>, CallAnswered(msgs, i, id)
        PROVE  c \in AnsweredCalls(msgs)
    <2>1. c \in (DOMAIN msgs) \X Ids /\ c[1] = i /\ c[2] = id
      BY <1>2
    <2>2. QED
      BY <1>2, <2>1 DEF AnsweredCalls, CallAnswered
  <1>3. QED
    BY <1>1, <1>2

LEMMA CallsAreFinite ==
    ASSUME NEW msgs \in Seq(Message)
    PROVE  IsFiniteSet(AnsweredCalls(msgs))
  <1> DEFINE D == DOMAIN msgs
             U == {UsesAt(msgs, i) : i \in D}
  <1>1. IsFiniteSet(D)
    <2>1. D = 1 .. Len(msgs) /\ 1 \in Int /\ Len(msgs) \in Int
      BY MessageAt
    <2>2. QED
      BY <2>1, FS_Interval
  <1>2. ASSUME NEW i \in D
        PROVE  IsFiniteSet(UsesAt(msgs, i))
    <2> DEFINE u == msgs[i].uses
    <2>1. u \in Seq(Ids) /\ UsesAt(msgs, i) = ToSet(u)
      BY MessageAt, MessageFields
    <2> HIDE DEF u
    <2>2. DOMAIN u = 1 .. Len(u) /\ 1 \in Int /\ Len(u) \in Int
      BY <2>1
    <2>3. IsFiniteSet(DOMAIN u)
      BY <2>2, FS_Interval
    <2>4. u \in [DOMAIN u -> ToSet(u)] /\ \A t \in ToSet(u) : \E x \in DOMAIN u : u[x] = t
      BY <2>1 DEF ToSet
    <2>5. IsFiniteSet(ToSet(u))
      BY <2>3, <2>4, FiniteImage
    <2>6. QED
      BY <2>1, <2>5
  <1>3. IsFiniteSet(U)
    <2> DEFINE f == [i \in D |-> UsesAt(msgs, i)]
    <2>1. f \in [D -> U] /\ \A t \in U : \E x \in D : f[x] = t
      OBVIOUS
    <2> HIDE DEF f, U
    <2>2. QED
      BY <1>1, <2>1, FiniteImage
  <1>4. \A T \in U : IsFiniteSet(T)
    BY <1>2
  <1>5. IsFiniteSet(UNION U)
    <2> HIDE DEF U
    <2> QED  BY <1>3, <1>4, FS_UNION
  <1>6. AnsweredCalls(msgs) \subseteq D \X (UNION U)
    <2>1. SUFFICES ASSUME NEW c \in AnsweredCalls(msgs)
                   PROVE  c \in D \X (UNION U)
      OBVIOUS
    <2>2. PICK i \in D, id \in Ids : c = <<i, id>> /\ CallAnswered(msgs, i, id)
      BY <2>1, CallsAre
    <2>3. id \in UsesAt(msgs, i) /\ UsesAt(msgs, i) \in U
      BY <2>2 DEF CallAnswered, RealPairs
    <2> HIDE DEF U, D
    <2>4. QED
      BY <2>2, <2>3
  <1>7. IsFiniteSet(D \X (UNION U))
    <2> HIDE DEF U, D
    <2> QED  BY <1>1, <1>5, FS_Product
  <1>8. QED
    <2> HIDE DEF U, D
    <2> QED  BY <1>6, <1>7, FS_Subset

\* A step that loses no real answer and adds none
SameAnswers(msgs, parts) ==
    \A i \in DOMAIN msgs : IsAssistant(msgs, i) =>
        /\ ToSet(parts[i][1].uses) = ToSet(msgs[i].uses)
        /\ Len(parts[i]) = 2 => NoneReal(parts[i][2].results)
        /\ IsUser(msgs, i + 1) => \A id \in ToSet(msgs[i].uses) :
               Real(id) \in ToSet(parts[i + 1][1].results) <=> Real(id) \in ToSet(msgs[i + 1].results)

LEMMA SameAfter ==
    ASSUME NEW msgs \in Seq(Message), NEW parts, Repair(parts, msgs), SameAnswers(msgs, parts),
           NEW out \in Seq(Message), NEW pl, Places(pl, parts, out),
           NEW i \in DOMAIN msgs, IsAssistant(msgs, i), NEW id
    PROVE  CallAnswered(out, pl[i], id) <=> CallAnswered(msgs, i, id)
  <1>1. Speakers(msgs, parts, out, pl)
    BY RolesStay
  <1>2. /\ pl[i] \in DOMAIN out /\ out[pl[i]] = parts[i][1]
        /\ Len(parts[i]) = 2 => IsUser(out, pl[i] + 1) /\ out[pl[i] + 1] = parts[i][2]
        /\ IsUser(msgs, i + 1) => /\ IsUser(out, pl[i] + 1) /\ out[pl[i] + 1] = parts[i + 1][1]
                                  /\ Len(parts[i]) = 1
        /\ IsUser(out, pl[i] + 1) => Len(parts[i]) = 2 \/ IsUser(msgs, i + 1)
    BY <1>1 DEF Speakers
  <1>3. UsesAt(out, pl[i]) = ToSet(msgs[i].uses) /\ UsesAt(msgs, i) = ToSet(msgs[i].uses)
    BY <1>2 DEF SameAnswers, UsesAt
  <1>4. CASE IsUser(msgs, i + 1)
    <2>1. \A x \in ToSet(msgs[i].uses) :
             Real(x) \in ToSet(parts[i + 1][1].results) <=> Real(x) \in ToSet(msgs[i + 1].results)
      BY <1>4 DEF SameAnswers
    <2>2. QED
      BY <1>2, <1>3, <1>4, <2>1 DEF CallAnswered, RealPairs
  <1>5. CASE ~IsUser(msgs, i + 1)
    <2>1. ~CallAnswered(msgs, i, id)
      BY <1>5 DEF CallAnswered, RealPairs
    <2>2. ASSUME CallAnswered(out, pl[i], id)
          PROVE  FALSE
      <3>1. IsUser(out, pl[i] + 1) /\ Real(id) \in ToSet(out[pl[i] + 1].results)
        BY <2>2 DEF CallAnswered, RealPairs
      <3>2. Len(parts[i]) = 2 /\ Real(id) \in ToSet(parts[i][2].results)
        BY <1>2, <1>5, <3>1
      <3>3. NoneReal(parts[i][2].results)
        BY <3>2 DEF SameAnswers
      <3>4. QED
        BY <3>2, <3>3 DEF NoneReal, Real
    <2>3. QED
      BY <2>1, <2>2
  <1>6. QED
    BY <1>4, <1>5

LEMMA SameNumber ==
    ASSUME NEW msgs \in Seq(Message), NEW parts, Repair(parts, msgs), SameAnswers(msgs, parts),
           NEW out \in Seq(Message), NEW pl, Places(pl, parts, out)
    PROVE  Cardinality(AnsweredCalls(out)) = Cardinality(AnsweredCalls(msgs))
  <1> DEFINE A == AnsweredCalls(msgs)
             B == AnsweredCalls(out)
             f == [c \in A |-> <<pl[c[1]], c[2]>>]
  <1>1. Speakers(msgs, parts, out, pl)
    BY RolesStay
  <1>2. ASSUME NEW i \in DOMAIN msgs, NEW id, CallAnswered(msgs, i, id)
        PROVE  IsAssistant(msgs, i)
    <2>1. id \in UsesAt(msgs, i)
      BY <1>2 DEF CallAnswered, RealPairs
    <2>2. QED
      BY <2>1, MessageAt
  <1>3. ASSUME NEW c \in A
        PROVE  /\ c[1] \in DOMAIN msgs /\ c[2] \in Ids /\ c = <<c[1], c[2]>> /\ IsAssistant(msgs, c[1])
               /\ <<pl[c[1]], c[2]>> \in B
    <2>1. PICK i \in DOMAIN msgs, id \in Ids : c = <<i, id>> /\ CallAnswered(msgs, i, id)
      BY <1>3, CallsAre
    <2>2. IsAssistant(msgs, i)
      BY <1>2, <2>1
    <2>3. CallAnswered(out, pl[i], id)
      BY <2>1, <2>2, SameAfter
    <2>4. pl[i] \in DOMAIN out
      BY <1>1, <2>2 DEF Speakers
    <2> DEFINE d == <<pl[i], id>>
    <2>5. d \in B
      <3>1. \E p \in DOMAIN out : \E x \in Ids : d = <<p, x>> /\ CallAnswered(out, p, x)
        BY <2>3, <2>4
      <3> HIDE DEF d
      <3>2. QED
        BY <3>1, CallsAre
    <2>6. QED
      BY <2>1, <2>2, <2>5
  <1>4. f \in [A -> B]
    BY <1>3
  <1>5. ASSUME NEW c \in A, NEW d \in A, f[c] = f[d]
        PROVE  c = d
    <2>1. pl[c[1]] = pl[d[1]] /\ c[2] = d[2]
      BY <1>5
    <2>2. c[1] \in Stays(parts) /\ d[1] \in Stays(parts)
      BY <1>1, <1>3 DEF Speakers
    <2>3. c[1] = d[1]
      BY <1>1, <2>1, <2>2 DEF Speakers
    <2>4. QED
      BY <1>3, <2>1, <2>3
  <1>6. ASSUME NEW d \in B
        PROVE  \E c \in A : f[c] = d
    <2>1. PICK p \in DOMAIN out, id \in Ids : d = <<p, id>> /\ CallAnswered(out, p, id)
      BY <1>6, CallsAre
    <2>2. IsAssistant(out, p)
      <3>1. id \in UsesAt(out, p)
        BY <2>1 DEF CallAnswered, RealPairs
      <3>2. QED
        BY <3>1, MessageAt
    <2>3. PICK i \in DOMAIN msgs : IsAssistant(msgs, i) /\ p = pl[i]
      BY <1>1, <2>2 DEF Speakers
    <2>4. CallAnswered(msgs, i, id)
      BY <2>1, <2>3, SameAfter
    <2> DEFINE c == <<i, id>>
    <2>5. c \in A
      <3>1. \E j \in DOMAIN msgs : \E x \in Ids : c = <<j, x>> /\ CallAnswered(msgs, j, x)
        BY <2>4
      <3> HIDE DEF c
      <3>2. QED
        BY <3>1, CallsAre
    <2>6. f[c] = d
      BY <2>1, <2>3, <2>5
    <2>7. QED
      BY <2>5, <2>6
  <1>7. IsFiniteSet(A)
    BY CallsAreFinite
  <1> HIDE DEF f, A, B
  <1>8. Cardinality(B) = Cardinality(A)
    BY <1>4, <1>5, <1>6, <1>7, SameCount
  <1>9. QED
    BY <1>8 DEF A, B

EachReal(msgs) == \A i \in DOMAIN msgs : AllReal(msgs[i].results)

LEMMA UsesAreIds ==
    ASSUME NEW msgs \in Seq(Message), NEW i \in DOMAIN msgs, NEW id \in ToSet(msgs[i].uses)
    PROVE  id \in Ids
  <1> DEFINE u == msgs[i].uses
  <1>1. u \in Seq(Ids)
    BY MessageAt, MessageFields
  <1> HIDE DEF u
  <1>2. \A k \in DOMAIN u : u[k] \in Ids
    BY <1>1
  <1>3. QED
    BY <1>2 DEF ToSet, u

LEMMA SanitizeKeepsAnswers ==
    ASSUME NEW msgs \in Seq(Message), EachReal(msgs)
    PROVE  Cardinality(AnsweredCalls(Sanitize(msgs))) = Cardinality(AnsweredCalls(msgs))
  <1> DEFINE parts == SanitizeParts(msgs)
             out == Sanitize(msgs)
  <1>1. Repair(parts, msgs) /\ \A i \in DOMAIN msgs : Sanitized(msgs, i, parts[i])
    BY SanitizeIs
  <1>2. out \in Seq(Message) /\ \E pl : Places(pl, parts, out)
    BY SanitizeMakes DEF Placed
  <1> HIDE DEF parts, out
  <1>3. PICK pl : Places(pl, parts, out)
    BY <1>2
  <1>4. ASSUME NEW i \in DOMAIN msgs, IsAssistant(msgs, i)
        PROVE  /\ ToSet(parts[i][1].uses) = ToSet(msgs[i].uses)
               /\ Len(parts[i]) = 2 => NoneReal(parts[i][2].results)
               /\ IsUser(msgs, i + 1) => \A id \in ToSet(msgs[i].uses) :
                      Real(id) \in ToSet(parts[i + 1][1].results) <=> Real(id) \in ToSet(msgs[i + 1].results)
    <2>1. ToSet(parts[i][1].uses) = ToSet(msgs[i].uses) /\ (Len(parts[i]) = 2 => NoneReal(parts[i][2].results))
      BY <1>1 DEF Sanitized
    <2>2. ASSUME IsUser(msgs, i + 1), NEW id \in ToSet(msgs[i].uses)
          PROVE  Real(id) \in ToSet(parts[i + 1][1].results) <=> Real(id) \in ToSet(msgs[i + 1].results)
      <3> DEFINE j == i + 1
      <3>1. j \in DOMAIN msgs /\ j - 1 = i /\ IsUser(msgs, j) /\ UsesAt(msgs, i) = ToSet(msgs[i].uses)
        BY <2>2, MessageAt
      <3> HIDE DEF j
      <3>2. id \in Ids
        BY <2>2, UsesAreIds
      <3>3. AllReal(msgs[j].results) /\ msgs[j].results \in Seq(Result)
        BY <3>1, MessageAt, MessageFields DEF EachReal
      <3>4. Real(id) \in ToSet(parts[j][1].results) <=> id \in IdsOf(msgs[j].results) \cap UsesAt(msgs, i)
        BY <1>1, <1>4, <3>1, <3>2, <3>3 DEF Sanitized
      <3>5. Real(id) \in ToSet(msgs[j].results) <=> id \in IdsOf(msgs[j].results)
        BY <3>3, RealId
      <3>6. QED
        BY <2>2, <3>1, <3>4, <3>5 DEF j
    <2>3. QED
      BY <2>1, <2>2
  <1>5. SameAnswers(msgs, parts)
    BY <1>4 DEF SameAnswers
  <1>6. Cardinality(AnsweredCalls(out)) = Cardinality(AnsweredCalls(msgs))
    BY <1>1, <1>2, <1>3, <1>5, SameNumber
  <1>7. QED
    BY <1>6 DEF out

LEMMA DropOrphansKeepsAnswers ==
    ASSUME NEW msgs \in Seq(Message), Paired(msgs)
    PROVE  Cardinality(AnsweredCalls(DropOrphans(msgs))) = Cardinality(AnsweredCalls(msgs))
  <1> DEFINE parts == DropParts(msgs)
             out == DropOrphans(msgs)
  <1>1. Repair(parts, msgs) /\ \A i \in DOMAIN msgs : Dropped(msgs, i, parts[i])
    BY DropOrphansIs
  <1>2. out \in Seq(Message) /\ \E pl : Places(pl, parts, out)
    BY DropOrphansMakes DEF Placed
  <1> HIDE DEF parts, out
  <1>3. PICK pl : Places(pl, parts, out)
    BY <1>2
  <1>a. ASSUME NEW i \in DOMAIN msgs
        PROVE  Len(parts[i]) # 2 /\ (Len(parts[i]) # 0 => Len(parts[i]) = 1)
    <2> DEFINE l == Len(parts[i])
    <2>1. l \in {0, 1}
      BY <1>1 DEF Dropped
    <2> HIDE DEF l
    <2>2. l # 2 /\ (l # 0 => l = 1)
      BY <2>1
    <2>3. QED
      BY <2>2 DEF l
  <1>4. ASSUME NEW i \in DOMAIN msgs, IsAssistant(msgs, i)
        PROVE  /\ ToSet(parts[i][1].uses) = ToSet(msgs[i].uses)
               /\ Len(parts[i]) = 2 => NoneReal(parts[i][2].results)
               /\ IsUser(msgs, i + 1) => \A id \in ToSet(msgs[i].uses) :
                      Real(id) \in ToSet(parts[i + 1][1].results) <=> Real(id) \in ToSet(msgs[i + 1].results)
    <2>1. ToSet(parts[i][1].uses) = ToSet(msgs[i].uses) /\ Len(parts[i]) # 2
      <3>1. ~IsUser(msgs, i)
        BY <1>4, MessageAt
      <3>2. Len(parts[i]) = 1
        BY <1>1, <1>a, <3>1 DEF Dropped
      <3>3. parts[i][1].uses = msgs[i].uses
        BY <1>1, <3>2 DEF Dropped
      <3>4. QED
        BY <1>a, <3>3
    <2>2. ASSUME IsUser(msgs, i + 1), NEW id \in ToSet(msgs[i].uses)
          PROVE  Real(id) \in ToSet(parts[i + 1][1].results) <=> Real(id) \in ToSet(msgs[i + 1].results)
      <3> DEFINE j == i + 1
      <3>1. j \in DOMAIN msgs /\ j - 1 = i /\ IsUser(msgs, j) /\ UsesAt(msgs, i) = ToSet(msgs[i].uses)
        BY <2>2, MessageAt
      <3> HIDE DEF j
      <3>2. LastUses(msgs, j) = ToSet(msgs[i].uses)
        <4>1. LastBefore(msgs, i, j)
          BY <1>4, <3>1, NextToLast
        <4>2. QED
          BY <3>1, <4>1, LastIs
      <3>3. Len(parts[j]) # 0
        BY <1>1, <1>4, <3>1 DEF Repair
      <3>4. ToSet(parts[j][1].results) = Answering(msgs[j].results, LastUses(msgs, j))
        BY <1>1, <1>a, <3>1, <3>3 DEF Dropped
      <3>5. QED
        BY <2>2, <3>2, <3>4 DEF j, Answering, Real
    <2>3. QED
      BY <2>1, <2>2
  <1>5. SameAnswers(msgs, parts)
    BY <1>4 DEF SameAnswers
  <1>6. Cardinality(AnsweredCalls(out)) = Cardinality(AnsweredCalls(msgs))
    BY <1>1, <1>2, <1>3, <1>5, SameNumber
  <1>7. QED
    BY <1>6 DEF out

LEMMA BackfillKeepsAnswers ==
    ASSUME NEW msgs \in Seq(Message), Paired(msgs)
    PROVE  Cardinality(AnsweredCalls(Backfill(msgs))) = Cardinality(AnsweredCalls(msgs))
  <1> DEFINE parts == BackfillParts(msgs)
             out == Backfill(msgs)
  <1>1. Repair(parts, msgs) /\ \A i \in DOMAIN msgs : Filled(msgs, i, parts[i])
    BY BackfillIs
  <1>2. out \in Seq(Message) /\ \E pl : Places(pl, parts, out)
    BY BackfillMakes DEF Placed
  <1> HIDE DEF parts, out
  <1>3. PICK pl : Places(pl, parts, out)
    BY <1>2
  <1>4. ASSUME NEW i \in DOMAIN msgs, IsAssistant(msgs, i)
        PROVE  /\ ToSet(parts[i][1].uses) = ToSet(msgs[i].uses)
               /\ Len(parts[i]) = 2 => NoneReal(parts[i][2].results)
               /\ IsUser(msgs, i + 1) => \A id \in ToSet(msgs[i].uses) :
                      Real(id) \in ToSet(parts[i + 1][1].results) <=> Real(id) \in ToSet(msgs[i + 1].results)
    <2>1. ToSet(parts[i][1].uses) = ToSet(msgs[i].uses) /\ (Len(parts[i]) = 2 => NoneReal(parts[i][2].results))
      BY <1>1 DEF Filled
    <2>2. ASSUME IsUser(msgs, i + 1), NEW id \in ToSet(msgs[i].uses)
          PROVE  Real(id) \in ToSet(parts[i + 1][1].results) <=> Real(id) \in ToSet(msgs[i + 1].results)
      <3> DEFINE j == i + 1
      <3>1. j \in DOMAIN msgs /\ j - 1 = i /\ IsUser(msgs, j)
        BY <2>2, MessageAt
      <3> HIDE DEF j
      <3>2. id \in Ids
        BY <2>2, UsesAreIds
      <3>3. Real(id) \in ToSet(parts[j][1].results) <=> Real(id) \in ToSet(msgs[j].results)
        BY <1>1, <1>4, <3>1, <3>2 DEF Filled
      <3>4. QED
        BY <3>3 DEF j
    <2>3. QED
      BY <2>1, <2>2
  <1>5. SameAnswers(msgs, parts)
    BY <1>4 DEF SameAnswers
  <1>6. Cardinality(AnsweredCalls(out)) = Cardinality(AnsweredCalls(msgs))
    BY <1>1, <1>2, <1>3, <1>5, SameNumber
  <1>7. QED
    BY <1>6 DEF out

LEMMA AskedKeepsAnswers ==
    ASSUME NEW msgs \in Seq(Message), NEW question \in BOOLEAN
    PROVE  AnsweredCalls(msgs \o Asked(question)) = AnsweredCalls(msgs)
  <1> DEFINE all == msgs \o Asked(question)
             m == User(TRUE, <<>>)
  <1>1. /\ all \in Seq(Message)
        /\ \A i \in DOMAIN msgs : i \in DOMAIN all /\ all[i] = msgs[i]
        /\ \A i \in DOMAIN all : i \in DOMAIN msgs \/ (all[i] = m /\ IsUser(all, i))
        /\ \A i \in DOMAIN msgs : \A j \in 1 .. i : j \in DOMAIN msgs
    BY AskedIs
  <1>2. m.uses = <<>> /\ ToSet(m.results) = {}
    BY DEF User, ToSet
  <1> HIDE DEF all, m
  <1>3. ASSUME NEW i \in DOMAIN all, NEW id, CallAnswered(all, i, id)
        PROVE  i \in DOMAIN msgs /\ CallAnswered(msgs, i, id)
    <2>1. id \in UsesAt(all, i) /\ IsUser(all, i + 1) /\ Real(id) \in ToSet(all[i + 1].results)
      BY <1>3 DEF CallAnswered, RealPairs
    <2>2. i + 1 \in DOMAIN all /\ all[i + 1] # m
      BY <1>2, <2>1 DEF IsUser
    <2>3. i + 1 \in DOMAIN msgs /\ all[i + 1] = msgs[i + 1]
      BY <1>1, <2>2
    <2>4. i \in DOMAIN msgs
      <3>1. i \in 1 .. i + 1
        <4>1. DOMAIN all = 1 .. Len(all) /\ Len(all) \in Nat
          BY <1>1, MessageAt
        <4>2. QED
          BY <4>1
      <3>2. QED
        BY <1>1, <2>3, <3>1
    <2>5. QED
      BY <1>1, <2>1, <2>3, <2>4 DEF CallAnswered, RealPairs, UsesAt, IsUser
  <1>4. ASSUME NEW i \in DOMAIN msgs, NEW id, CallAnswered(msgs, i, id)
        PROVE  i \in DOMAIN all /\ CallAnswered(all, i, id)
    <2>1. id \in UsesAt(msgs, i) /\ IsUser(msgs, i + 1) /\ Real(id) \in ToSet(msgs[i + 1].results)
      BY <1>4 DEF CallAnswered, RealPairs
    <2>2. i + 1 \in DOMAIN msgs
      BY <2>1 DEF IsUser
    <2>3. all[i + 1] = msgs[i + 1] /\ i + 1 \in DOMAIN all /\ all[i] = msgs[i] /\ i \in DOMAIN all
      BY <1>1, <2>2
    <2>4. QED
      BY <2>1, <2>3 DEF CallAnswered, RealPairs, UsesAt, IsUser
  <1>5. \A c : c \in AnsweredCalls(all) <=> c \in AnsweredCalls(msgs)
    BY <1>3, <1>4, CallsAre
  <1>6. QED
    BY <1>5 DEF all

LEMMA ConvertIsReal ==
    ASSUME NEW hist \in Seq(Message), EachReal(hist)
    PROVE  EachReal(Convert(hist))
  <1> DEFINE parts == ConvertParts(hist)
             out == Convert(hist)
  <1>1. Rewrites(parts, hist) /\ \A i \in DOMAIN hist : Converted(hist[i], parts[i])
    BY ConvertIs
  <1>2. out \in Seq(Message) /\ \E pl : Places(pl, parts, out)
    BY ConvertMakes DEF Placed
  <1> HIDE DEF parts, out
  <1>3. PICK pl : Places(pl, parts, out)
    BY <1>2
  <1>4. Staying(hist, parts, out, pl)
    BY <1>1, <1>2, <1>3, RewriteStays
  <1>5. ASSUME NEW i \in DOMAIN hist
        PROVE  Len(parts[i]) # 2 /\ (Len(parts[i]) # 0 => Len(parts[i]) = 1)
    <2> DEFINE l == Len(parts[i])
    <2>1. l \in {0, 1}
      BY <1>1 DEF Converted
    <2> HIDE DEF l
    <2>2. l # 2 /\ (l # 0 => l = 1)
      BY <2>1
    <2>3. QED
      BY <2>2 DEF l
  <1>6. ASSUME NEW p \in DOMAIN out
        PROVE  AllReal(out[p].results)
    <2>1. PICK i \in Stays(parts) : p = pl[i]
      BY <1>4, <1>5 DEF Staying
    <2>2. i \in DOMAIN hist /\ Len(parts[i]) # 0 /\ out[p] = parts[i][1]
      BY <1>4, <2>1 DEF Staying
    <2>3. out[p].results = hist[i].results
      BY <1>1, <1>5, <2>2 DEF Converted
    <2>4. QED
      BY <2>2, <2>3 DEF EachReal
  <1>7. QED
    BY <1>6 DEF EachReal, out

\* RealAnswers: the repairs lose no real answer and add none, whatever the history was.
THEOREM RealAnswers == Spec => []RealAnswersAreKept
  <1>1. HistoryInv => RealAnswersAreKept
    <2>1. SUFFICES ASSUME HistoryInv, request \notin {NotSent, Rejected}
                   PROVE  Cardinality(AnsweredCalls(Convert(Truncate(history))))
                            = Cardinality(AnsweredCalls(request))
      BY DEF RealAnswersAreKept
    <2>2. history \in Seq(Messages)
      BY <2>1 DEF HistoryInv
    <2>3. PICK question \in BOOLEAN : request = Build(question, history)
      BY <2>1 DEF HistoryInv
    <2> DEFINE recent == Truncate(history)
               c == Convert(recent)
               s == Cleaned(history)
               a == s \o Asked(question)
               d == Kept(question, history)
    <2>4. recent \in Seq(Message) /\ request = Backfill(d)
      BY <2>1, <2>2, <2>3, BuildIs
    <2>5. EachReal(recent)
      <3>1. recent \in Seq(Messages)
        BY <2>2, RecentIs
      <3> HIDE DEF recent
      <3>2. \A i \in DOMAIN recent : recent[i] \in Messages
        BY <3>1
      <3>3. QED
        BY <3>2, HistoryIs DEF EachReal
    <2>6. c \in Seq(Message) /\ EachReal(c)
      BY <2>4, <2>5, ConvertMakes, ConvertIsReal
    <2>7. s \in Seq(Message) /\ a \in Seq(Message) /\ Paired(a) /\ d \in Seq(Message) /\ Paired(d)
      BY <2>4, StepsMake
    <2>8. s = Sanitize(c) /\ d = DropOrphans(a)
      BY DEF Cleaned, Kept
    <2> HIDE DEF recent, s, d
    <2>9. Cardinality(AnsweredCalls(s)) = Cardinality(AnsweredCalls(c))
      <3> HIDE DEF c
      <3> QED  BY <2>6, <2>8, SanitizeKeepsAnswers
    <2>10. AnsweredCalls(a) = AnsweredCalls(s)
      BY <2>7, AskedKeepsAnswers
    <2>11. Cardinality(AnsweredCalls(d)) = Cardinality(AnsweredCalls(a))
      <3> HIDE DEF a
      <3> QED  BY <2>7, <2>8, DropOrphansKeepsAnswers
    <2>12. Cardinality(AnsweredCalls(request)) = Cardinality(AnsweredCalls(d))
      BY <2>4, <2>7, BackfillKeepsAnswers
    <2> HIDE DEF c, a
    <2>13. Cardinality(AnsweredCalls(c)) = Cardinality(AnsweredCalls(request))
      BY <2>9, <2>10, <2>11, <2>12
    <2>14. QED
      BY <2>13 DEF c, recent
  <1>2. QED
    BY <1>1, Invariance, PTL

-----------------------------------------------------------------------------
(* Tidy conversations                                                      *)

\* The next user message answers the calls of an assistant message; an answer answers a
\* call of the message before it, unless its round began before the first message.
Rounds(msgs) ==
    \A i \in DOMAIN msgs :
        /\ msgs[i].uses # <<>> => IsUser(msgs, i + 1) /\ msgs[i + 1].results # <<>>
        /\ i # 1 => IdsOf(msgs[i].results) \subseteq UsesAt(msgs, i - 1)

\* No assistant message speaks before the message.
Opening(msgs, i) == \A k \in 1 .. i - 1 : ~IsAssistant(msgs, k)

Tidy(msgs) ==
    \A i \in DOMAIN msgs :
        /\ msgs[i].uses # <<>> => IsUser(msgs, i + 1) /\ msgs[i + 1].results # <<>>
        /\ IdsOf(msgs[i].results) \subseteq UsesAt(msgs, i - 1) \/ Opening(msgs, i)
        /\ msgs[i].text \/ msgs[i].uses # <<>> \/ msgs[i].results # <<>>
        /\ msgs[i].results # <<>> => ~msgs[i].text

\* No message is empty, and each answers calls of the message right before it only.
Exact(msgs) ==
    \A i \in DOMAIN msgs :
        /\ msgs[i].text \/ msgs[i].uses # <<>> \/ msgs[i].results # <<>>
        /\ IdsOf(msgs[i].results) \subseteq UsesAt(msgs, i - 1)

LEMMA AnswersFollow ==
    ASSUME NEW msgs \in Seq(Message), NEW i \in DOMAIN msgs, msgs[i].results # <<>>,
           IdsOf(msgs[i].results) \subseteq UsesAt(msgs, i - 1)
    PROVE  IsUser(msgs, i) /\ IsAssistant(msgs, i - 1) /\ msgs[i - 1].uses # <<>>
  <1>1. msgs[i] \in Message /\ msgs[i].results \in Seq(Result)
    BY MessageAt, MessageFields
  <1>2. IdsOf(msgs[i].results) # {}
    BY <1>1, NoneAnswered
  <1>3. IsUser(msgs, i)
    BY <1>1, MessageAt, MessageFields
  <1>4. i - 1 \in DOMAIN msgs /\ IsAssistant(msgs, i - 1) /\ ToSet(msgs[i - 1].uses) # {}
    BY <1>2, MessageAt
  <1>5. msgs[i - 1].uses # <<>>
    BY <1>4 DEF ToSet
  <1>6. QED
    BY <1>3, <1>4, <1>5

LEMMA TidyConvert ==
    ASSUME NEW hist \in Seq(Message), Rounds(hist)
    PROVE  Tidy(Convert(hist))
  <1> DEFINE parts == ConvertParts(hist)
             out == Convert(hist)
  <1>1. Rewrites(parts, hist) /\ \A i \in DOMAIN hist : Converted(hist[i], parts[i])
    BY ConvertIs
  <1>2. out \in Seq(Message) /\ \E pl : Places(pl, parts, out)
    BY ConvertMakes DEF Placed
  <1> HIDE DEF parts, out
  <1>3. PICK pl : Places(pl, parts, out)
    BY <1>2
  <1>4. Staying(hist, parts, out, pl)
    BY <1>1, <1>2, <1>3, RewriteStays
  <1>5. ASSUME NEW i \in DOMAIN hist
        PROVE  Len(parts[i]) # 2 /\ (Len(parts[i]) # 0 => Len(parts[i]) = 1)
    <2> DEFINE l == Len(parts[i])
    <2>1. l \in {0, 1}
      BY <1>1 DEF Converted
    <2> HIDE DEF l
    <2>2. l # 2 /\ (l # 0 => l = 1)
      BY <2>1
    <2>3. QED
      BY <2>2 DEF l
  <1>6. ASSUME NEW i \in Stays(parts)
        PROVE  /\ i \in DOMAIN hist /\ pl[i] \in DOMAIN out /\ pl[i] \in Nat /\ Len(parts[i]) = 1
               /\ out[pl[i]].role = hist[i].role /\ out[pl[i]].uses = hist[i].uses
               /\ out[pl[i]].results = hist[i].results
               /\ out[pl[i]].text \/ hist[i].uses # <<>> \/ hist[i].results # <<>>
               /\ hist[i].results # <<>> => ~out[pl[i]].text
    <2>1. /\ i \in DOMAIN hist /\ pl[i] \in DOMAIN out /\ pl[i] \in Nat /\ Len(parts[i]) = 1
          /\ out[pl[i]] = parts[i][1]
      BY <1>4, <1>5 DEF Staying
    <2>2. QED
      BY <1>1, <2>1 DEF Converted
  <1>7. ASSUME NEW i \in Stays(parts), NEW j \in Stays(parts), j = i + 1
        PROVE  pl[j] = pl[i] + 1
    <2>1. Len(parts[i]) = 1
      BY <1>6
    <2>2. pl[j] = pl[i] + Len(parts[i])
      BY <1>3, <1>7 DEF Places
    <2>3. QED
      BY <2>1, <2>2
  <1>8. ASSUME NEW i \in DOMAIN hist, hist[i].uses # <<>> \/ hist[i].results # <<>>
        PROVE  i \in Stays(parts)
    <2>1. Len(parts[i]) # 0
      BY <1>1, <1>8 DEF Converted
    <2>2. QED
      BY <1>4, <2>1 DEF Staying
  <1>9. ASSUME NEW p \in DOMAIN out
        PROVE  /\ out[p].uses # <<>> => IsUser(out, p + 1) /\ out[p + 1].results # <<>>
               /\ IdsOf(out[p].results) \subseteq UsesAt(out, p - 1) \/ Opening(out, p)
               /\ out[p].text \/ out[p].uses # <<>> \/ out[p].results # <<>>
               /\ out[p].results # <<>> => ~out[p].text
    <2>1. PICK i \in Stays(parts) : p = pl[i]
      BY <1>4, <1>5 DEF Staying
    <2>2. i \in DOMAIN hist /\ i \in Nat /\ i >= 1
      BY <1>6, MessageAt
    <2>3. ASSUME out[p].uses # <<>>
          PROVE  IsUser(out, p + 1) /\ out[p + 1].results # <<>>
      <3> DEFINE j == i + 1
      <3>1. IsUser(hist, j) /\ hist[j].results # <<>>
        BY <1>6, <2>1, <2>2, <2>3 DEF Rounds
      <3>2. j \in DOMAIN hist /\ hist[j].role = "user" /\ j = i + 1
        BY <3>1, MessageAt
      <3> HIDE DEF j
      <3>3. j \in Stays(parts)
        BY <1>8, <3>1, <3>2
      <3>4. pl[j] = p + 1
        BY <1>7, <2>1, <3>2, <3>3
      <3>5. pl[j] \in DOMAIN out /\ out[pl[j]].role = "user" /\ out[pl[j]].results # <<>>
        BY <1>6, <3>1, <3>2, <3>3
      <3>6. QED
        BY <3>4, <3>5 DEF IsUser
    <2>4. CASE i = 1
      <3>1. ASSUME NEW k \in 1 .. p - 1
            PROVE  FALSE
        <4>1. DOMAIN out = 1 .. Len(out) /\ Len(out) \in Nat
          BY <1>2, MessageAt
        <4>2. k \in DOMAIN out /\ k < p
          BY <4>1
        <4>3. PICK l \in Stays(parts) : k = pl[l]
          BY <1>4, <1>5, <4>2 DEF Staying
        <4>4. l < i
          BY <1>4, <2>1, <4>2, <4>3 DEF Staying
        <4>5. l >= 1 /\ l \in Nat
          BY <1>6, MessageAt
        <4>6. QED
          BY <2>4, <4>4, <4>5
      <3>2. Opening(out, p)
        BY <3>1 DEF Opening
      <3>3. QED
        BY <1>6, <2>1, <2>3, <3>2
    <2>5. CASE i # 1
      <3>1. IdsOf(hist[i].results) \subseteq UsesAt(hist, i - 1)
        BY <2>2, <2>5 DEF Rounds
      <3>2. CASE hist[i].results = <<>>
        <4>1. IdsOf(out[p].results) = {}
          BY <1>6, <2>1, <3>2 DEF IdsOf, ToSet
        <4>2. QED
          BY <1>6, <2>1, <2>3, <4>1
      <3>3. CASE hist[i].results # <<>>
        <4> DEFINE j == i - 1
        <4>1. IsAssistant(hist, j) /\ hist[j].uses # <<>>
          BY <2>2, <3>1, <3>3, AnswersFollow
        <4>2. j \in DOMAIN hist /\ i = j + 1 /\ UsesAt(hist, j) = ToSet(hist[j].uses)
          BY <2>2, <4>1, MessageAt
        <4> HIDE DEF j
        <4>3. j \in Stays(parts)
          BY <1>8, <4>1, <4>2
        <4>4. pl[i] = pl[j] + 1 /\ pl[j] \in DOMAIN out /\ pl[j] \in Nat /\ out[pl[j]].uses = hist[j].uses
          BY <1>6, <1>7, <4>2, <4>3
        <4>5. p - 1 = pl[j]
          BY <2>1, <4>4
        <4>6. UsesAt(out, p - 1) = UsesAt(hist, j)
          BY <4>2, <4>4, <4>5 DEF UsesAt
        <4>7. IdsOf(out[p].results) \subseteq UsesAt(out, p - 1)
          BY <1>6, <2>1, <3>1, <4>6 DEF j
        <4>8. QED
          BY <1>6, <2>1, <2>3, <4>7
      <3>4. QED
        BY <3>2, <3>3
    <2>6. QED
      BY <2>4, <2>5
  <1>10. QED
    BY <1>9 DEF Tidy, out

\* Nobody speaks before what nobody spoke before.
LEMMA OpeningStays ==
    ASSUME NEW msgs \in Seq(Message), NEW parts, Repair(parts, msgs),
           NEW out \in Seq(Message), NEW pl, Places(pl, parts, out),
           NEW i \in Stays(parts), Opening(msgs, i)
    PROVE  Opening(out, pl[i])
  <1>1. Speakers(msgs, parts, out, pl) /\ Staying(msgs, parts, out, pl)
    BY RolesStay, StaysAre
  <1>2. SUFFICES ASSUME NEW p \in 1 .. pl[i] - 1, IsAssistant(out, p)
                 PROVE  FALSE
    BY DEF Opening
  <1>3. p \in DOMAIN out
    BY <1>2, MessageAt
  <1>4. PICK k \in DOMAIN msgs : IsAssistant(msgs, k) /\ p = pl[k]
    BY <1>1, <1>2, <1>3 DEF Speakers
  <1>5. k \in Stays(parts)
    BY <1>1, <1>4 DEF Speakers
  <1>6. pl[k] < pl[i]
    <2>1. pl[i] \in Nat /\ p < pl[i]
      <3>1. pl[i] \in Nat
        BY <1>1 DEF Staying
      <3>2. QED
        BY <3>1
    <2>2. QED
      BY <1>4, <2>1
  <1>7. k < i
    BY <1>1, <1>5, <1>6 DEF Staying
  <1>8. k \in 1 .. i - 1
    <2>1. k \in 1 .. Len(msgs) /\ i \in Nat
      BY <1>1, <1>5, MessageAt DEF Staying
    <2>2. QED
      BY <1>7, <2>1
  <1>9. QED
    BY <1>4, <1>8 DEF Opening

\* The calls of an assistant message whose answers follow it stay right before them.
LEMMA CallsStay ==
    ASSUME NEW msgs \in Seq(Message), NEW parts, Repair(parts, msgs),
           NEW out \in Seq(Message), NEW pl, Places(pl, parts, out),
           NEW i, IsUser(msgs, i), IsAssistant(msgs, i - 1)
    PROVE  /\ i \in DOMAIN msgs /\ i \in Stays(parts) /\ out[pl[i]] = parts[i][1] /\ pl[i] \in DOMAIN out
           /\ i - 1 \in DOMAIN msgs /\ UsesAt(out, pl[i] - 1) = ToSet(parts[i - 1][1].uses)
           /\ UsesAt(msgs, i - 1) = ToSet(msgs[i - 1].uses)
  <1> DEFINE j == i - 1
  <1>1. Speakers(msgs, parts, out, pl)
    BY RolesStay
  <1>2. j \in DOMAIN msgs /\ i = j + 1 /\ IsAssistant(msgs, j) /\ UsesAt(msgs, j) = ToSet(msgs[j].uses)
    BY MessageAt
  <1> HIDE DEF j
  <1>3. /\ i \in Stays(parts) /\ pl[i] = pl[j] + 1 /\ pl[j] \in Nat /\ pl[j] \in DOMAIN out
        /\ out[pl[j]] = parts[j][1] /\ out[pl[i]] = parts[i][1] /\ IsUser(out, pl[i])
    <2>1. IsUser(msgs, j + 1)
      BY <1>2
    <2>2. /\ pl[j] \in Nat /\ pl[j] \in DOMAIN out /\ out[pl[j]] = parts[j][1]
          /\ j + 1 \in Stays(parts) /\ IsUser(out, pl[j] + 1) /\ out[pl[j] + 1] = parts[j + 1][1]
          /\ pl[j + 1] = pl[j] + 1
      BY <1>1, <1>2, <2>1 DEF Speakers
    <2>3. QED
      BY <1>2, <2>2
  <1>4. pl[i] - 1 = pl[j]
    BY <1>3
  <1>5. UsesAt(out, pl[i] - 1) = ToSet(parts[j][1].uses)
    BY <1>3, <1>4 DEF UsesAt
  <1>6. QED
    BY <1>2, <1>3, <1>5, MessageAt DEF j

LEMMA TidySanitize ==
    ASSUME NEW msgs \in Seq(Message), Tidy(msgs)
    PROVE  Tidy(Sanitize(msgs))
  <1> DEFINE parts == SanitizeParts(msgs)
             out == Sanitize(msgs)
  <1>1. Repair(parts, msgs) /\ \A i \in DOMAIN msgs : Sanitized(msgs, i, parts[i])
    BY SanitizeIs
  <1>2. out \in Seq(Message) /\ \E pl : Places(pl, parts, out)
    BY SanitizeMakes DEF Placed
  <1> HIDE DEF parts, out
  <1>3. PICK pl : Places(pl, parts, out)
    BY <1>2
  <1>4. Speakers(msgs, parts, out, pl) /\ Staying(msgs, parts, out, pl)
    BY <1>1, <1>2, <1>3, RolesStay, StaysAre
  <1>5. ASSUME NEW i \in DOMAIN msgs, Len(parts[i]) = 2
        PROVE  FALSE
    <2> DEFINE part == parts[i]
               rs == part[2].results
    <2>1. /\ part \in Seq(Message) /\ IsAssistant(msgs, i) /\ ~IsUser(msgs, i + 1)
          /\ rs # <<>> /\ IdsOf(rs) \subseteq ToSet(msgs[i].uses)
      BY <1>1, <1>5 DEF Sanitized
    <2> HIDE DEF part
    <2>2. rs \in Seq(Result)
      <3>1. part[2] \in Message
        BY <1>5, <2>1 DEF part
      <3>2. QED
        BY <3>1, MessageFields
    <2> HIDE DEF rs
    <2>3. ToSet(msgs[i].uses) # {}
      BY <2>1, <2>2, NoneAnswered
    <2>4. msgs[i].uses # <<>>
      BY <2>3 DEF ToSet
    <2>5. QED
      BY <2>1, <2>4 DEF Tidy
  <1>6. ASSUME NEW p \in DOMAIN out
        PROVE  /\ out[p].uses # <<>> => IsUser(out, p + 1) /\ out[p + 1].results # <<>>
               /\ IdsOf(out[p].results) \subseteq UsesAt(out, p - 1) \/ Opening(out, p)
               /\ out[p].text \/ out[p].uses # <<>> \/ out[p].results # <<>>
               /\ out[p].results # <<>> => ~out[p].text
    <2>1. PICK i \in Stays(parts) : p = pl[i]
      BY <1>4, <1>5 DEF Staying
    <2>2. i \in DOMAIN msgs /\ out[p] = parts[i][1]
      BY <1>4, <2>1 DEF Staying
    <2>3. Sanitized(msgs, i, parts[i])
      BY <1>1, <2>2
    <2>4. out[p].text = msgs[i].text /\ out[p].role = msgs[i].role /\ ToSet(out[p].uses) = ToSet(msgs[i].uses)
      BY <2>2, <2>3 DEF Sanitized
    <2>5. /\ out[p] \in Message /\ out[p].uses \in Seq(Ids) /\ out[p].results \in Seq(Result)
          /\ msgs[i] \in Message /\ msgs[i].uses \in Seq(Ids) /\ msgs[i].results \in Seq(Result)
      BY <1>2, <2>2, MessageAt, MessageFields
    <2>6. out[p].uses = <<>> <=> msgs[i].uses = <<>>
      BY <2>4, <2>5, EmptyOnes
    <2>7. ASSUME out[p].uses # <<>>
          PROVE  IsUser(out, p + 1) /\ out[p + 1].results # <<>>
      <3>1. IsUser(msgs, i + 1) /\ msgs[i + 1].results # <<>>
        BY <2>2, <2>6, <2>7 DEF Tidy
      <3>2. IsAssistant(msgs, i)
        BY <2>2, <2>5, <2>6, <2>7, MessageAt, MessageFields
      <3> DEFINE j == i + 1
      <3>3. j \in DOMAIN msgs /\ j - 1 = i /\ i \in 1 .. j - 1
        BY <2>2, <3>1, MessageAt
      <3>4. IsUser(msgs, j) /\ msgs[j].results # <<>> /\ msgs[j].results \in Seq(Result)
        BY <3>1, <3>3, MessageAt, MessageFields
      <3>5. IsUser(out, p + 1) /\ out[p + 1] = parts[j][1]
        BY <1>4, <2>1, <2>2, <3>1, <3>2 DEF Speakers
      <3> HIDE DEF j
      <3>6. IdsOf(msgs[j].results) \subseteq UsesAt(msgs, i)
        <4>1. ~Opening(msgs, j)
          BY <3>2, <3>3 DEF Opening
        <4>2. IdsOf(msgs[j].results) \subseteq UsesAt(msgs, j - 1)
          BY <3>3, <4>1 DEF Tidy
        <4>3. QED
          BY <3>3, <4>2
      <3>7. IdsOf(msgs[j].results) \subseteq IdsOf(parts[j][1].results)
        <4>1. Sanitized(msgs, j, parts[j])
          BY <1>1, <3>3
        <4>2. IdsOf(msgs[j].results) \cap UsesAt(msgs, i) \subseteq IdsOf(parts[j][1].results)
          BY <3>2, <3>3, <3>4, <4>1 DEF Sanitized
        <4>3. QED
          BY <3>6, <4>2
      <3>8. IdsOf(out[p + 1].results) # {}
        BY <3>4, <3>5, <3>7, NoneAnswered
      <3>9. out[p + 1].results # <<>>
        BY <3>8 DEF IdsOf, ToSet
      <3>10. QED
        BY <3>5, <3>9
    <2>8. CASE IsUser(msgs, i) /\ IsAssistant(msgs, i - 1)
      <3>1. IdsOf(out[p].results) \subseteq UsesAt(out, p - 1)
        <4>1. /\ i - 1 \in DOMAIN msgs /\ UsesAt(out, p - 1) = ToSet(parts[i - 1][1].uses)
              /\ UsesAt(msgs, i - 1) = ToSet(msgs[i - 1].uses)
          BY <1>1, <1>2, <1>3, <2>1, <2>8, CallsStay
        <4>2. ToSet(parts[i - 1][1].uses) = ToSet(msgs[i - 1].uses)
          BY <1>1, <4>1 DEF Sanitized
        <4>3. IdsOf(out[p].results) \subseteq UsesAt(msgs, i - 1)
          BY <2>2, <2>3, <2>8 DEF Sanitized
        <4>4. QED
          BY <4>1, <4>2, <4>3
      <3>2. IdsOf(msgs[i].results) \subseteq UsesAt(msgs, i - 1)
        <4>1. i - 1 \in 1 .. i - 1
          BY <2>8, MessageAt
        <4>2. ~Opening(msgs, i)
          BY <2>8, <4>1 DEF Opening
        <4>3. QED
          BY <2>2, <4>2 DEF Tidy
      <3>3. msgs[i].results # <<>> => out[p].results # <<>>
        <4>1. SUFFICES ASSUME msgs[i].results # <<>>
                       PROVE  out[p].results # <<>>
          OBVIOUS
        <4>2. IdsOf(msgs[i].results) # {}
          BY <2>5, <4>1, NoneAnswered
        <4>3. IdsOf(msgs[i].results) \cap UsesAt(msgs, i - 1) \subseteq IdsOf(out[p].results)
          BY <2>2, <2>3, <2>8 DEF Sanitized
        <4>4. IdsOf(out[p].results) # {}
          BY <3>2, <4>2, <4>3
        <4>5. QED
          BY <2>5, <4>4, NoneAnswered
      <3>4. ASSUME msgs[i].text, out[p].results # <<>>
            PROVE  FALSE
        <4>1. msgs[i].results = <<>>
          BY <2>2, <3>4 DEF Tidy
        <4> DEFINE j == i - 1
        <4>2. j \in DOMAIN msgs /\ j + 1 = i
          BY <2>8, MessageAt
        <4> HIDE DEF j
        <4>3. msgs[j].uses = <<>>
          BY <4>1, <4>2 DEF Tidy
        <4>4. UsesAt(msgs, j) = {}
          BY <4>2, <4>3 DEF UsesAt, ToSet
        <4>5. IdsOf(out[p].results) \subseteq UsesAt(msgs, j)
          BY <2>2, <2>3, <2>8 DEF Sanitized, j
        <4>6. QED
          BY <2>5, <3>4, <4>4, <4>5, NoneAnswered
      <3>5. msgs[i].text \/ msgs[i].uses # <<>> \/ msgs[i].results # <<>>
        BY <2>2 DEF Tidy
      <3>6. QED
        BY <2>4, <2>6, <2>7, <3>1, <3>3, <3>4, <3>5
    <2>9. CASE IsUser(msgs, i) /\ ~IsAssistant(msgs, i - 1)
      <3>1. out[p] = msgs[i]
        BY <2>2, <2>3, <2>9 DEF Sanitized
      <3>2. /\ IdsOf(msgs[i].results) \subseteq UsesAt(msgs, i - 1) \/ Opening(msgs, i)
            /\ msgs[i].text \/ msgs[i].uses # <<>> \/ msgs[i].results # <<>>
            /\ msgs[i].results # <<>> => ~msgs[i].text
        BY <2>2 DEF Tidy
      <3>3. UsesAt(msgs, i - 1) = {}
        BY <2>9, MessageAt
      <3>4. Opening(msgs, i) => Opening(out, p)
        BY <1>1, <1>2, <1>3, <2>1, OpeningStays
      <3>5. IdsOf(out[p].results) \subseteq UsesAt(out, p - 1) \/ Opening(out, p)
        BY <3>1, <3>2, <3>3, <3>4
      <3>6. QED
        BY <2>7, <3>1, <3>2, <3>5
    <2>10. CASE ~IsUser(msgs, i)
      <3>1. out[p].role = "assistant"
        BY <2>2, <2>4, <2>10, MessageAt
      <3>2. out[p].results = <<>> /\ IdsOf(out[p].results) = {} /\ msgs[i].results = <<>>
        BY <2>4, <2>5, <3>1, MessageFields
      <3>3. msgs[i].text \/ msgs[i].uses # <<>> \/ msgs[i].results # <<>>
        BY <2>2 DEF Tidy
      <3>4. QED
        BY <2>4, <2>6, <2>7, <3>2, <3>3
    <2>11. QED
      BY <2>8, <2>9, <2>10
  <1>7. QED
    BY <1>6 DEF Tidy, out

LEMMA TidyAsked ==
    ASSUME NEW msgs \in Seq(Message), Tidy(msgs), NEW question \in BOOLEAN
    PROVE  Tidy(msgs \o Asked(question))
  <1> DEFINE all == msgs \o Asked(question)
             m == User(TRUE, <<>>)
  <1>1. /\ all \in Seq(Message)
        /\ \A i \in DOMAIN msgs : i \in DOMAIN all /\ all[i] = msgs[i]
        /\ \A i \in DOMAIN all : i \in DOMAIN msgs \/ (all[i] = m /\ IsUser(all, i))
        /\ \A i \in DOMAIN msgs : \A j \in 1 .. i : j \in DOMAIN msgs
    BY AskedIs
  <1>2. m.uses = <<>> /\ m.results = <<>> /\ IdsOf(m.results) = {} /\ m.text
    BY DEF User, IdsOf, ToSet
  <1> HIDE DEF all, m
  <1>3. SUFFICES ASSUME NEW i \in DOMAIN all
                 PROVE  /\ all[i].uses # <<>> => IsUser(all, i + 1) /\ all[i + 1].results # <<>>
                        /\ IdsOf(all[i].results) \subseteq UsesAt(all, i - 1) \/ Opening(all, i)
                        /\ all[i].text \/ all[i].uses # <<>> \/ all[i].results # <<>>
                        /\ all[i].results # <<>> => ~all[i].text
    BY DEF Tidy, all
  <1>4. CASE i \notin DOMAIN msgs
    <2>1. all[i] = m
      BY <1>1, <1>4
    <2>2. QED
      BY <1>2, <2>1
  <1>5. CASE i \in DOMAIN msgs
    <2>1. /\ all[i] = msgs[i]
          /\ msgs[i].uses # <<>> => IsUser(msgs, i + 1) /\ msgs[i + 1].results # <<>>
          /\ IdsOf(msgs[i].results) \subseteq UsesAt(msgs, i - 1) \/ Opening(msgs, i)
          /\ msgs[i].text \/ msgs[i].uses # <<>> \/ msgs[i].results # <<>>
          /\ msgs[i].results # <<>> => ~msgs[i].text
      BY <1>1, <1>5 DEF Tidy
    <2>2. IsUser(msgs, i + 1) => IsUser(all, i + 1) /\ all[i + 1] = msgs[i + 1]
      BY <1>1 DEF IsUser
    <2>3. \A k \in 1 .. i : k \in DOMAIN msgs /\ k \in DOMAIN all /\ all[k] = msgs[k]
      BY <1>1, <1>5
    <2>4. i \in Nat /\ DOMAIN all = 1 .. Len(all) /\ DOMAIN msgs = 1 .. Len(msgs)
      BY <1>1, <1>5, MessageAt
    <2>5. UsesAt(all, i - 1) = UsesAt(msgs, i - 1)
      <3>1. CASE i - 1 \in 1 .. i
        BY <2>3, <3>1 DEF UsesAt
      <3>2. CASE i - 1 \notin 1 .. i
        <4>1. i - 1 \notin DOMAIN all /\ i - 1 \notin DOMAIN msgs
          BY <2>4, <3>2
        <4>2. QED
          BY <4>1 DEF UsesAt
      <3>3. QED
        BY <3>1, <3>2
    <2>6. Opening(msgs, i) => Opening(all, i)
      <3>1. \A k \in 1 .. i - 1 : k \in 1 .. i
        BY <2>4
      <3>2. QED
        BY <2>3, <3>1 DEF Opening, IsAssistant
    <2>7. QED
      BY <2>1, <2>2, <2>5, <2>6
  <1>6. QED
    BY <1>4, <1>5

LEMMA ExactByDrop ==
    ASSUME NEW msgs \in Seq(Message), Paired(msgs), Tidy(msgs)
    PROVE  Exact(DropOrphans(msgs))
  <1> DEFINE parts == DropParts(msgs)
             out == DropOrphans(msgs)
  <1>1. Repair(parts, msgs) /\ \A i \in DOMAIN msgs : Dropped(msgs, i, parts[i])
    BY DropOrphansIs
  <1>2. out \in Seq(Message) /\ \E pl : Places(pl, parts, out)
    BY DropOrphansMakes DEF Placed
  <1> HIDE DEF parts, out
  <1>3. PICK pl : Places(pl, parts, out)
    BY <1>2
  <1>4. Staying(msgs, parts, out, pl)
    BY <1>1, <1>2, <1>3, StaysAre
  <1>5. ASSUME NEW i \in DOMAIN msgs
        PROVE  Len(parts[i]) # 2 /\ (Len(parts[i]) # 0 => Len(parts[i]) = 1)
    <2> DEFINE l == Len(parts[i])
    <2>1. l \in {0, 1}
      BY <1>1 DEF Dropped
    <2> HIDE DEF l
    <2>2. l # 2 /\ (l # 0 => l = 1)
      BY <2>1
    <2>3. QED
      BY <2>2 DEF l
  <1>6. ASSUME NEW p \in DOMAIN out
        PROVE  /\ out[p].text \/ out[p].uses # <<>> \/ out[p].results # <<>>
               /\ IdsOf(out[p].results) \subseteq UsesAt(out, p - 1)
    <2>1. PICK i \in Stays(parts) : p = pl[i]
      BY <1>4, <1>5 DEF Staying
    <2>2. i \in DOMAIN msgs /\ out[p] = parts[i][1] /\ Len(parts[i]) = 1
      BY <1>4, <1>5, <2>1 DEF Staying
    <2>3. /\ out[p].text = msgs[i].text /\ out[p].uses = msgs[i].uses
          /\ ToSet(out[p].results) = Answering(msgs[i].results, LastUses(msgs, i))
          /\ out[p] = msgs[i] \/ out[p].text \/ out[p].results # <<>>
      BY <1>1, <2>2 DEF Dropped
    <2>4. msgs[i].text \/ msgs[i].uses # <<>> \/ msgs[i].results # <<>>
      BY <2>2 DEF Tidy
    <2>5. out[p].results \in Seq(Result) /\ msgs[i].results \in Seq(Result)
      BY <1>2, <2>2, MessageAt, MessageFields
    <2>6. CASE out[p].results = <<>>
      <3>1. IdsOf(out[p].results) = {}
        BY <2>5, <2>6, NoneAnswered
      <3>2. QED
        BY <2>3, <2>4, <3>1
    <2>7. CASE out[p].results # <<>>
      <3>1. IdsOf(out[p].results) \subseteq IdsOf(msgs[i].results)
        BY <2>3 DEF Answering, IdsOf
      <3>2. LastUses(msgs, i) # {} /\ msgs[i].results # <<>>
        <4>1. ToSet(out[p].results) # {}
          BY <2>5, <2>7, NoneAnswered
        <4>2. LastUses(msgs, i) # {} /\ ToSet(msgs[i].results) # {}
          BY <2>3, <4>1 DEF Answering
        <4>3. QED
          BY <2>5, <4>2, NoneAnswered
      <3>3. IsUser(msgs, i)
        BY <2>2, <3>2, MessageAt, MessageFields
      <3>4. PICK k \in 1 .. i - 1 : LastBefore(msgs, k, i)
        BY <3>2, <3>3, LastExists
      <3>5. ~Opening(msgs, i)
        BY <3>4 DEF LastBefore, Opening
      <3>6. IdsOf(msgs[i].results) \subseteq UsesAt(msgs, i - 1)
        BY <2>2, <3>5 DEF Tidy
      <3>7. IsAssistant(msgs, i - 1)
        BY <2>2, <3>2, <3>6, AnswersFollow
      <3> DEFINE j == i - 1
      <3>8. /\ j \in DOMAIN msgs /\ UsesAt(out, p - 1) = ToSet(parts[j][1].uses)
            /\ UsesAt(msgs, j) = ToSet(msgs[j].uses) /\ IsAssistant(msgs, j)
        BY <1>1, <1>2, <1>3, <2>1, <3>3, <3>7, CallsStay
      <3> HIDE DEF j
      <3>9. parts[j][1].uses = msgs[j].uses
        <4>1. ~IsUser(msgs, j)
          BY <3>8, MessageAt
        <4>2. Len(parts[j]) # 0
          BY <1>1, <3>8, <4>1 DEF Dropped
        <4>3. QED
          BY <1>1, <1>5, <3>8, <4>2 DEF Dropped
      <3>10. IdsOf(out[p].results) \subseteq UsesAt(out, p - 1)
        BY <3>1, <3>6, <3>8, <3>9 DEF j
      <3>11. QED
        BY <2>7, <3>10
    <2>8. QED
      BY <2>6, <2>7
  <1>7. QED
    BY <1>6 DEF Exact, out

LEMMA ExactByBackfill ==
    ASSUME NEW msgs \in Seq(Message), Paired(msgs), Exact(msgs)
    PROVE  Exact(Backfill(msgs))
  <1> DEFINE parts == BackfillParts(msgs)
             out == Backfill(msgs)
  <1>1. Repair(parts, msgs) /\ \A i \in DOMAIN msgs : Filled(msgs, i, parts[i])
    BY BackfillIs
  <1>2. out \in Seq(Message) /\ \E pl : Places(pl, parts, out)
    BY BackfillMakes DEF Placed
  <1> HIDE DEF parts, out
  <1>3. PICK pl : Places(pl, parts, out)
    BY <1>2
  <1>4. Staying(msgs, parts, out, pl)
    BY <1>1, <1>2, <1>3, StaysAre
  <1>5. ASSUME NEW i \in Stays(parts)
        PROVE  /\ out[pl[i]].text \/ out[pl[i]].uses # <<>> \/ out[pl[i]].results # <<>>
               /\ IdsOf(out[pl[i]].results) \subseteq UsesAt(out, pl[i] - 1)
    <2> DEFINE p == pl[i]
               m == out[p]
    <2>1. i \in DOMAIN msgs /\ p \in DOMAIN out /\ m = parts[i][1]
      BY <1>4, <1>5 DEF Staying
    <2>2. Filled(msgs, i, parts[i])
      BY <1>1, <2>1
    <2>3. /\ msgs[i].text \/ msgs[i].uses # <<>> \/ msgs[i].results # <<>>
          /\ IdsOf(msgs[i].results) \subseteq UsesAt(msgs, i - 1)
      BY <2>1 DEF Exact
    <2>4. m.results \in Seq(Result) /\ msgs[i].results \in Seq(Result)
      BY <1>2, <2>1, MessageAt, MessageFields
    <2> HIDE DEF m, p
    <2>5. CASE IsUser(msgs, i) /\ IsAssistant(msgs, i - 1)
      <3> DEFINE j == i - 1
      <3>1. /\ j \in DOMAIN msgs /\ UsesAt(out, p - 1) = ToSet(parts[j][1].uses)
            /\ UsesAt(msgs, j) = ToSet(msgs[j].uses)
        BY <1>1, <1>2, <1>3, <2>5, CallsStay DEF p
      <3>2. IdsOf(m.results) = IdsOf(msgs[i].results) \cup UsesAt(msgs, j)
        BY <2>1, <2>2, <2>5 DEF Filled
      <3> HIDE DEF j
      <3>3. parts[j][1].uses = msgs[j].uses
        BY <1>1, <3>1 DEF Filled
      <3>4. IdsOf(m.results) \subseteq UsesAt(out, p - 1)
        BY <2>3, <3>1, <3>2, <3>3 DEF j
      <3>5. msgs[i].results # <<>> => m.results # <<>>
        BY <2>4, <3>2, NoneAnswered
      <3>6. m.text = msgs[i].text /\ m.uses = msgs[i].uses
        BY <2>1, <2>2 DEF Filled
      <3>7. QED
        BY <2>3, <3>4, <3>5, <3>6 DEF m, p
    <2>6. CASE ~(IsUser(msgs, i) /\ IsAssistant(msgs, i - 1))
      <3>1. m = msgs[i]
        BY <2>1, <2>2, <2>6 DEF Filled
      <3>2. msgs[i].results = <<>>
        BY <2>1, <2>3, <2>6, AnswersFollow
      <3>3. IdsOf(m.results) = {}
        BY <2>4, <3>1, <3>2, NoneAnswered
      <3>4. QED
        BY <2>3, <3>1, <3>3 DEF m, p
    <2>7. QED
      BY <2>5, <2>6
  <1>6. ASSUME NEW p \in DOMAIN out, NEW i \in Stays(parts), Len(parts[i]) = 2, p = pl[i] + 1
        PROVE  out[p].results # <<>> /\ IdsOf(out[p].results) \subseteq UsesAt(out, p - 1)
    <2>1. /\ i \in DOMAIN msgs /\ pl[i] \in DOMAIN out /\ pl[i] \in Nat
          /\ out[pl[i]] = parts[i][1] /\ out[p] = parts[i][2]
      BY <1>4, <1>6 DEF Staying
    <2>2. Filled(msgs, i, parts[i])
      BY <1>1, <2>1
    <2>3. /\ out[p].results # <<>> /\ IdsOf(out[p].results) = ToSet(msgs[i].uses)
          /\ out[pl[i]].uses = msgs[i].uses
      BY <1>6, <2>1, <2>2 DEF Filled
    <2>4. p - 1 = pl[i]
      BY <1>6, <2>1
    <2>5. QED
      BY <2>1, <2>3, <2>4 DEF UsesAt
  <1>7. ASSUME NEW p \in DOMAIN out
        PROVE  /\ out[p].text \/ out[p].uses # <<>> \/ out[p].results # <<>>
               /\ IdsOf(out[p].results) \subseteq UsesAt(out, p - 1)
    <2>1. CASE \E i \in Stays(parts) : p = pl[i]
      BY <1>5, <2>1
    <2>2. CASE \E i \in Stays(parts) : Len(parts[i]) = 2 /\ p = pl[i] + 1
      BY <1>6, <2>2
    <2>3. QED
      BY <1>4, <2>1, <2>2 DEF Staying
  <1>8. QED
    BY <1>7 DEF Exact, out

LEMMA RecentHasRounds ==
    ASSUME history \in Seq(Messages), Truncate(history) \in Seq(Message),
           \A i \in DOMAIN history : TidyAt(i)
    PROVE  Rounds(Truncate(history))
  <1> DEFINE recent == Truncate(history)
  <1>1. PICK d \in Nat : /\ Len(history) = Len(recent) + d
                         /\ \A i \in DOMAIN recent : recent[i] = history[i + d]
    BY RecentIs
  <1>2. DOMAIN history = 1 .. Len(history) /\ Len(history) \in Nat
    OBVIOUS
  <1> HIDE DEF recent
  <1>3. recent \in Seq(Message)
    BY DEF recent
  <1>4. DOMAIN recent = 1 .. Len(recent) /\ Len(recent) \in Nat
    BY <1>3
  <1>5. SUFFICES ASSUME NEW i \in DOMAIN recent
                 PROVE  /\ recent[i].uses # <<>> => IsUser(recent, i + 1) /\ recent[i + 1].results # <<>>
                        /\ i # 1 => IdsOf(recent[i].results) \subseteq UsesAt(recent, i - 1)
    BY DEF Rounds, recent
  <1> DEFINE n == i + d
  <1>6. n \in DOMAIN history /\ recent[i] = history[n] /\ i \in Nat
    BY <1>1, <1>2, <1>4
  <1>7. /\ history[n].uses # <<>> => IsUser(history, n + 1) /\ history[n + 1].results # <<>>
        /\ Answered(history[n]) \subseteq UsesAt(history, n - 1)
    BY <1>6 DEF TidyAt
  <1>8. ASSUME recent[i].uses # <<>>
        PROVE  IsUser(recent, i + 1) /\ recent[i + 1].results # <<>>
    <2>1. IsUser(history, n + 1) /\ history[n + 1].results # <<>>
      BY <1>6, <1>7, <1>8
    <2>2. n + 1 \in DOMAIN history /\ history[n + 1].role = "user"
      BY <2>1 DEF IsUser
    <2> DEFINE j == i + 1
    <2>3. j \in DOMAIN recent /\ j + d = n + 1
      BY <1>1, <1>2, <1>4, <1>6, <2>2
    <2>4. recent[j] = history[n + 1]
      <3> HIDE DEF j, n
      <3> QED  BY <1>1, <2>3
    <2>5. QED
      BY <2>1, <2>2, <2>3, <2>4 DEF IsUser
  <1>9. ASSUME i # 1
        PROVE  IdsOf(recent[i].results) \subseteq UsesAt(recent, i - 1)
    <2> DEFINE j == i - 1
    <2>1. j \in DOMAIN recent /\ j + d = n - 1 /\ n - 1 \in DOMAIN history
      BY <1>1, <1>2, <1>4, <1>6, <1>9
    <2>2. recent[j] = history[n - 1]
      <3> HIDE DEF j, n
      <3> QED  BY <1>1, <2>1
    <2>3. UsesAt(recent, j) = UsesAt(history, n - 1)
      BY <2>1, <2>2 DEF UsesAt
    <2>4. IdsOf(recent[i].results) = Answered(history[n])
      BY <1>6 DEF IdsOf, Answered
    <2>5. QED
      BY <1>7, <2>3, <2>4
  <1>10. QED
    BY <1>8, <1>9

\* TidyIsExact: a conversation whose rounds of calls are each answered by the next user
\* message becomes a request without an empty message, in which every result answers a
\* call of the message right before it.
THEOREM TidyIsExact == Spec => []TidyHistoryIsExact
  <1>1. HistoryInv => TidyHistoryIsExact
    <2>1. SUFFICES ASSUME HistoryInv, \A i \in DOMAIN history : TidyAt(i)
                   PROVE  \A j \in DOMAIN Sent :
                              /\ Sent[j].text \/ Sent[j].uses # <<>> \/ Sent[j].results # <<>>
                              /\ Answered(Sent[j]) \subseteq UsesAt(Sent, j - 1)
      BY DEF TidyHistoryIsExact
    <2>2. CASE Sent = <<>>
      BY <2>2
    <2>3. ASSUME NEW question \in BOOLEAN, Build(question, history) # Rejected,
                 Sent = Build(question, history)
          PROVE  Exact(Sent)
      <3> DEFINE recent == Truncate(history)
                 c == Convert(recent)
                 s == Cleaned(history)
                 a == s \o Asked(question)
                 d == Kept(question, history)
      <3>1. history \in Seq(Messages)
        BY <2>1 DEF HistoryInv
      <3>2. recent \in Seq(Message) /\ Sent = Backfill(d)
        BY <2>3, <3>1, BuildIs
      <3>3. s \in Seq(Message) /\ a \in Seq(Message) /\ Paired(a) /\ d \in Seq(Message) /\ Paired(d)
        BY <3>2, StepsMake
      <3>4. s = Sanitize(c) /\ d = DropOrphans(a)
        BY DEF Cleaned, Kept
      <3>5. Rounds(recent)
        BY <2>1, <3>1, <3>2, RecentHasRounds
      <3> HIDE DEF recent, s, d
      <3>6. c \in Seq(Message) /\ Tidy(c)
        BY <3>2, <3>5, ConvertMakes, TidyConvert
      <3>7. Tidy(s)
        <4> HIDE DEF c
        <4> QED  BY <3>4, <3>6, TidySanitize
      <3>8. Tidy(a)
        BY <3>3, <3>7, TidyAsked
      <3>9. Exact(d)
        <4> HIDE DEF a
        <4> QED  BY <3>3, <3>4, <3>8, ExactByDrop
      <3>10. QED
        BY <3>2, <3>3, <3>9, ExactByBackfill
    <2>4. CASE Exact(Sent)
      BY <2>4 DEF Exact, Answered, IdsOf
    <2>5. QED
      BY <2>1, <2>2, <2>3, <2>4, SentIs
  <1>2. QED
    BY <1>1, Invariance, PTL

=============================================================================
