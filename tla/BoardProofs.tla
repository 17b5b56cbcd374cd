----------------------------- MODULE BoardProofs -----------------------------
(***************************************************************************)
(* Proofs about Board, for every fleet, every state of the tables and      *)
(* every request.  What a request has found is related to the tables in    *)
(* three layers:                                                           *)
(*   Base        the shape of a request and of its answers, which queries  *)
(*               it has sent, and that its parameters are well formed;     *)
(*   AnswersInv  what a query found is what it would find now, as long as  *)
(*               nobody wrote the tables it reads (Untouched);             *)
(*   NamesInv, TopInv, TrendInv, SeriesInv                                 *)
(*               what an answer is worth in spite of later writes.         *)
(* With these a property of an answer is one of the operators of DoBoard,  *)
(* FoBoard and FoDetail on a single state of the tables, where it is       *)
(* counting: the groups of a set of rows add up to the set (SetSums).      *)
(***************************************************************************)
EXTENDS Board, SetSums, SequenceTheorems

-----------------------------------------------------------------------------
(* Counts of groups and lists of the largest (BoardTables)                 *)

\* CountBy, of a key that is a function: operators cannot be the parameters of a lemma.
Counts(S, key) == [k \in {key[x] : x \in S} |-> Cardinality(Fibre(key, S, k))]

\* GROUP BY counts each row once.
LEMMA CountsAddUp ==
    ASSUME NEW S, IsFiniteSet(S), NEW key
    PROVE  /\ IsFiniteSet(DOMAIN Counts(S, key))
           /\ \A k \in DOMAIN Counts(S, key) : Counts(S, key)[k] \in Nat \ {0}
           /\ Total(Counts(S, key)) = Cardinality(S)
  <1> DEFINE K == {key[x] : x \in S}
             h == [x \in S |-> key[x]]
             c == Counts(S, key)
             d == [k \in K |-> Cardinality(Fibre(h, S, k))]
  <1>1. h \in [S -> K] /\ \A k \in K : \E x \in S : h[x] = k
    OBVIOUS
  <1>2. IsFiniteSet(K)
    <2> HIDE DEF h, K
    <2> QED  BY <1>1, FiniteImage
  <1>3. \A k \in K : Fibre(h, S, k) = Fibre(key, S, k)
    BY DEF Fibre
  <1>4. c = d /\ DOMAIN c = K
    BY <1>3 DEF Counts
  <1>5. ASSUME NEW k \in K
        PROVE  c[k] \in Nat \ {0}
    <2>1. PICK x \in S : x \in Fibre(key, S, k)
      BY DEF Fibre
    <2>2. IsFiniteSet(Fibre(key, S, k))
      BY FS_Subset DEF Fibre
    <2>3. Cardinality(Fibre(key, S, k)) \in Nat /\ Cardinality(Fibre(key, S, k)) # 0
      BY <2>1, <2>2, FS_CardinalityType, FS_EmptySet
    <2>4. QED
      BY <2>3 DEF Counts
  <1>6. SumFunctionOnSet(d, K) = Cardinality(S)
    <2> HIDE DEF h, K
    <2> QED  BY <1>1, <1>2, SumOfFibres
  <1>7. Total(c) = Cardinality(S)
    BY <1>4, <1>6 DEF Total, SumFunction
  <1>8. QED
    BY <1>2, <1>4, <1>5, <1>7

\* What a list of LIMIT n holds of the counts it was taken from
IsTop(top, n, count) ==
    /\ DOMAIN top \subseteq DOMAIN count /\ \A k \in DOMAIN top : top[k] = count[k]
    /\ IsFiniteSet(DOMAIN top)
    /\ Cardinality(DOMAIN top) < n => top = [k \in DOMAIN count |-> count[k]]

LEMMA TopsAreOf ==
    ASSUME NEW n \in Nat, NEW count, IsFiniteSet(DOMAIN count), NEW top \in Tops(count, n)
    PROVE  IsTop(top, n, count)
  <1> DEFINE size == Min({n, Cardinality(DOMAIN count)})
  <1>1. PICK keys \in kSubset(size, DOMAIN count) : top = Restrict(count, keys)
    BY DEF Tops
  <1>2. keys \subseteq DOMAIN count /\ Cardinality(keys) = size
    BY <1>1 DEF kSubset
  <1>3. DOMAIN top = keys /\ \A k \in keys : top[k] = count[k]
    BY <1>1 DEF Restrict
  <1>4. IsFiniteSet(keys) /\ Cardinality(keys) \in Nat /\ Cardinality(DOMAIN count) \in Nat
    BY <1>2, FS_Subset, FS_CardinalityType
  <1>5. size \in {n, Cardinality(DOMAIN count)}
    <2>1. n \in Int /\ Cardinality(DOMAIN count) \in Int
      BY <1>4
    <2>2. QED
      BY <2>1, MinOfTwo, Zenon
  <1>6. CASE Cardinality(keys) < n
    <2>1. Cardinality(keys) = Cardinality(DOMAIN count)
      BY <1>2, <1>4, <1>5, <1>6
    <2>2. keys = DOMAIN count
      BY <1>2, <2>1, FS_Subset
    <2>3. QED
      BY <1>1, <1>2, <1>3, <1>4, <2>2 DEF IsTop, Restrict
  <1>7. CASE ~(Cardinality(keys) < n)
    BY <1>2, <1>3, <1>4, <1>7 DEF IsTop
  <1>8. QED
    BY <1>6, <1>7

\* A list that is not filled sums to the rows, a filled one to no more.
LEMMA TopsSumTo ==
    ASSUME NEW S, IsFiniteSet(S), NEW key, NEW n \in Nat, NEW top, IsTop(top, n, Counts(S, key))
    PROVE  SumsTo(top, n, Cardinality(S)) /\ Total(top) \in Nat /\ Total(top) <= Cardinality(S)
  <1> DEFINE c == Counts(S, key)
             K == DOMAIN c
  <1>1. IsFiniteSet(K) /\ Nats(c, K) /\ Ints(c, K) /\ Total(c) = Cardinality(S)
    BY CountsAddUp DEF Nats, Ints
  <1>2. /\ DOMAIN top \subseteq K /\ \A k \in DOMAIN top : top[k] = c[k]
        /\ IsFiniteSet(DOMAIN top)
    BY DEF IsTop
  <1> HIDE DEF c
  <1>3. SumFunctionOnSet(top, DOMAIN top) = SumFunctionOnSet(c, DOMAIN top)
    BY <1>2, SumSame
  <1>4. SumFunctionOnSet(c, K) =
            SumFunctionOnSet(c, DOMAIN top) + SumFunctionOnSet(c, K \ DOMAIN top)
    BY <1>1, <1>2, SumUnion
  <1>5. IsFiniteSet(K \ DOMAIN top) /\ Nats(c, K \ DOMAIN top) /\ Nats(c, DOMAIN top)
    BY <1>1, <1>2, FS_Subset DEF Nats
  <1>6. SumFunctionOnSet(c, DOMAIN top) \in Nat /\ SumFunctionOnSet(c, K \ DOMAIN top) \in Nat
    BY <1>2, <1>5, SumNat
  <1>7. Total(top) = SumFunctionOnSet(c, DOMAIN top) /\ SumFunctionOnSet(c, K) = Cardinality(S)
    BY <1>1, <1>3 DEF Total, SumFunction
  <1>8. Total(top) \in Nat /\ Total(top) <= Cardinality(S)
    BY <1>4, <1>6, <1>7
  <1>9. ASSUME Cardinality(DOMAIN top) < n
        PROVE  Total(top) = Cardinality(S)
    <2>1. DOMAIN top = K
      BY <1>9 DEF IsTop, c
    <2>2. QED
      BY <1>7, <2>1
  <1>10. QED
    BY <1>8, <1>9 DEF SumsTo

-----------------------------------------------------------------------------
(* Steps of a request                                                      *)

IsTable(table) ==
    DOMAIN table \subseteq Uuids /\ \A u \in DOMAIN table : table[u] \in AllOutcomes

\* The shape of the state: typed tables, and nothing found before a request.
Shape ==
    /\ IsTable(status) /\ IsTable(ads) /\ IsTable(cube)
    /\ late \in Seq({"status", "ads", "cube"})
    /\ reply = "none" => got = <<>>

\* What a step does to the tables: a write is noted.
Noted ==
    /\ Unwritten("status")' => Unwritten("status") /\ status' = status
    /\ Unwritten("ads")' => Unwritten("ads") /\ ads' = ads
    /\ Unwritten("cube")' => Unwritten("cube") /\ cube' = cube
    /\ late' = <<>> => late = <<>> /\ status' = status /\ ads' = ads /\ cube' = cube

\* A request begins, and no other step changes what is asked.
Begins == reply = "none" /\ got = <<>> /\ got' = <<>>

LEMMA Writes ==
    ASSUME Shape, Write
    PROVE  Shape' /\ Noted /\ op' = op /\ ask' = ask /\ got' = got /\ reply' = reply
  <1>1. op' = op /\ ask' = ask /\ got' = got /\ reply' = reply /\ reply = "open"
    BY DEF Write
  <1>2. ASSUME NEW t \in {"status", "ads", "cube"}, late' = Append(late, t)
        PROVE  /\ late' \in Seq({"status", "ads", "cube"}) /\ late' # <<>>
               /\ \A s \in {"status", "ads", "cube"} :
                      Unwritten(s)' => Unwritten(s) /\ s # t
    <2> DEFINE L == Append(late, t)
    <2>1. late \in Seq({"status", "ads", "cube"})
      BY DEF Shape
    <2>2. /\ L \in Seq({"status", "ads", "cube"}) /\ L # <<>>
          /\ \A i \in DOMAIN late : i \in DOMAIN L /\ L[i] = late[i]
          /\ Len(late) + 1 \in DOMAIN L /\ L[Len(late) + 1] = t
      BY <2>1
    <2>3. late' = L
      BY <1>2
    <2>4. \A s \in {"status", "ads", "cube"} : s \notin Range(L) => s \notin Range(late) /\ s # t
      BY <2>2 DEF Range
    <2> HIDE DEF L
    <2>5. QED
      BY <2>2, <2>3, <2>4 DEF Unwritten
  <1>3. ASSUME NEW u \in Uuids, NEW o \in Outcomes, Report(u, o), late' = Append(late, "status")
        PROVE  Shape' /\ Noted
    <2>1. ads' = ads /\ cube' = cube
      BY <1>3 DEF Report
    <2>2. IsTable(status)'
      <3>1. status' = [v \in DOMAIN status \cup {u} |-> IF v = u THEN o ELSE status[v]]
        BY <1>3 DEF Report, RowsOf
      <3>2. o \in AllOutcomes /\ IsTable(status)
        BY BoardAssumption DEF Shape
      <3>3. QED
        BY <3>1, <3>2 DEF IsTable
    <2>3. QED
      BY <1>1, <1>2, <1>3, <2>1, <2>2 DEF Shape, Noted, IsTable
  <1>4. ASSUME NEW day, DeleteDay(day) \/ InsertDay(day), late' = Append(late, "ads")
        PROVE  Shape' /\ Noted
    <2>1. status' = status /\ cube' = cube
      BY <1>4 DEF DeleteDay, InsertDay
    <2>2. IsTable(status) /\ IsTable(ads)
      BY DEF Shape
    <2>3. IsTable(ads)'
      <3>1. CASE DeleteDay(day)
        <4>1. /\ DOMAIN ads' \subseteq DOMAIN ads
              /\ \A u \in DOMAIN ads' : ads'[u] = ads[u]
          BY <3>1 DEF DeleteDay, RestrictDomain, Restrict
        <4>2. QED
          BY <4>1, <2>2 DEF IsTable
      <3>2. CASE InsertDay(day)
        <4>1. /\ DOMAIN ads' \subseteq DOMAIN ads \cup DOMAIN status
              /\ \A u \in DOMAIN ads' : ads'[u] = IF u \in DOMAIN ads THEN ads[u] ELSE status[u]
          BY <3>2 DEF InsertDay, RowsOf, Loadable
        <4>2. QED
          BY <4>1, <2>2 DEF IsTable
      <3>3. QED
        BY <1>4, <3>1, <3>2
    <2>4. QED
      BY <1>1, <1>2, <1>4, <2>1, <2>3 DEF Shape, Noted, IsTable
  <1>5. ASSUME LoadCube, late' = Append(late, "cube")
        PROVE  Shape' /\ Noted
    <2>1. status' = status /\ ads' = ads
      BY <1>5 DEF LoadCube
    <2>2. IsTable(cube)'
      <3>1. /\ DOMAIN cube' \subseteq DOMAIN status
            /\ \A u \in DOMAIN cube' : cube'[u] = status[u]
        BY <1>5 DEF LoadCube, Restrict, Loadable, RowsOf
      <3>2. IsTable(status)
        BY DEF Shape
      <3>3. QED
        BY <3>1, <3>2 DEF IsTable
    <2>3. QED
      BY <1>1, <1>2, <1>5, <2>1, <2>2 DEF Shape, Noted, IsTable
  <1>6. QED
    BY <1>1, <1>3, <1>4, <1>5 DEF Write

LEMMA WithIsMore ==
    ASSUME NEW more, NEW then, then = With(more)
    PROVE  /\ DOMAIN then = DOMAIN got \cup DOMAIN more
           /\ \A q \in DOMAIN got : then[q] = got[q]
           /\ \A q \in DOMAIN more \ DOMAIN got : then[q] = more[q]
  BY DEF With

\* What was found is kept.
Kept ==
    /\ op' = op /\ ask' = ask /\ DOMAIN got \subseteq DOMAIN got'
    /\ \A q \in DOMAIN got : got'[q] = got[q]

Quietly == tables' = tables /\ late' = late

LEMMA QuietlyKeeps ==
    ASSUME Shape, Quietly, reply' = "none" => got' = <<>>
    PROVE  Shape' /\ Noted
  BY DEF Shape, Quietly, Noted, Unwritten, tables, IsTable

LEMMA Asks ==
    ASSUME Shape, \/ \E o \in Ops \ {"list"}, f \in Asked : Ask(o, f)
                  \/ \E tool \in Tools, f \in Asked : AskTool(tool, f)
                  \/ \E r \in AskedLists : AskList(r) \/ AskDetail(r)
    PROVE  Begins /\ Quietly /\ reply' \in {"invalid", "internal", "open"}
  <1>1. ASSUME NEW o, NEW f, Ask(o, f)
        PROVE  /\ reply = "none" /\ got' = got /\ Quietly
               /\ reply' \in {"invalid", "internal", "open"}
    BY <1>1 DEF Ask, Quietly
  <1>2. ASSUME NEW r, AskList(r)
        PROVE  /\ reply = "none" /\ got' = got /\ Quietly
               /\ reply' \in {"invalid", "internal", "open"}
    BY <1>2 DEF AskList, Quietly
  <1>3. reply = "none" /\ got' = got /\ Quietly /\ reply' \in {"invalid", "internal", "open"}
    BY <1>1, <1>2 DEF AskTool, AskDetail
  <1>4. QED
    BY <1>3 DEF Shape, Begins

\* What an answer of a query adds, or a failure that is forgotten
LEMMA Queries ==
    ASSUME NEW q \in Due, Query(q)
    PROVE  /\ Kept /\ Quietly /\ reply' = reply /\ DOMAIN got' = DOMAIN got \cup {q}
           /\ q # "names" /\ (q \notin DOMAIN got => got'[q] \in Found(q))
  <1>1. PICK found \in Found(q) : got' = With([p \in {q} |-> found])
    BY DEF Query, Put
  <1>2. /\ q # "names" /\ reply' = reply /\ Quietly /\ op' = op /\ ask' = ask
    BY DEF Query, Put, Quietly
  <1> DEFINE more == [p \in {q} |-> found]
  <1>3. DOMAIN more = {q} /\ more[q] = found
    OBVIOUS
  <1>4. got' = With(more)
    BY <1>1
  <1> HIDE DEF more
  <1>5. /\ DOMAIN got' = DOMAIN got \cup DOMAIN more /\ \A p \in DOMAIN got : got'[p] = got[p]
    BY <1>4, WithIsMore
  <1>6. DOMAIN got' = DOMAIN got \cup {q} /\ (q \notin DOMAIN got => got'[q] = found)
    BY <1>3, <1>4 DEF With
  <1>7. QED
    BY <1>1, <1>2, <1>5, <1>6 DEF Kept

LEMMA Failures ==
    ASSUME NEW q \in Due, QueryFails(q)
    PROVE  /\ Kept /\ Quietly
           /\ \/ reply' = "internal" /\ got' = got
              \/ /\ reply' = reply
                 /\ q = "reasons" \/ op = "tool_overview"
                 /\ DOMAIN got' = DOMAIN got \cup Forgotten(q) \cup {"lost"}
                 /\ Forgotten(q) # {}
  <1>1. Quietly /\ op' = op /\ ask' = ask
    BY DEF QueryFails, Quietly
  <1>2. CASE Forgotten(q) # {}
    <2> DEFINE more == [p \in Forgotten(q) \cup {"lost"} |-> <<>>]
    <2>1. got' = With(more) /\ reply' = reply
      BY <1>2 DEF QueryFails
    <2>2. DOMAIN more = Forgotten(q) \cup {"lost"}
      OBVIOUS
    <2> HIDE DEF more
    <2> DEFINE then == With(more)
    <2>a. then = With(more)
      OBVIOUS
    <2> HIDE DEF then
    <2>b. /\ DOMAIN then = DOMAIN got \cup DOMAIN more
          /\ \A p \in DOMAIN got : then[p] = got[p]
      BY <2>a, WithIsMore
    <2>3. /\ DOMAIN got' = DOMAIN got \cup Forgotten(q) \cup {"lost"}
          /\ \A p \in DOMAIN got : got'[p] = got[p]
      BY <2>1, <2>2, <2>a, <2>b
    <2>4. q = "reasons" \/ op = "tool_overview"
      BY <1>2 DEF Forgotten
    <2>5. QED
      BY <1>1, <1>2, <2>1, <2>3, <2>4 DEF Kept
  <1>3. CASE Forgotten(q) = {}
    BY <1>1, <1>3 DEF QueryFails, Kept
  <1>4. QED
    BY <1>2, <1>3

LEMMA Names ==
    ASSUME FindNames
    PROVE  /\ Kept /\ Quietly
           /\ DOMAIN got' \subseteq DOMAIN got \cup {"answers", "names"}
           /\ "names" \in DOMAIN got' \/ reply' = "internal"
           /\ reply' \in {reply, "internal", "ok"}
           /\ reply' = "ok" /\ reply # "ok" => op = "running_trend"
  <1>1. Quietly /\ op' = op /\ ask' = ask
    BY DEF FindNames, Quietly
  <1>2. PICK fom \in [Unresolved -> FomAnswers], ffm \in [Unresolved -> FfmAnswers] :
            LET of(e) == Resolve(fom[e], ffm[e])
                names == UNION {IF op = "running_trend" THEN of(e)[1] ELSE NamesForEvent(e, of(e)[1]) :
                                   e \in Unresolved}
                failed == \E e \in Unresolved : of(e) = <<>>
            IN  /\ got' = With(IF failed THEN [answers |-> <<fom, ffm>>]
                               ELSE [answers |-> <<fom, ffm>>,
                                     names |-> names \cup (ask.f.events \cap {All})])
                /\ reply' = IF failed THEN "internal"
                            ELSE IF op = "running_trend" /\ names = {} THEN "ok" ELSE reply
    BY DEF FindNames
  <1> DEFINE of(e) == Resolve(fom[e], ffm[e])
             found == UNION {IF op = "running_trend" THEN of(e)[1] ELSE NamesForEvent(e, of(e)[1]) :
                                e \in Unresolved}
             failed == \E e \in Unresolved : of(e) = <<>>
             answers == <<fom, ffm>>
             names == found \cup (ask.f.events \cap {All})
  <1>3. /\ got' = With(IF failed THEN [answers |-> answers]
                       ELSE [answers |-> answers, names |-> names])
        /\ reply' = IF failed THEN "internal"
                    ELSE IF op = "running_trend" /\ found = {} THEN "ok" ELSE reply
    BY <1>2
  <1> HIDE DEF failed, answers, names, found
  <1> DEFINE more == IF failed THEN [answers |-> answers] ELSE [answers |-> answers, names |-> names]
  <1>4. /\ DOMAIN more \subseteq {"answers", "names"}
        /\ "names" \in DOMAIN more \/ failed
    OBVIOUS
  <1>5. got' = With(more)
    BY <1>3
  <1> HIDE DEF more
  <1>6. DOMAIN got' = DOMAIN got \cup DOMAIN more /\ \A p \in DOMAIN got : got'[p] = got[p]
    BY <1>5, WithIsMore
  <1>7. QED
    BY <1>1, <1>3, <1>4, <1>6 DEF Kept

LEMMA DueIsOpen == ASSUME NEW q \in Due PROVE reply = "open"
  BY DEF Due

\* Every step keeps the shape and notes what it writes; it begins a request or keeps
\* what is asked and what was found.
LEMMA Steps ==
    ASSUME Shape, [Next]_vars
    PROVE  Shape' /\ Noted /\ (Begins \/ Kept)
  <1>1. CASE \/ \E o \in Ops \ {"list"}, f \in Asked : Ask(o, f)
             \/ \E tool \in Tools, f \in Asked : AskTool(tool, f)
             \/ "list" \in Ops /\ \E r \in AskedLists : AskList(r) \/ AskDetail(r)
    BY <1>1, Asks, QuietlyKeeps
  <1>2. CASE \E q \in Due : Query(q)
    <2>1. Kept /\ Quietly /\ reply' # "none"
      BY <1>2, Queries, DueIsOpen
    <2>2. QED
      BY <2>1, QuietlyKeeps
  <1>3. CASE \E q \in Due : QueryFails(q)
    <2>1. Kept /\ Quietly /\ reply' # "none"
      BY <1>3, Failures, DueIsOpen
    <2>2. QED
      BY <2>1, QuietlyKeeps
  <1>4. CASE FindNames
    <2>1. Kept /\ Quietly /\ reply' # "none"
      BY <1>4, Names, DueIsOpen DEF FindNames
    <2>2. QED
      BY <2>1, QuietlyKeeps
  <1>5. CASE Answered
    BY <1>5, QuietlyKeeps DEF Answered, Kept, Quietly
  <1>6. CASE Write
    BY <1>6, Writes DEF Kept
  <1>7. CASE UNCHANGED vars
    BY <1>7, QuietlyKeeps DEF vars, Kept, Quietly, Shape
  <1>8. QED
    BY <1>1, <1>2, <1>3, <1>4, <1>5, <1>6, <1>7 DEF Next

\* An answer that is new was found in the tables as they are, or given up.
IsNew(q) == Quietly /\ Kept /\ q \in Due /\ got'[q] \in Found(q) /\ reply' = reply
GivenUp(q) ==
    Quietly /\ Kept /\ "lost" \in DOMAIN got' /\ (q = "reasons" \/ op = "tool_overview")

LEMMA NewAnswer ==
    ASSUME Shape, [Next]_vars, NEW q \in DOMAIN got' \ DOMAIN got, q \notin {"answers", "names", "lost"}
    PROVE  IsNew(q) \/ GivenUp(q)
  <1>1. ~Begins
    BY DEF Begins
  <1>2. got' # got
    OBVIOUS
  <1>3. CASE \E p \in Due : Query(p)
    BY <1>3, Queries DEF IsNew
  <1>4. CASE \E p \in Due : QueryFails(p)
    <2>1. PICK p \in Due : QueryFails(p)
      BY <1>4
    <2>2. /\ Kept /\ Quietly /\ DOMAIN got' = DOMAIN got \cup Forgotten(p) \cup {"lost"}
          /\ p = "reasons" \/ op = "tool_overview"
      BY <1>2, <2>1, Failures
    <2>3. q \in Forgotten(p)
      BY <2>2
    <2>4. q = "reasons" \/ op = "tool_overview"
      BY <2>2, <2>3 DEF Forgotten
    <2>5. QED
      BY <2>2, <2>4 DEF GivenUp
  <1>5. ~FindNames /\ ~Write /\ ~Answered /\ ~UNCHANGED vars
    BY <1>2, Names, Writes DEF Answered, vars
  <1>6. QED
    BY <1>1, <1>3, <1>4, <1>5, Asks DEF Next

\* When a handler answers, nothing is due.
LEMMA OkIsDone ==
    ASSUME Shape, [Next]_vars, reply # "ok", reply' = "ok", op # "running_trend"
    PROVE  Answered
  <1>1. ~Write /\ ~UNCHANGED vars
    BY Writes DEF vars
  <1>2. ~\E p \in Due : Query(p) \/ QueryFails(p)
    BY Queries, Failures
  <1>3. ~FindNames
    BY Names
  <1>4. QED
    BY <1>1, <1>2, <1>3, Asks DEF Next

\* What is due has the first place in the plan that is not done.
LEMMA DueIsNext ==
    ASSUME NEW plan, plan = Plan(op, ask), Len(plan) \in Nat, reply = "open"
    PROVE  /\ Due = {} => \A i \in 1 .. Len(plan) : plan[i] \subseteq DOMAIN got
           /\ \A q \in Due : /\ q \notin DOMAIN got
                             /\ \E i \in 1 .. Len(plan) :
                                    /\ q \in plan[i]
                                    /\ \A j \in 1 .. i - 1 : plan[j] \subseteq DOMAIN got
  <1> DEFINE I == {i \in 1 .. Len(plan) : ~(plan[i] \subseteq DOMAIN got)}
             next == IF I # {} THEN Min(I) ELSE 0
  <1>1. Due = IF next = 0 THEN {} ELSE plan[next] \ DOMAIN got
    BY DEF Due, SelectInSeq
  <1>2. CASE I = {}
    BY <1>1, <1>2
  <1>3. CASE I # {}
    <2>1. I \in SUBSET Nat
      OBVIOUS
    <2>2. \E n \in I : \A m \in I : n <= m
      BY <1>3, <2>1, NatMin
    <2>3. Min(I) \in I /\ \A m \in I : Min(I) <= m
      BY <2>2 DEF Min
    <2>4. next = Min(I) /\ next \in 1 .. Len(plan) /\ ~(plan[next] \subseteq DOMAIN got)
      BY <1>3, <2>3
    <2> HIDE DEF next
    <2>5. \A j \in 1 .. next - 1 : plan[j] \subseteq DOMAIN got
      <3>1. SUFFICES ASSUME NEW j \in 1 .. next - 1, j \in I PROVE FALSE
        BY <2>4
      <3>2. next <= j
        <4> HIDE DEF I
        <4> QED  BY <2>3, <2>4, <3>1
      <3>3. QED
        BY <2>4, <3>2
    <2>6. Due = plan[next] \ DOMAIN got
      <3>1. next # 0
        BY <2>4
      <3>2. QED
        BY <1>1, <3>1
    <2>7. QED
      BY <2>4, <2>5, <2>6
  <1>4. QED
    BY <1>2, <1>3

\* A request that is answered has answers to all its queries.
Complete ==
    reply = "ok" /\ op # "running_trend" /\ Len(Plan(op, ask)) \in Nat =>
        \A i \in 1 .. Len(Plan(op, ask)) : Plan(op, ask)[i] \subseteq DOMAIN got

LEMMA CompleteHolds ==
    ASSUME Shape, Complete, [Next]_vars
    PROVE  Complete'
  <1> SUFFICES ASSUME reply' = "ok", op' # "running_trend", Len(Plan(op', ask')) \in Nat
               PROVE  \A i \in 1 .. Len(Plan(op', ask')) : Plan(op', ask')[i] \subseteq DOMAIN got'
    BY DEF Complete
  <1>1. CASE Begins
    <2>1. \/ UNCHANGED vars
          \/ \E q \in Due : Query(q) \/ QueryFails(q)
          \/ FindNames \/ Answered \/ Write
      BY Asks DEF Next
    <2>2. reply # "open" /\ Due = {}
      BY <1>1 DEF Begins, Due
    <2>3. UNCHANGED vars
      BY <2>1, <2>2 DEF FindNames, Answered, Write
    <2>4. QED
      BY <1>1, <2>3 DEF Begins, vars
  <1>2. CASE Kept
    <2>1. op' = op /\ ask' = ask /\ DOMAIN got \subseteq DOMAIN got'
      BY <1>2 DEF Kept
    <2>2. CASE reply = "ok"
      BY <2>1, <2>2 DEF Complete
    <2>3. CASE reply # "ok"
      <3>1. Answered
        BY <2>1, <2>3, OkIsDone
      <3>2. reply = "open" /\ Due = {}
        BY <3>1 DEF Answered
      <3>3. \A i \in 1 .. Len(Plan(op, ask)) : Plan(op, ask)[i] \subseteq DOMAIN got
        BY <2>1, <3>2, DueIsNext
      <3>4. QED
        BY <2>1, <3>3
    <2>4. QED
      BY <2>2, <2>3
  <1>3. QED
    BY <1>1, <1>2, Steps

-----------------------------------------------------------------------------
(* What is asked                                                           *)

Endpoints == {"overview", "do_funnel", "funnel", "trend", "quality", "top", "anomaly", "list",
              "running_overview", "running_trend", "tool_overview"}

\* Both dates or neither
DatesOf(f) == f.start \in Int /\ f.end \in Int /\ (f.start = NoDay <=> f.end = NoDay)

LEMMA NormalizedDates ==
    ASSUME NEW f \in Conditions, NormalizeDates(f) # <<>>
    PROVE  /\ NormalizeDates(f)[1] \in Conditions /\ DatesOf(NormalizeDates(f)[1])
           /\ NormalizeDates(f)[1].filter = f.filter
  <1>1. f.start \in Int /\ f.end \in Int /\ MaxSpan \in Nat
    BY BoardAssumption DEF Conditions
  <1>2. CASE f.start = NoDay /\ f.end = NoDay
    BY <1>1, <1>2 DEF NormalizeDates, DatesOf
  <1>3. CASE ~(f.start = NoDay /\ f.end = NoDay)
    <2> DEFINE first == Min({f.start, f.end})
               last == Max({f.start, f.end})
               end == Min({last, first + MaxSpan})
               g == [f EXCEPT !.start = first, !.end = end]
    <2>1. f.start > 0 /\ f.end > 0 /\ NormalizeDates(f) = <<g>>
      BY <1>1, <1>3 DEF NormalizeDates, NoDay
    <2>2. first \in Int /\ last \in Int /\ first > 0 /\ last > 0
      <3>1. first \in {f.start, f.end} /\ last \in {f.start, f.end}
        BY <1>1, MinOfTwo, MaxOfTwo, Zenon
      <3>2. QED
        BY <1>1, <2>1, <3>1
    <2> HIDE DEF first, last
    <2>3. end \in {last, first + MaxSpan}
      <3>1. last \in Int /\ first + MaxSpan \in Int
        BY <1>1, <2>2
      <3>2. QED
        BY <3>1, MinOfTwo, Zenon
    <2>4. end \in Int /\ end > 0
      BY <1>1, <2>2, <2>3
    <2> HIDE DEF end
    <2>5. g \in Conditions /\ g.start = first /\ g.end = end /\ g.filter = f.filter
      BY <2>2, <2>4 DEF Conditions
    <2>6. DatesOf(g)
      BY <2>2, <2>4, <2>5 DEF DatesOf, NoDay
    <2> HIDE DEF g
    <2>7. QED
      BY <2>1, <2>5, <2>6
  <1>4. QED
    BY <1>2, <1>3

LEMMA DetailDatesOf ==
    ASSUME NEW f \in Conditions, DetailDates(f) # <<>>
    PROVE  DetailDates(f)[1] \in Conditions /\ DatesOf(DetailDates(f)[1])
  <1>1. f.start \in Int /\ f.end \in Int
    BY DEF Conditions
  <1>2. CASE f.start # NoDay /\ f.end # NoDay /\ NormalizeDates(f) # <<>>
    <2> DEFINE first == Min({f.start, f.end})
               last == Max({f.start, f.end})
               g == [f EXCEPT !.start = first, !.end = last]
    <2>1. DetailDates(f) = <<g>>
      BY <1>2 DEF DetailDates
    <2>2. first \in {f.start, f.end} /\ last \in {f.start, f.end}
      BY <1>1, MinOfTwo, MaxOfTwo, Zenon
    <2>3. first \in Int /\ last \in Int /\ first # NoDay /\ last # NoDay
      BY <1>1, <1>2, <2>2
    <2> HIDE DEF first, last
    <2>4. g \in Conditions /\ g.start = first /\ g.end = last
      BY <2>3 DEF Conditions
    <2> HIDE DEF g
    <2>5. QED
      BY <2>1, <2>3, <2>4 DEF DatesOf
  <1>3. CASE ~(f.start # NoDay /\ f.end # NoDay /\ NormalizeDates(f) # <<>>)
    <2>1. DetailDates(f) = NormalizeDates(f)
      BY <1>3 DEF DetailDates
    <2>2. QED
      BY <2>1, NormalizedDates
  <1>4. QED
    BY <1>2, <1>3

LEMMA ToolDatesOf ==
    ASSUME NEW f \in Conditions
    PROVE  ToolDates(f) \in Conditions
  <1>1. Today - ToolDays + 1 \in Int /\ Today \in Int
    BY BoardAssumption, ToolAssumption
  <1>2. QED
    BY <1>1 DEF ToolDates, Conditions

LEMMA ToolAskOf ==
    ASSUME NEW tool, NEW f \in Conditions
    PROVE  /\ ToolAsk(tool, f) \in Conditions
           /\ tool # "get_running_trend" => ToolAsk(tool, f).filter = None
  <1> DEFINE g == ToolDates(f)
  <1>1. g \in Conditions
    BY ToolDatesOf
  <1> HIDE DEF g
  <1>2. ToolAsk(tool, f) = IF tool = "get_running_trend" THEN [g EXCEPT !.events = {}]
                           ELSE [g EXCEPT !.filter = None]
    BY DEF ToolAsk, g
  <1>3. QED
    BY <1>1, <1>2 DEF Conditions

LEMMA ToolDetailOf ==
    ASSUME NEW r \in ListRequests
    PROVE  ToolDetail(r) \in ListRequests
  <1> DEFINE g == ToolDates(r.f)
             h == [g EXCEPT !.filter = None, !.events = IF r.list = "close" THEN {} ELSE @]
  <1>1. g \in Conditions
    BY ToolDatesOf DEF ListRequests
  <1> HIDE DEF g
  <1>2. h \in Conditions
    BY <1>1 DEF Conditions
  <1> DEFINE also == {c \in r.also : c[1] \in ToolColumns(r.list)}
             size == ToolLimit(r.size)
             t == [r EXCEPT !.f = h, !.event = {}, !.car = {}, !.vehicle = {}, !.stage = <<>>,
                            !.onlyFail = FALSE, !.also = also, !.page = 1, !.size = size]
  <1>3. ToolDetail(r) = t
    BY DEF ToolDetail, g
  <1>4. size \in Int
    <2> DEFINE n == IF r.size > 0 THEN r.size ELSE ToolSize
    <2>1. n \in Int /\ MaxToolSize \in Int
      BY ToolAssumption DEF ListRequests
    <2> HIDE DEF n
    <2>2. Min({n, MaxToolSize}) \in Int
      BY <2>1, MinOfTwo, Zenon
    <2>3. QED
      BY <2>2 DEF ToolLimit, n
  <1> HIDE DEF h, size
  <1>5. also \subseteq r.also
    OBVIOUS
  <1> HIDE DEF also
  <1>6. also \in SUBSET ({"uuid", "status", "detail", "fff", "fdr", "fcl"} \X
                          (Uuids \cup Whys \cup {"success", "discard"}))
    BY <1>5 DEF ListRequests
  <1> DEFINE r1 == [r EXCEPT !.f = h, !.event = {}]
             r2 == [r1 EXCEPT !.car = {}, !.vehicle = {}]
             r3 == [r2 EXCEPT !.stage = <<>>, !.onlyFail = FALSE]
             r4 == [r3 EXCEPT !.also = also]
             r5 == [r4 EXCEPT !.page = 1]
             r6 == [r5 EXCEPT !.size = size]
  <1>7. ToolDetail(r) = r6
    BY <1>3
  <1> HIDE DEF t
  <1>8. r1 \in ListRequests
    BY <1>2 DEF ListRequests
  <1> HIDE DEF r1
  <1>9. r2 \in ListRequests
    BY <1>8 DEF ListRequests
  <1> HIDE DEF r2
  <1>10. r3 \in ListRequests
    BY <1>9 DEF ListRequests
  <1> HIDE DEF r3
  <1>11. r4 \in ListRequests
    BY <1>6, <1>10 DEF ListRequests
  <1> HIDE DEF r4
  <1>12. r5 \in ListRequests
    BY <1>11 DEF ListRequests
  <1> HIDE DEF r5
  <1>13. r6 \in ListRequests
    BY <1>4, <1>12 DEF ListRequests
  <1>14. QED
    BY <1>7, <1>13

\* The dates of a list are those its use case accepted.
LEMMA ListsOf ==
    ASSUME NEW r \in ListRequests, NormalizeList(r) # <<>>
    PROVE  DatesOf(NormalizeList(r)[1].f)
  <1> DEFINE g == DetailDates(r.f)[1]
             r1 == [r EXCEPT !.f = g]
             r2 == Joined(r1)
  <1>1. DetailDates(r.f) # <<>> /\ NormalizeList(r)[1] = NormalizePage(r2)
    BY DEF NormalizeList
  <1>2. g \in Conditions /\ DatesOf(g)
    BY <1>1, DetailDatesOf DEF ListRequests
  <1> HIDE DEF g
  <1>3. r1.f = g /\ DOMAIN r1 = DOMAIN r /\ "f" \in DOMAIN r
    BY DEF ListRequests
  <1> HIDE DEF r1
  <1>4. r2.f.start = g.start /\ r2.f.end = g.end /\ DOMAIN r2 = DOMAIN r
    BY <1>2, <1>3 DEF Joined, Conditions
  <1> HIDE DEF r2
  <1>5. NormalizePage(r2).f = r2.f
    BY <1>4 DEF NormalizePage
  <1>6. QED
    BY <1>1, <1>2, <1>4, <1>5 DEF DatesOf

WellFormed ==
    reply \in {"open", "ok"} =>
        /\ op \in Endpoints /\ DatesOf(ask.f)
        /\ op # "list" => ask.f \in Conditions
        /\ op = "tool_overview" => ask.f.filter = None

LEMMA WellFormedBegins ==
    ASSUME \/ \E o \in Ops \ {"list"}, f \in Asked : Ask(o, f)
           \/ \E tool \in Tools, f \in Asked : AskTool(tool, f)
           \/ \E r \in AskedLists : AskList(r) \/ AskDetail(r)
    PROVE  WellFormed'
  <1>1. ASSUME NEW o \in Endpoints \ {"list"}, NEW f \in Conditions, Ask(o, f),
               o = "tool_overview" => f.filter = None
        PROVE  WellFormed'
    <2>1. SUFFICES ASSUME reply' \in {"open", "ok"}
                   PROVE  WellFormed'
      BY DEF WellFormed
    <2>2. /\ op' = o /\ NormalizeDates(f) # <<>> /\ ask' = [f |-> NormalizeDates(f)[1]]
      BY <1>1, <2>1 DEF Ask
    <2> DEFINE g == NormalizeDates(f)[1]
    <2>3. g \in Conditions /\ DatesOf(g) /\ g.filter = f.filter
      BY <2>2, NormalizedDates
    <2> HIDE DEF g
    <2>4. ask'.f = g
      BY <2>2 DEF g
    <2>5. QED
      BY <1>1, <2>2, <2>3, <2>4 DEF WellFormed, DatesOf
  <1>2. ASSUME NEW r \in ListRequests, AskList(r)
        PROVE  WellFormed'
    <2>1. SUFFICES ASSUME reply' \in {"open", "ok"}
                   PROVE  WellFormed'
      BY DEF WellFormed
    <2>2. op' = "list" /\ NormalizeList(r) # <<>> /\ ask' = NormalizeList(r)[1]
      BY <1>2, <2>1 DEF AskList
    <2>3. DatesOf(NormalizeList(r)[1].f)
      BY <2>2, ListsOf
    <2>4. DatesOf(ask'.f)
      BY <2>2, <2>3
    <2>5. QED
      BY <2>2, <2>4 DEF WellFormed, Endpoints, DatesOf
  <1>3. ASSUME NEW o \in Ops \ {"list"}, NEW f \in Asked, Ask(o, f)
        PROVE  WellFormed'
    <2>1. o \in Endpoints \ {"list"} /\ o # "tool_overview" /\ f \in Conditions
      BY RequestAssumption, BoardAssumption DEF Endpoints
    <2>2. QED
      BY <1>1, <1>3, <2>1
  <1>4. ASSUME NEW tool \in Tools, NEW f \in Asked, AskTool(tool, f)
        PROVE  WellFormed'
    <2>1. Endpoint[tool] \in Endpoints \ {"list"} /\ f \in Conditions
      BY RequestAssumption, BoardAssumption DEF Endpoint, Endpoints
    <2>2. Endpoint[tool] = "tool_overview" => tool # "get_running_trend"
      BY DEF Endpoint
    <2>3. /\ ToolAsk(tool, f) \in Conditions
          /\ Endpoint[tool] = "tool_overview" => ToolAsk(tool, f).filter = None
      BY <2>1, <2>2, ToolAskOf
    <2>4. Ask(Endpoint[tool], ToolAsk(tool, f))
      BY <1>4 DEF AskTool
    <2>5. QED
      BY <1>1, <2>1, <2>3, <2>4
  <1>5. ASSUME NEW r \in AskedLists, AskList(r) \/ AskDetail(r)
        PROVE  WellFormed'
    <2>1. r \in ListRequests /\ ToolDetail(r) \in ListRequests
      BY DetailAssumption, ToolDetailOf
    <2>2. QED
      BY <1>2, <1>5, <2>1 DEF AskDetail
  <1>6. QED
    BY <1>3, <1>4, <1>5

LEMMA WellFormedHolds ==
    ASSUME Shape, WellFormed, [Next]_vars
    PROVE  WellFormed'
  <1>1. CASE \/ \E o \in Ops \ {"list"}, f \in Asked : Ask(o, f)
             \/ \E tool \in Tools, f \in Asked : AskTool(tool, f)
             \/ "list" \in Ops /\ \E r \in AskedLists : AskList(r) \/ AskDetail(r)
    BY <1>1, WellFormedBegins
  <1>2. CASE \/ UNCHANGED vars
             \/ \E q \in Due : Query(q) \/ QueryFails(q)
             \/ FindNames \/ Answered \/ Write
    <2>1. op' = op /\ ask' = ask
      BY <1>2, Queries, Failures, Names, Writes DEF Kept, Answered, vars
    <2>2. reply' \in {"open", "ok"} => reply \in {"open", "ok"}
      BY <1>2, Queries, Failures, DueIsOpen DEF FindNames, Answered, Write, vars
    <2>3. QED
      BY <2>1, <2>2 DEF WellFormed, DatesOf
  <1>3. QED
    BY <1>1, <1>2 DEF Next

QueryNames == {"counts", "vehicles", "stat", "fff", "fdr", "fcl", "detail", "over", "reason",
               "summary", "dumped", "uploads", "rates", "reasons", "names", "count", "page", "beats"}

LEMMA Plans ==
    ASSUME NEW o \in Endpoints, NEW a
    PROVE  Plan(o, a) \in Seq(SUBSET QueryNames)
  <1>1. ASSUME NEW A \in SUBSET QueryNames, NEW B \in SUBSET QueryNames, NEW C \in SUBSET QueryNames,
               NEW D \in SUBSET QueryNames
        PROVE  /\ <<A>> \in Seq(SUBSET QueryNames) /\ <<A, B>> \in Seq(SUBSET QueryNames)
               /\ <<A, B, C, D>> \in Seq(SUBSET QueryNames)
    OBVIOUS
  <1>2. CASE o \in {"overview", "do_funnel", "funnel", "trend"}
    <2>1. \E A \in SUBSET QueryNames : Plan(o, a) = <<A>>
      BY <1>2 DEF Plan, QueryNames
    <2>2. QED
      BY <2>1, <1>1
  <1>3. CASE o \in {"quality", "top", "anomaly", "running_overview", "running_trend"}
    <2>1. \E A, B \in SUBSET QueryNames : Plan(o, a) = <<A, B>>
      BY <1>3 DEF Plan, QueryNames
    <2>2. QED
      BY <2>1, <1>1
  <1>4. CASE o = "tool_overview"
    <2>1. \E A, B, C, D \in SUBSET QueryNames : Plan(o, a) = <<A, B, C, D>>
      BY <1>4 DEF Plan, QueryNames
    <2>2. QED
      BY <2>1, <1>1
  <1>5. CASE o = "list"
    <2>1. \E A, B \in SUBSET QueryNames : Plan(o, a) \in {<<A>>, <<A, B>>}
      BY <1>5 DEF Plan, QueryNames
    <2>2. QED
      BY <2>1, <1>1
  <1>6. QED
    BY <1>2, <1>3, <1>4, <1>5 DEF Endpoints

\* What is due is a query of the plan, and not yet answered.
LEMMA DueIsPlanned ==
    ASSUME WellFormed, NEW q \in Due
    PROVE  /\ q \in QueryNames /\ q \notin DOMAIN got /\ reply = "open" /\ op \in Endpoints
           /\ \E i \in 1 .. Len(Plan(op, ask)) :
                  /\ q \in Plan(op, ask)[i]
                  /\ \A j \in 1 .. i - 1 : Plan(op, ask)[j] \subseteq DOMAIN got
  <1>1. reply = "open" /\ op \in Endpoints
    BY DueIsOpen DEF WellFormed
  <1> DEFINE plan == Plan(op, ask)
  <1>2. plan \in Seq(SUBSET QueryNames)
    BY <1>1, Plans
  <1>3. plan = Plan(op, ask)
    OBVIOUS
  <1> HIDE DEF plan
  <1>4. Len(plan) \in Nat /\ \A i \in 1 .. Len(plan) : plan[i] \subseteq QueryNames
    BY <1>2
  <1>5. /\ q \notin DOMAIN got
        /\ \E i \in 1 .. Len(plan) :
               q \in plan[i] /\ \A j \in 1 .. i - 1 : plan[j] \subseteq DOMAIN got
    BY <1>1, <1>3, <1>4, DueIsNext
  <1>6. QED
    BY <1>1, <1>4, <1>5 DEF plan

\* An answered request has what its plan asks for.
LEMMA OkHasAll ==
    ASSUME WellFormed, Complete, reply = "ok", op # "running_trend"
    PROVE  \A i \in 1 .. Len(Plan(op, ask)) : Plan(op, ask)[i] \subseteq DOMAIN got
  <1> DEFINE plan == Plan(op, ask)
  <1>1. plan \in Seq(SUBSET QueryNames)
    BY Plans DEF WellFormed
  <1> HIDE DEF plan
  <1>2. Len(plan) \in Nat
    BY <1>1
  <1>3. QED
    BY <1>2 DEF Complete, plan

-----------------------------------------------------------------------------
(* The filters of events: ErrorsSurface                                    *)

\* What an event has was resolved from these answers of FOM and FFM.
Resolved(fom, ffm) == fom.names # {} \/ ffm.names # {} \/ "down" \notin {fom.state, ffm.state}

NamesInv ==
    "answers" \in DOMAIN got /\ reply # "internal" =>
        /\ "names" \in DOMAIN got
        /\ \A e \in Unresolved : Resolved(got.answers[1][e], got.answers[2][e])

LEMMA AnswerOfServices ==
    ASSUME NEW fom, NEW ffm, Resolve(fom, ffm) # <<>>
    PROVE  Resolved(fom, ffm)
  BY DEF Resolve, Resolved

LEMMA NamesHold ==
    ASSUME Shape, WellFormed, NamesInv, [Next]_vars
    PROVE  NamesInv'
  <1>1. CASE Begins
    BY <1>1 DEF Begins, NamesInv
  <1>2. CASE "answers" \in DOMAIN got /\ Kept
    <2>1. Unresolved' = Unresolved
      BY <1>2 DEF Kept, Unresolved
    <2>2. reply = "internal" => reply' = "internal"
      <3>1. SUFFICES ASSUME reply = "internal"
                     PROVE  reply' = "internal"
        OBVIOUS
      <3>2. Due = {}
        BY <3>1 DEF Due
      <3>3. UNCHANGED vars
        BY <3>1, <3>2, Asks DEF Next, FindNames, Answered, Write, Begins
      <3>4. QED
        BY <3>1, <3>3 DEF vars
    <2>3. /\ "answers" \in DOMAIN got' /\ got'.answers = got.answers
          /\ "names" \in DOMAIN got => "names" \in DOMAIN got'
      BY <1>2 DEF Kept
    <2>4. QED
      BY <1>2, <2>1, <2>2, <2>3 DEF NamesInv, Resolved
  <1>3. CASE "answers" \notin DOMAIN got /\ "answers" \in DOMAIN got' /\ Kept
    <2>1. ~Begins /\ got' # got
      BY <1>3 DEF Begins
    <2>2. ~\E q \in Due : Query(q)
      <3>1. SUFFICES ASSUME NEW q \in Due, Query(q)
                     PROVE  FALSE
        OBVIOUS
      <3>2. "answers" = q
        BY <1>3, <3>1, Queries
      <3>3. q \in QueryNames
        BY DueIsPlanned
      <3>4. QED
        BY <3>2, <3>3 DEF QueryNames
    <2>3. ASSUME NEW q \in Due, QueryFails(q)
          PROVE  FALSE
      <3>0. DOMAIN got' = DOMAIN got \cup Forgotten(q) \cup {"lost"}
        BY <2>1, <2>3, Failures
      <3>1. "answers" \in Forgotten(q)
        BY <1>3, <3>0
      <3>2. "answers" = q
        BY <3>1 DEF Forgotten
      <3>3. q \in QueryNames
        BY DueIsPlanned
      <3>4. QED
        BY <3>2, <3>3 DEF QueryNames
    <2>4. FindNames
      BY <2>1, <2>2, <2>3, Asks, Writes DEF Next, Answered, vars
    <2>5. PICK fom \in [Unresolved -> FomAnswers], ffm \in [Unresolved -> FfmAnswers] :
              LET of(e) == Resolve(fom[e], ffm[e])
                  names == UNION {IF op = "running_trend" THEN of(e)[1] ELSE NamesForEvent(e, of(e)[1]) :
                                     e \in Unresolved}
                  failed == \E e \in Unresolved : of(e) = <<>>
              IN  /\ got' = With(IF failed THEN [answers |-> <<fom, ffm>>]
                                 ELSE [answers |-> <<fom, ffm>>,
                                       names |-> names \cup (ask.f.events \cap {All})])
                  /\ reply' = IF failed THEN "internal"
                              ELSE IF op = "running_trend" /\ names = {} THEN "ok" ELSE reply
      BY <2>4 DEF FindNames
    <2> DEFINE failed == \E e \in Unresolved : Resolve(fom[e], ffm[e]) = <<>>
    <2>6. \E names : /\ got' = With(IF failed THEN [answers |-> <<fom, ffm>>]
                                    ELSE [answers |-> <<fom, ffm>>, names |-> names])
                     /\ failed => reply' = "internal"
      BY <2>5
    <2>7. SUFFICES ASSUME reply' # "internal"
                   PROVE  NamesInv'
      BY DEF NamesInv
    <2>8. PICK names : ~failed /\ got' = With([answers |-> <<fom, ffm>>, names |-> names])
      BY <2>6, <2>7
    <2> DEFINE answers == <<fom, ffm>>
               more == [answers |-> answers, names |-> names]
    <2>9. answers[1] = fom /\ answers[2] = ffm
      OBVIOUS
    <2>10. got' = With(more) /\ DOMAIN more = {"answers", "names"} /\ more.answers = answers
      BY <2>8
    <2> HIDE DEF answers, more
    <2>11. DOMAIN got' = DOMAIN got \cup {"answers", "names"} /\ got'.answers = answers
      BY <1>3, <2>10 DEF With
    <2>12. \A e \in Unresolved : Resolved(fom[e], ffm[e])
      BY <2>8, AnswerOfServices
    <2>13. Unresolved' = Unresolved
      BY <1>3 DEF Kept, Unresolved
    <2>14. QED
      BY <2>9, <2>11, <2>12, <2>13 DEF NamesInv
  <1>4. CASE "answers" \notin DOMAIN got'
    BY <1>4 DEF NamesInv
  <1>5. QED
    BY <1>1, <1>2, <1>3, <1>4, Steps DEF Kept

LEMMA NamesFollow == NamesInv => ErrorsSurface
  BY DEF NamesInv, ErrorsSurface, Resolved

-----------------------------------------------------------------------------
(* The invariant that every property of an answer rests on                 *)

Base == Shape /\ Complete /\ WellFormed

LEMMA BaseBegins == Init => Base /\ NamesInv
  <1> SUFFICES ASSUME Init
               PROVE  Base /\ NamesInv
    OBVIOUS
  <1>1. got = <<>> /\ late = <<>> /\ reply = "none"
    BY DEF Init
  <1>2. IsTable(status)
    <2>1. status \in Starts
      BY DEF Init
    <2>2. DOMAIN status \subseteq Uuids /\ Range(status) \subseteq AllOutcomes
      BY <2>1, RequestAssumption
    <2>3. QED
      BY <2>2 DEF IsTable, Range
  <1>3. IsTable(ads) /\ IsTable(cube)
    <2>1. ads = cube /\ DOMAIN ads \subseteq DOMAIN status /\ \A u \in DOMAIN ads : ads[u] = status[u]
      BY DEF Init, Restrict, Loadable, RowsOf
    <2>2. QED
      BY <1>2, <2>1 DEF IsTable
  <1>4. QED
    BY <1>1, <1>2, <1>3 DEF Base, Shape, Complete, WellFormed, NamesInv

LEMMA BaseHolds == Base /\ [Next]_vars => Base'
  BY Steps, CompleteHolds, WellFormedHolds DEF Base

LEMMA Always == Spec => []Base
  BY BaseBegins, BaseHolds, PTL DEF Spec

\* ResolveRunningFilterNames and resolveRunningEventNames: whatever FOM and FFM
\* answer to however many events, a service that is down is never shown as filters that
\* do not run.
THEOREM ErrorsAlwaysSurface == Spec => []ErrorsSurface
  <1>1. Base /\ NamesInv /\ [Next]_vars => NamesInv'
    BY NamesHold DEF Base
  <1>2. Init => NamesInv
    BY BaseBegins
  <1>3. QED
    BY <1>1, <1>2, Always, NamesFollow, PTL DEF Spec

-----------------------------------------------------------------------------
(* The reasons of vehicles: TopReasons                                     *)

\* vehicleFailReasons finds a reason for each vehicle of the list that has a row with
\* a discarded stage.
LEMMA ReasonsAreFound ==
    ASSUME NEW f, NEW rates, NEW reasons \in VehicleReasons(f, rates, SpareOfTop),
           NEW g \in DOMAIN rates, NEW u \in VehicleRows(f), Vehicle(u) = g[1],
           NEW s \in StageLists, status[u][s] = "discard"
    PROVE  g[1] \in DOMAIN reasons /\ reasons[g[1]] # <<>>
  <1> DEFINE vehicles == {h[1] : h \in DOMAIN rates}
             failed == {v \in VehicleRows(f) : /\ Vehicle(v) \in vehicles
                                               /\ \E t \in {"fff", "fdr", "fcl"} : Isnt(status[v][t], "success")}
             of(v) == CountBy({w \in failed : Vehicle(w) = v}, LAMBDA w : ReasonOf(status[w]))
             most(v) == {r \in DOMAIN of(v) : \A q \in DOMAIN of(v) : of(v)[r] >= of(v)[q]}
             named == {Vehicle(v) : v \in failed}
  <1>1. g[1] \in vehicles /\ Isnt("discard", "success") /\ s \in {"fff", "fdr", "fcl"}
    BY DEF Isnt, StageLists
  <1>2. u \in failed
    BY <1>1
  <1>3. g[1] \in named /\ vehicles # {}
    BY <1>1, <1>2
  <1>4. reasons \in {r \in [named -> UNION {most(v) : v \in named}] : \A v \in named : r[v] \in most(v)}
    <2>1. ~(SpareOfTop > 0 \/ vehicles = {})
      BY <1>3 DEF SpareOfTop
    <2>2. QED
      BY <2>1 DEF VehicleReasons
  <1>5. g[1] \in DOMAIN reasons /\ reasons[g[1]] \in DOMAIN of(g[1])
    <2> HIDE DEF named, of
    <2> QED  BY <1>3, <1>4
  <1>6. \A v : \A r \in DOMAIN of(v) : \E w \in failed : r = ReasonOf(status[w])
    <2> HIDE DEF failed
    <2> QED  BY DEF CountBy
  <1>7. PICK w \in failed : reasons[g[1]] = ReasonOf(status[w])
    BY <1>5, <1>6
  <1>8. \E a, b : ReasonOf(status[w]) = <<a, b>>
    BY DEF ReasonOf
  <1>9. QED
    BY <1>5, <1>7, <1>8

TopInv ==
    op = "top" /\ "reasons" \in DOMAIN got /\ "lost" \notin DOMAIN got =>
        "rates" \in DOMAIN got /\ ListHasReasons

LEMMA TopHolds ==
    ASSUME Base, TopInv, [Next]_vars
    PROVE  TopInv'
  <1>0. Shape /\ WellFormed
    BY DEF Base
  <1> SUFFICES ASSUME op' = "top", "reasons" \in DOMAIN got', "lost" \notin DOMAIN got'
               PROVE  "rates" \in DOMAIN got' /\ ListHasReasons'
    BY DEF TopInv
  <1>1. Noted /\ Kept
    <2>1. ~Begins
      BY DEF Begins
    <2>2. QED
      BY <1>0, <2>1, Steps
  <1>2. /\ op = "top" /\ ask' = ask /\ "lost" \notin DOMAIN got
        /\ "rates" \in DOMAIN got => "rates" \in DOMAIN got' /\ got'.rates = got.rates
    BY <1>1 DEF Kept
  <1>3. CASE "reasons" \in DOMAIN got
    <2>1. "rates" \in DOMAIN got /\ ListHasReasons /\ got'.reasons = got.reasons
      BY <1>1, <1>2, <1>3 DEF TopInv, Kept
    <2>2. Unwritten("status")' => Unwritten("status") /\ status' = status
      BY <1>1 DEF Noted
    <2>3. ListHasReasons'
      BY <1>2, <2>1, <2>2 DEF ListHasReasons, VehicleList, VehicleRows, RowsOf, OfVehicles
    <2>4. QED
      BY <1>2, <2>1, <2>3
  <1>4. CASE "reasons" \notin DOMAIN got
    <2>1. IsNew("reasons")
      <3>1. ~GivenUp("reasons")
        BY DEF GivenUp
      <3>2. QED
        BY <1>0, <1>4, <3>1, NewAnswer
    <2>2. "rates" \in DOMAIN got
      <3>1. PICK i \in 1 .. Len(Plan(op, ask)) :
                 /\ "reasons" \in Plan(op, ask)[i]
                 /\ \A j \in 1 .. i - 1 : Plan(op, ask)[j] \subseteq DOMAIN got
        BY <1>0, <2>1, DueIsPlanned DEF IsNew
      <3>2. Plan(op, ask) = <<{"rates"}, {"reasons"}>>
        BY <1>2 DEF Plan
      <3>3. i = 2
        BY <3>1, <3>2
      <3>4. QED
        BY <3>1, <3>2, <3>3
    <2>3. got'.reasons \in VehicleReasons(ask.f, got.rates, SpareOfTop)
      BY <1>2, <2>1 DEF IsNew, Found
    <2>4. status' = status
      BY <2>1 DEF IsNew, Quietly, tables
    <2>5. VehicleRows(ask.f)' = VehicleRows(ask.f)
      BY <1>2, <2>4 DEF VehicleRows, RowsOf, OfVehicles
    <2>6. ListHasReasons'
      <3>1. \A g \in DOMAIN got.rates, u \in VehicleRows(ask.f) :
                Vehicle(u) = g[1] /\ (\E s \in StageLists : status[u][s] = "discard") =>
                    g[1] \in DOMAIN got'.reasons /\ got'.reasons[g[1]] # <<>>
        BY <2>3, ReasonsAreFound
      <3>2. QED
        BY <1>2, <2>2, <2>4, <2>5, <3>1 DEF ListHasReasons, VehicleList
    <2>7. QED
      BY <1>2, <2>2, <2>6
  <1>5. QED
    BY <1>3, <1>4

\* GetTopVehicles: each vehicle of the list that has a row with a discarded stage comes
\* with a reason, however the two queries fall among the reports, unless a stage
\* reported in between or the query of the reasons failed.
THEOREM TopVehiclesHaveReasons == Spec => []TopReasons
  <1>1. Init => TopInv
    BY DEF Init, TopInv
  <1>2. Base /\ TopInv => TopReasons
    <2> SUFFICES ASSUME Base, TopInv, op = "top", reply = "ok"
                 PROVE  ListHasReasons
      BY DEF TopReasons, AnswerOf
    <2>1. Plan(op, ask) = <<{"rates"}, {"reasons"}>>
      BY DEF Plan
    <2>2. "reasons" \in DOMAIN got
      BY <2>1, OkHasAll DEF Base
    <2>3. QED
      BY <2>2 DEF TopInv, ListHasReasons
  <1>3. QED
    BY <1>1, <1>2, TopHolds, Always, PTL DEF Spec

-----------------------------------------------------------------------------
(* Rates and lists of reasons                                              *)

LEMMA ProductsGrow ==
    ASSUME NEW a \in Nat, NEW b \in Nat, NEW c \in Nat, NEW d \in Nat, a <= c, b <= d
    PROVE  a * b \in Nat /\ c * d \in Nat /\ a * b <= c * d
  <1>1. PICK m \in Nat, n \in Nat : c = a + m /\ d = b + n
    <2>1. c - a \in Nat /\ d - b \in Nat /\ c = a + (c - a) /\ d = b + (d - b)
      OBVIOUS
    <2>2. QED
      BY <2>1
  <1>2. c * d = a * b + a * n + m * b + m * n
    BY <1>1
  <1>3. a * b \in Nat /\ a * n \in Nat /\ m * b \in Nat /\ m * n \in Nat
    BY <1>1
  <1>4. QED
    BY <1>2, <1>3

\* A part has a rate of at most 100 %.
LEMMA RateOfPart ==
    ASSUME NEW a \in Nat, NEW b \in Nat, a <= b
    PROVE  Pct(a, b) <= 1000
  <1>1. CASE b = 0
    BY <1>1 DEF Pct
  <1>2. CASE b # 0
    <2> DEFINE x == 2000 * a + b
               d == 2 * b
               q == x \div d
    <2>1. x \in Nat /\ d \in Nat /\ d > 0 /\ x < 1001 * d
      BY <1>2
    <2>2. q \in Int /\ q * d <= x
      <3> HIDE DEF x, d
      <3> QED  BY <2>1
    <2>3. Pct(a, b) = q
      BY <1>2 DEF Pct
    <2> HIDE DEF q, x, d
    <2>4. q <= 1000
      <3>1. SUFFICES ASSUME q >= 1001
                     PROVE  FALSE
        BY <2>2
      <3>2. 1001 * d <= q * d
        BY <2>1, <2>2, <3>1, ProductsGrow, q \in Nat, 1001 \in Nat
      <3>3. q * d \in Int /\ 1001 * d \in Int
        BY <2>1, <2>2
      <3>4. QED
        BY <2>1, <2>2, <3>2, <3>3
    <2>5. QED
      BY <2>3, <2>4
  <1>3. QED
    BY <1>1, <1>2

\* The lists of reasons that the rows of a set may be answered with
TagLists(R, stage) == Tops(CountBy(R, LAMBDA u : AdsTag(stage, ads[u])), MaxReasons)

\* A list of reasons sums to the rows it was counted from, or to less when it is full.
LEMMA TagsSumTo ==
    ASSUME NEW R, IsFiniteSet(R), NEW stage, NEW top \in TagLists(R, stage)
    PROVE  /\ SumsTo(top, MaxReasons, Cardinality(R))
           /\ Total(top) \in Nat /\ Total(top) <= Cardinality(R)
           /\ IsFiniteSet(DOMAIN top) /\ Nats(top, DOMAIN top)
  <1> DEFINE key == [u \in R |-> AdsTag(stage, ads[u])]
             c == Counts(R, key)
  <1>1. CountBy(R, LAMBDA u : AdsTag(stage, ads[u])) = c
    BY DEF CountBy, Counts, Fibre
  <1>2. MaxReasons \in Nat
    BY BoardAssumption
  <1>3. top \in Tops(c, MaxReasons)
    BY <1>1 DEF TagLists
  <1> HIDE DEF key
  <1>4. IsFiniteSet(DOMAIN c) /\ \A k \in DOMAIN c : c[k] \in Nat
    BY CountsAddUp
  <1>5. IsTop(top, MaxReasons, c)
    <2> HIDE DEF c
    <2> QED  BY <1>2, <1>3, <1>4, TopsAreOf
  <1>6. QED
    BY <1>2, <1>4, <1>5, TopsSumTo DEF IsTop, Nats

LEMMA AmongIsPart ==
    ASSUME NEW top, IsFiniteSet(DOMAIN top), Nats(top, DOMAIN top), NEW names
    PROVE  Among(top, names) \in Nat /\ Among(top, names) <= Total(top)
  <1> DEFINE part == RestrictDomain(top, LAMBDA n : n \in names)
             D == {n \in DOMAIN top : n \in names}
  <1>1. DOMAIN part = D /\ \A n \in D : part[n] = top[n]
    BY DEF RestrictDomain, Restrict
  <1>2. Among(top, names) = SumFunctionOnSet(part, D)
    BY <1>1 DEF Among, Total, SumFunction
  <1> HIDE DEF part
  <1>3. /\ IsFiniteSet(D) /\ IsFiniteSet(DOMAIN top \ D) /\ D \in SUBSET DOMAIN top
        /\ Nats(top, D) /\ Nats(top, DOMAIN top \ D) /\ Ints(top, DOMAIN top)
    BY FS_Subset DEF Nats, Ints
  <1> HIDE DEF D
  <1>4. SumFunctionOnSet(part, D) = SumFunctionOnSet(top, D)
    BY <1>1, <1>3, SumSame
  <1>5. SumFunctionOnSet(top, DOMAIN top) =
            SumFunctionOnSet(top, D) + SumFunctionOnSet(top, DOMAIN top \ D)
    BY <1>3, SumUnion
  <1>6. SumFunctionOnSet(top, D) \in Nat /\ SumFunctionOnSet(top, DOMAIN top \ D) \in Nat
    BY <1>3, SumNat
  <1>7. Total(top) = SumFunctionOnSet(top, DOMAIN top)
    BY DEF Total, SumFunction
  <1>8. QED
    BY <1>2, <1>4, <1>5, <1>6, <1>7

\* Counted sets
LEMMA CountParts ==
    ASSUME NEW S, IsFiniteSet(S)
    PROVE  /\ Cardinality(S) \in Nat
           /\ \A A, B \in SUBSET S : /\ IsFiniteSet(A) /\ Cardinality(A) \in Nat
                                     /\ A \subseteq B => Cardinality(A) <= Cardinality(B)
                                     /\ A \cap B = {} =>
                                            Cardinality(A \cup B) = Cardinality(A) + Cardinality(B)
  <1>1. \A A \in SUBSET S : IsFiniteSet(A) /\ Cardinality(A) \in Nat
    BY FS_Subset, FS_CardinalityType
  <1>2. ASSUME NEW A \in SUBSET S, NEW B \in SUBSET S
        PROVE  /\ A \subseteq B => Cardinality(A) <= Cardinality(B)
               /\ A \cap B = {} => Cardinality(A \cup B) = Cardinality(A) + Cardinality(B)
    BY <1>1, CountDisjoint, FS_Subset
  <1>3. QED
    BY <1>1, <1>2, FS_CardinalityType

-----------------------------------------------------------------------------
(* Funnels: FunnelAddsUp                                                   *)

LEMMA AdsAreFinite ==
    ASSUME Shape, NEW f
    PROVE  /\ IsFiniteSet(Ads(f)) /\ Ads(f) \subseteq DOMAIN ads
           /\ \A u \in Ads(f) : u \in Uuids /\ ads[u] \in AllOutcomes
  <1>1. Ads(f) \subseteq DOMAIN ads /\ IsTable(ads)
    BY DEF Ads, RowsOf, Shape
  <1>2. Ads(f) \subseteq Uuids /\ IsFiniteSet(Uuids)
    BY <1>1, BoardAssumption DEF IsTable
  <1>3. QED
    BY <1>1, <1>2, FS_Subset DEF IsTable

LEMMA FunnelFits ==
    ASSUME Shape, NEW f, NEW fails, NEW s, s = FunnelStat(f), DOMAIN fails = StageLists,
           \A stage \in StageLists : fails[stage] \in FunnelReasons(f, stage)
    PROVE  /\ SumsTo(fails.fff, MaxReasons, s.total - s.allow)
           /\ SumsTo(fails.fdr, MaxReasons, s.fdrFail) /\ SumsTo(fails.fcl, MaxReasons, s.fclFail)
           /\ s.fdrSuccess + s.fdrFail <= s.allow /\ s.fdrSuccess = s.fclSuccess + s.fclFail
           /\ Funnel(s, fails).rate <= 1000
  <1> DEFINE A == Ads(f)
             T == {u \in A : ads[u].fff = "discard"}
             P == {u \in A : Passed(ads[u])}
             D == {u \in A : Dumped(ads[u])}
             N == {u \in A : FdrStageFailed(ads[u])}
             U == {u \in A : Uploaded(ads[u])}
             X == {u \in A : UploadFailed(ads[u])}
             n(Z) == Cardinality(Z)
  <1>1. IsFiniteSet(A)
    BY AdsAreFinite
  <1>2. /\ s.total = n(A) /\ s.allow = n(P) /\ s.fdrSuccess = n(D) /\ s.fdrFail = n(N)
        /\ s.fclSuccess = n(U) /\ s.fclFail = n(X)
    BY DEF FunnelStat, AdsCount, AdsWhere
  <1>3. /\ A = T \cup P /\ T \cap P = {} /\ D \cup N \subseteq P /\ D \cap N = {}
        /\ D = U \cup X /\ U \cap X = {}
    BY DEF Passed, Dumped, FdrStageFailed, Uploaded, UploadFailed
  <1>4. /\ {T, P, D, N, U, X} \subseteq SUBSET A
    OBVIOUS
  <1>5. /\ fails.fff \in TagLists(T, "fff")
        /\ fails.fdr \in TagLists(N, "fdr")
        /\ fails.fcl \in TagLists(X, "fcl")
    <2>1. "fff" \in StageLists /\ "fdr" \in StageLists /\ "fcl" \in StageLists
      BY DEF StageLists
    <2>2. /\ fails.fff \in FunnelReasons(f, "fff") /\ fails.fdr \in FunnelReasons(f, "fdr")
          /\ fails.fcl \in FunnelReasons(f, "fcl")
      BY <2>1
    <2>3. QED
      BY <2>2 DEF FunnelReasons, Reasons, AdsWhere, TagLists
  <1> HIDE DEF A, T, P, D, N, U, X
  <1>6. /\ n(A) = n(T) + n(P) /\ n(D) + n(N) <= n(P) /\ n(D) = n(U) + n(X)
        /\ n(A) \in Nat /\ n(T) \in Nat /\ n(P) \in Nat /\ n(D) \in Nat /\ n(N) \in Nat
        /\ n(U) \in Nat /\ n(X) \in Nat
        /\ IsFiniteSet(T) /\ IsFiniteSet(N) /\ IsFiniteSet(X)
    <2>1. D \cup N \in SUBSET A
      BY <1>4
    <2>2. n(D \cup N) = n(D) + n(N) /\ n(D \cup N) <= n(P)
      BY <1>1, <1>3, <1>4, <2>1, CountParts
    <2>3. QED
      BY <1>1, <1>3, <1>4, <2>2, CountParts
  <1>7. /\ SumsTo(fails.fff, MaxReasons, n(T)) /\ SumsTo(fails.fdr, MaxReasons, n(N))
        /\ SumsTo(fails.fcl, MaxReasons, n(X))
        /\ Total(fails.fdr) \in Nat /\ Total(fails.fdr) <= n(N)
        /\ Among(fails.fdr, NormalDiscards) \in Nat /\ Among(fails.fdr, NormalDiscards) <= Total(fails.fdr)
        /\ Among(fails.fcl, Intercepts) \in Nat
    BY <1>5, <1>6, TagsSumTo, AmongIsPart
  <1>8. Funnel(s, fails).rate <= 1000
    <2> DEFINE dumps == DumpsDue(s, fails)
               uploads == UploadsDue(s, fails)
    <2>1. dumps \in Nat /\ n(D) <= dumps
      BY <1>2, <1>6, <1>7 DEF DumpsDue
    <2>2. uploads \in Nat /\ n(U) <= uploads
      <3> DEFINE left == s.fclFail - Among(fails.fcl, Intercepts)
      <3>1. left \in Int /\ 0 \in Int
        BY <1>2, <1>6, <1>7
      <3> HIDE DEF left
      <3>2. Max({left, 0}) \in Int /\ 0 <= Max({left, 0})
        BY <3>1, MaxOfTwo, Zenon
      <3>3. uploads = n(U) + Max({left, 0})
        BY <1>2 DEF UploadsDue, left
      <3>4. QED
        BY <1>6, <3>2, <3>3
    <2>3. Funnel(s, fails).rate = IF dumps > 0 /\ uploads > 0
                                  THEN Pct(n(D) * n(U), dumps * uploads) ELSE 0
      BY <1>2 DEF Funnel
    <2> HIDE DEF dumps, uploads
    <2>4. n(D) * n(U) \in Nat /\ dumps * uploads \in Nat /\ n(D) * n(U) <= dumps * uploads
      BY <1>6, <2>1, <2>2, ProductsGrow
    <2>5. QED
      BY <2>3, <2>4, RateOfPart
  <1>9. s.total - s.allow = n(T)
    BY <1>2, <1>6
  <1>10. QED
    BY <1>2, <1>6, <1>7, <1>8, <1>9

LEMMA DoFunnelFits ==
    ASSUME Shape, NEW f, NEW fails, NEW s, s = DoFunnelStat(f), DOMAIN fails = StageLists,
           \A stage \in StageLists : fails[stage] \in DoFunnelReasons(f, stage)
    PROVE  /\ SumsTo(fails.fdr, MaxReasons, s.fdrFail) /\ SumsTo(fails.fcl, MaxReasons, s.fclFail)
           /\ s.fclSuccess <= s.fdrSuccess /\ s.fdrSuccess <= s.allow /\ s.allow <= s.total
           /\ s.fclSuccess + s.fclFail <= s.total
           /\ DoFunnel(s, fails).rate <= 1000
  <1> DEFINE A == Ads(f)
             P == {u \in A : "success" \in {ads[u].fff, ads[u].fdr, ads[u].fcl}}
             D == {u \in A : "success" \in {ads[u].fdr, ads[u].fcl}}
             N == {u \in A : ads[u].fdr = "discard"}
             U == {u \in A : ads[u].fcl = "success"}
             X == {u \in A : ads[u].fcl = "discard"}
             n(Z) == Cardinality(Z)
  <1>1. IsFiniteSet(A)
    BY AdsAreFinite
  <1>2. /\ s.total = n(A) /\ s.allow = n(P) /\ s.fdrSuccess = n(D) /\ s.fdrFail = n(N)
        /\ s.fclSuccess = n(U) /\ s.fclFail = n(X)
    BY DEF DoFunnelStat, AdsCount, AdsWhere
  <1>3. U \subseteq D /\ D \subseteq P /\ U \cap X = {}
    OBVIOUS
  <1>4. {P, D, N, U, X, U \cup X, A} \subseteq SUBSET A
    OBVIOUS
  <1>5. /\ fails.fdr \in TagLists(N, "fdr")
        /\ fails.fcl \in TagLists(X, "fcl")
    <2>1. "fdr" \in StageLists /\ "fcl" \in StageLists
      BY DEF StageLists
    <2>2. fails.fdr \in DoFunnelReasons(f, "fdr") /\ fails.fcl \in DoFunnelReasons(f, "fcl")
      BY <2>1
    <2>3. QED
      BY <2>2 DEF DoFunnelReasons, Reasons, AdsWhere, TagLists
  <1> HIDE DEF A, P, D, N, U, X
  <1>6. /\ n(U) <= n(D) /\ n(D) <= n(P) /\ n(P) <= n(A) /\ n(U) + n(X) <= n(A)
        /\ n(A) \in Nat /\ n(P) \in Nat /\ n(D) \in Nat /\ n(U) \in Nat /\ n(X) \in Nat
        /\ IsFiniteSet(N) /\ IsFiniteSet(X)
    <2>1. n(U \cup X) = n(U) + n(X) /\ n(U \cup X) <= n(A)
      BY <1>1, <1>3, <1>4, CountParts
    <2>2. QED
      BY <1>1, <1>3, <1>4, <2>1, CountParts
  <1>7. SumsTo(fails.fdr, MaxReasons, n(N)) /\ SumsTo(fails.fcl, MaxReasons, n(X))
    BY <1>5, <1>6, TagsSumTo
  <1>8. DoFunnel(s, fails).rate <= 1000
    <2>1. n(U) <= n(A)
      BY <1>6
    <2>2. QED
      BY <1>2, <1>6, <2>1, RateOfPart DEF DoFunnel
  <1>9. QED
    BY <1>2, <1>6, <1>7, <1>8

-----------------------------------------------------------------------------
(* Answers that are still true                                             *)

LEMMA FunnelsStay ==
    ASSUME ads' = ads, op' = op, ask' = ask, op \in {"funnel", "do_funnel"}, NEW q
    PROVE  Found(q)' = Found(q)
  <1>1. Ads(ask.f)' = Ads(ask.f)
    BY DEF Ads, RowsOf
  <1>2. FunnelStat(ask.f)' = FunnelStat(ask.f) /\ DoFunnelStat(ask.f)' = DoFunnelStat(ask.f)
    BY <1>1 DEF FunnelStat, DoFunnelStat, AdsCount, AdsWhere
  <1>3. FunnelReasons(ask.f, q)' = FunnelReasons(ask.f, q)
    BY <1>1 DEF FunnelReasons, Reasons, AdsWhere, CountBy, Tops
  <1>4. DoFunnelReasons(ask.f, q)' = DoFunnelReasons(ask.f, q)
    BY <1>1 DEF DoFunnelReasons, Reasons, AdsWhere, CountBy, Tops
  <1>5. QED
    BY <1>2, <1>3, <1>4 DEF Found

LEMMA FilterTrendsStay ==
    ASSUME ads' = ads, op' = op, ask' = ask, op = "trend"
    PROVE  Found("detail")' = Found("detail")
  <1>1. Ads(ask.f)' = Ads(ask.f)
    BY DEF Ads, RowsOf
  <1>2. FilterTrend(ask.f)' = FilterTrend(ask.f)
    BY <1>1 DEF FilterTrend, AdsCount, AdsWhere
  <1>3. QED
    BY <1>2 DEF Found

LEMMA StageTrendsStay ==
    ASSUME cube' = cube, op' = op, ask' = ask, op = "trend", NEW q, q # "detail"
    PROVE  Found(q)' = Found(q)
  <1>1. /\ AggCommon("overview", [ask.f EXCEPT !.filter = None])' = AggCommon("overview", [ask.f EXCEPT !.filter = None])
        /\ AggCommon("reason", [ask.f EXCEPT !.filter = None])' = AggCommon("reason", [ask.f EXCEPT !.filter = None])
    BY DEF AggCommon, Parts, RowsOf
  <1>2. \A stage : TrendCounts(ask.f, stage)' = TrendCounts(ask.f, stage)
    BY <1>1 DEF TrendCounts, SumWhere
  <1>3. \A parts, stage : CubeReasons(stage, parts)' = CubeReasons(stage, parts)
    BY DEF CubeReasons, WithReason, CountBy
  <1>4. \A parts, stage : WithReason(stage, parts)' = WithReason(stage, parts)
    BY DEF WithReason
  <1>5. TrendReasons(ask.f)' = TrendReasons(ask.f)
    BY <1>1, <1>3, <1>4 DEF TrendReasons
  <1>6. QED
    BY <1>2, <1>5 DEF Found

LEMMA QualitiesStay ==
    ASSUME cube' = cube, ads' = ads, op' = op, ask' = ask, op \in {"quality", "tool_overview"}, NEW q
    PROVE  Found(q)' = Found(q)
  <1>1. \A grain : /\ AggCommon(grain, ask.f)' = AggCommon(grain, ask.f)
                   /\ SummaryCommon(grain, ask.f)' = SummaryCommon(grain, ask.f)
    BY DEF AggCommon, SummaryCommon, Parts, RowsOf
  <1>2. FffOverview(ask.f)' = FffOverview(ask.f)
    BY <1>1 DEF FffOverview, SumWhere, TriggeredFilters, Parts, RowsOf
  <1>3. QualitySummary(ask.f)' = QualitySummary(ask.f)
    BY <1>1 DEF QualitySummary, SumWhere
  <1>4. QualityAds(ask.f)' = QualityAds(ask.f)
    BY DEF QualityAds, AdsOfAnyFilter, Ads, AdsCount, AdsWhere, RowsOf
  <1>5. FclUploads(ask.f)' = FclUploads(ask.f)
    BY <1>1 DEF FclUploads, SumWhere
  <1>6. QED
    BY <1>2, <1>3, <1>4, <1>5 DEF Found

LEMMA ListsStay ==
    ASSUME status' = status, op' = op, ask' = ask, op = "list", NEW q,
           NamesGot' = NamesGot \/ ask.list # "running"
    PROVE  Found(q)' = Found(q)
  <1>1. StageRows(ask)' = StageRows(ask) /\ UuidRows(ask)' = UuidRows(ask)
    BY DEF StageRows, UuidRows, RowsOf
  <1>2. CloseRows(ask)' = CloseRows(ask)
    BY DEF CloseRows
  <1>3. ListRows(ask, NamesGot)' = ListRows(ask, NamesGot)
    <2>1. CASE NamesGot' = NamesGot
      BY <1>1, <1>2, <2>1 DEF ListRows
    <2>2. CASE ask.list # "running"
      BY <1>1, <1>2, <2>2 DEF ListRows
    <2>3. QED
      BY <2>1, <2>2
  <1>4. PagesOf(ListRows(ask, NamesGot), ask)' = PagesOf(ListRows(ask, NamesGot), ask)
    BY <1>3
  <1>5. QED
    BY <1>3, <1>4 DEF Found

\* What the answers of an endpoint were found in and nothing has written since
Untouched(q) ==
    CASE op \in {"funnel", "do_funnel"} -> Unwritten("ads")
      [] op = "trend" -> IF q = "detail" THEN Unwritten("ads") ELSE Unwritten("cube")
      [] op \in {"quality", "tool_overview"} -> late = <<>>
      [] op = "list" -> Unwritten("status")
      [] OTHER -> FALSE

\* Answers of one query, found whenever, are still answers to it: no other query came
\* between, the names of filters excepted, which a list waits for.
AnswersInv ==
    op # "tool_overview" \/ "lost" \notin DOMAIN got =>
        \A q \in DOMAIN got \ {"answers", "names", "reasons", "lost"} :
            /\ Untouched(q) => got[q] \in Found(q)
            /\ op = "list" /\ ask.list = "running" => "names" \in DOMAIN got

LEMMA AnswersHold ==
    ASSUME Base, AnswersInv, [Next]_vars
    PROVE  AnswersInv'
  <1>0. Shape /\ WellFormed
    BY DEF Base
  <1> SUFFICES ASSUME op' # "tool_overview" \/ "lost" \notin DOMAIN got',
                      NEW q \in DOMAIN got', q \notin {"answers", "names", "reasons", "lost"}
               PROVE  /\ Untouched(q)' => got'[q] \in Found(q)'
                      /\ op' = "list" /\ ask'.list = "running" => "names" \in DOMAIN got'
    BY DEF AnswersInv
  <1>1. Noted /\ Kept
    <2>1. ~Begins
      BY DEF Begins
    <2>2. QED
      BY <1>0, <2>1, Steps
  <1>2. /\ op' = op /\ ask' = ask /\ (op # "tool_overview" \/ "lost" \notin DOMAIN got)
        /\ "names" \in DOMAIN got => "names" \in DOMAIN got' /\ got'.names = got.names
    BY <1>1 DEF Kept
  <1>3. ASSUME Untouched(q)', NamesGot' = NamesGot \/ op # "list" \/ ask.list # "running"
        PROVE  Untouched(q) /\ Found(q)' = Found(q)
    <2>1. CASE op \in {"funnel", "do_funnel"}
      BY <1>1, <1>2, <1>3, <2>1, FunnelsStay DEF Untouched, Noted
    <2>2. CASE op = "trend" /\ q = "detail"
      BY <1>1, <1>2, <1>3, <2>2, FilterTrendsStay DEF Untouched, Noted
    <2>3. CASE op = "trend" /\ q # "detail"
      BY <1>1, <1>2, <1>3, <2>3, StageTrendsStay DEF Untouched, Noted
    <2>4. CASE op \in {"quality", "tool_overview"}
      BY <1>1, <1>2, <1>3, <2>4, QualitiesStay DEF Untouched, Noted
    <2>5. CASE op = "list"
      BY <1>1, <1>2, <1>3, <2>5, ListsStay DEF Untouched, Noted
    <2>6. QED
      BY <1>2, <1>3, <2>1, <2>2, <2>3, <2>4, <2>5 DEF Untouched
  <1>4. CASE q \in DOMAIN got
    <2>1. /\ Untouched(q) => got[q] \in Found(q)
          /\ op = "list" /\ ask.list = "running" => "names" \in DOMAIN got
      BY <1>2, <1>4 DEF AnswersInv
    <2>2. got'[q] = got[q]
      BY <1>1, <1>4 DEF Kept
    <2>3. NamesGot' = NamesGot \/ op # "list" \/ ask.list # "running"
      BY <1>2, <2>1 DEF NamesGot
    <2>4. QED
      BY <1>2, <1>3, <2>1, <2>2, <2>3
  <1>5. CASE q \notin DOMAIN got
    <2>1. IsNew(q)
      <3>1. ~GivenUp(q)
        BY <1>2 DEF GivenUp
      <3>2. QED
        BY <1>0, <1>5, <3>1, NewAnswer
    <2>2. q \in Due /\ got'[q] \in Found(q)
      BY <2>1 DEF IsNew
    <2>3. op = "list" /\ ask.list = "running" => "names" \in DOMAIN got
      <3>1. SUFFICES ASSUME op = "list", ask.list = "running"
                     PROVE  "names" \in DOMAIN got
        OBVIOUS
      <3>2. PICK i \in 1 .. Len(Plan(op, ask)) :
                 /\ q \in Plan(op, ask)[i]
                 /\ \A j \in 1 .. i - 1 : Plan(op, ask)[j] \subseteq DOMAIN got
        BY <1>0, <2>2, DueIsPlanned
      <3>3. Plan(op, ask) = <<{"names"}, {"count", "page"}>>
        BY <3>1 DEF Plan
      <3>4. i = 2
        BY <3>2, <3>3
      <3>5. QED
        BY <3>2, <3>3, <3>4
    <2>4. NamesGot' = NamesGot \/ op # "list" \/ ask.list # "running"
      BY <1>2, <2>3 DEF NamesGot
    <2>5. QED
      BY <1>2, <1>3, <2>2, <2>3, <2>4
  <1>6. QED
    BY <1>4, <1>5

\* Whichever endpoint is asked and whoever writes: what each of its queries found is what
\* the query finds now, until a table it reads is written.
THEOREM AnswersAlways == Spec => []AnswersInv
  <1>1. Init => AnswersInv
    BY DEF Init, AnswersInv
  <1>2. QED
    BY <1>1, AnswersHold, Always, PTL DEF Spec

\* GetFunnel of the FO and of the DO board: four queries at the same time tell numbers
\* that fit together, whatever else is written while they are answered, as long as no
\* load of the daily table comes between.
THEOREM FunnelsAddUp == Spec => []FunnelAddsUp
  <1>1. ASSUME Base, AnswersInv, op \in {"funnel", "do_funnel"}, reply = "ok", Unwritten("ads")
        PROVE  /\ got.stat \in Found("stat") /\ DOMAIN Fails = StageLists
               /\ \A stage \in StageLists : Fails[stage] \in Found(stage) /\ Fails[stage] = got[stage]
    <2>1. Plan(op, ask) = <<{"stat", "fff", "fdr", "fcl"}>>
      BY <1>1 DEF Plan
    <2>2. {"stat", "fff", "fdr", "fcl"} \subseteq DOMAIN got
      BY <1>1, <2>1, OkHasAll DEF Base
    <2>3. \A q \in {"stat", "fff", "fdr", "fcl"} : got[q] \in Found(q)
      BY <1>1, <2>2 DEF AnswersInv, Untouched
    <2>4. QED
      BY <2>3 DEF Fails, StageLists
  <1>2. Base /\ AnswersInv => FunnelAddsUp
    <2> SUFFICES ASSUME Base, AnswersInv
                 PROVE  FunnelAddsUp
      OBVIOUS
    <2>1. ASSUME AnswerOf("funnel"), Unwritten("ads")
          PROVE  LET s == got.stat
                 IN  /\ SumsTo(got.fff, MaxReasons, s.total - s.allow)
                     /\ SumsTo(got.fdr, MaxReasons, s.fdrFail) /\ SumsTo(got.fcl, MaxReasons, s.fclFail)
                     /\ s.fdrSuccess + s.fdrFail <= s.allow /\ s.fdrSuccess = s.fclSuccess + s.fclFail
                     /\ Funnel(s, Fails).rate <= 1000
      <3>1. op = "funnel" /\ reply = "ok"
        BY <2>1 DEF AnswerOf
      <3>2. /\ got.stat = FunnelStat(ask.f) /\ DOMAIN Fails = StageLists
            /\ \A stage \in StageLists : /\ Fails[stage] \in FunnelReasons(ask.f, stage)
                                          /\ Fails[stage] = got[stage]
        BY <1>1, <2>1, <3>1 DEF Found, StageLists
      <3>3. Fails.fff = got.fff /\ Fails.fdr = got.fdr /\ Fails.fcl = got.fcl
        BY <3>2 DEF StageLists
      <3>4. QED
        BY <3>2, <3>3, FunnelFits DEF Base
    <2>2. ASSUME AnswerOf("do_funnel"), Unwritten("ads")
          PROVE  LET s == got.stat
                 IN  /\ SumsTo(got.fdr, MaxReasons, s.fdrFail) /\ SumsTo(got.fcl, MaxReasons, s.fclFail)
                     /\ s.fclSuccess <= s.fdrSuccess /\ s.fdrSuccess <= s.allow /\ s.allow <= s.total
                     /\ s.fclSuccess + s.fclFail <= s.total
                     /\ DoFunnel(s, Fails).rate <= 1000
      <3>1. op = "do_funnel" /\ reply = "ok"
        BY <2>2 DEF AnswerOf
      <3>2. /\ got.stat = DoFunnelStat(ask.f) /\ DOMAIN Fails = StageLists
            /\ \A stage \in StageLists : /\ Fails[stage] \in DoFunnelReasons(ask.f, stage)
                                          /\ Fails[stage] = got[stage]
        BY <1>1, <2>2, <3>1 DEF Found, StageLists
      <3>3. Fails.fdr = got.fdr /\ Fails.fcl = got.fcl
        BY <3>2 DEF StageLists
      <3>4. QED
        BY <3>2, <3>3, DoFunnelFits DEF Base
    <2>3. QED
      BY <2>1, <2>2 DEF FunnelAddsUp
  <1>3. QED
    BY <1>2, Always, AnswersAlways, PTL

-----------------------------------------------------------------------------
(* Details: DetailsMeetBoard                                               *)

\* A copy that is up to date for the dates of a request
LEMMA FreshRows ==
    ASSUME NEW table, NEW f, Fresh(table, f), NEW u, InDates(f, Day(u))
    PROVE  /\ u \in DOMAIN table <=> u \in DOMAIN status /\ Event(u) # Forever
           /\ u \in DOMAIN table => table[u] = status[u]
  <1> DEFINE loaded == Restrict(status, Loadable)
  <1>1. DOMAIN loaded = {v \in DOMAIN status : Event(v) # Forever} /\ \A v \in DOMAIN loaded : loaded[v] = status[v]
    BY DEF Restrict, Loadable, RowsOf, Event
  <1>2. /\ OfDates(f, DOMAIN table) = OfDates(f, DOMAIN loaded)
        /\ \A v \in OfDates(f, DOMAIN table) : table[v] = loaded[v]
    BY DEF Fresh, SameOn
  <1> HIDE DEF loaded
  <1>3. u \in OfDates(f, DOMAIN table) <=> u \in DOMAIN table
    BY DEF OfDates
  <1>4. u \in OfDates(f, DOMAIN loaded) <=> u \in DOMAIN loaded
    BY DEF OfDates
  <1>5. QED
    BY <1>1, <1>2, <1>3, <1>4

\* The rows of a list whose stage discarded are the rows the funnel explains.
LEMMA DetailsAreFunnelRows ==
    ASSUME Fresh(ads, ask.f), DatesOf(ask.f), ask.stage # <<>>, ask.stage[2] = "discard",
           ~ask.onlyFail, ask.also = {}, ask.vehicles = {}, ask.f.start # NoDay
    PROVE  {u \in UuidRows(ask) : Event(u) # Forever} =
               {u \in Ads(ask.f) : ads[u][ask.stage[1]] = "discard"}
  <1> DEFINE f == ask.f
             Of(u) == /\ InDates(f, Day(u)) /\ OrAny(f.filter, Filter(u))
                      /\ OneOf(f.events, Event(u)) /\ OfPlace(f, Ident[u])
  <1>1. f.end # NoDay
    BY DEF DatesOf
  <1>2. \A u : OfDetails(ask, u) <=> Of(u)
    BY <1>1 DEF OfDetails, InDates, InDatesOrToday, OneOf
  <1>3. \A u : u \in UuidRows(ask) <=>
                   u \in DOMAIN status /\ Of(u) /\ status[u][ask.stage[1]] = "discard"
    BY <1>2 DEF UuidRows, Meets, RowsOf
  <1>4. \A u : u \in Ads(f) <=> u \in DOMAIN ads /\ Of(u)
    BY DEF Ads, DoCommon, RowsOf, Day, Filter, Event
  <1>5. \A u : Of(u) => /\ u \in DOMAIN ads <=> u \in DOMAIN status /\ Event(u) # Forever
                        /\ u \in DOMAIN ads => ads[u] = status[u]
    BY FreshRows
  <1> HIDE DEF Of
  <1>6. QED
    BY <1>3, <1>4, <1>5

\* The lists of details: a page that was found while no stage reports has as many rows
\* as its number and the total say, though two queries found them; and the rows of a
\* list whose stage discarded are as many as the reasons of the DO funnel add up to.
THEOREM DetailsMeetTheBoard == Spec => []DetailsMeetBoard
  <1>1. Base /\ AnswersInv => DetailsMeetBoard
    <2> SUFFICES ASSUME Base, AnswersInv, op = "list", reply = "ok", Unwritten("status")
                 PROVE  DetailsMeetBoard
      BY DEF DetailsMeetBoard, AnswerOf
    <2> DEFINE rows == ListRows(ask, NamesGot)
    <2>1. {"count", "page"} \subseteq DOMAIN got
      <3>1. \A i \in 1 .. Len(Plan(op, ask)) : Plan(op, ask)[i] \subseteq DOMAIN got
        BY OkHasAll DEF Base
      <3>2. CASE ask.list = "running"
        <4>1. Plan(op, ask) = <<{"names"}, {"count", "page"}>>
          BY <3>2 DEF Plan
        <4>2. QED
          BY <3>1, <4>1
      <3>3. CASE ask.list # "running"
        <4>1. Plan(op, ask) = <<{"count", "page"}>>
          BY <3>3 DEF Plan
        <4>2. QED
          BY <3>1, <4>1
      <3>4. QED
        BY <3>2, <3>3
    <2>2. got.count \in Found("count") /\ got.page \in Found("page")
      BY <2>1 DEF AnswersInv, Untouched
    <2>3. got.count = Cardinality(rows) /\ got.page \in PagesOf(rows, ask)
      BY <2>2 DEF Found
    <2>4. Cardinality(got.page) = Max({0, Min({ask.size, got.count - (ask.page - 1) * ask.size})})
      <3> HIDE DEF rows
      <3>1. QED
        BY <2>3 DEF PagesOf, kSubset, Offset
    <2>5. ASSUME ask.list = "uuid", ask.stage # <<>>, ask.stage[2] = "discard", ~ask.onlyFail,
                 ask.also = {}, ask.vehicles = {}, ask.f.start # NoDay, Fresh(ads, ask.f),
                 NEW top \in DoFunnelReasons(ask.f, ask.stage[1])
          PROVE  SumsTo(top, MaxReasons, Cardinality({u \in UuidRows(ask) : Event(u) # Forever}))
      <3> DEFINE R == {u \in Ads(ask.f) : ads[u][ask.stage[1]] = "discard"}
      <3>1. {u \in UuidRows(ask) : Event(u) # Forever} = R
        BY <2>5, DetailsAreFunnelRows DEF Base, WellFormed
      <3>2. top \in TagLists(R, ask.stage[1])
        BY <2>5 DEF DoFunnelReasons, Reasons, AdsWhere, TagLists
      <3>3. IsFiniteSet(R)
        BY AdsAreFinite, FS_Subset DEF Base
      <3> HIDE DEF R
      <3>4. QED
        BY <3>1, <3>2, <3>3, TagsSumTo
    <2>6. QED
      BY <2>4, <2>5 DEF DetailsMeetBoard
  <1>2. QED
    BY <1>1, Always, AnswersAlways, PTL

-----------------------------------------------------------------------------
(* The summaries: CountsOnce                                               *)

\* What the conditions of a request say of a uuid, with the filter where a grain has one
OfRequest(f, grain, u) ==
    /\ InDates(f, Day(u)) /\ OneOf(f.events, Event(u)) /\ OfPlace(f, Ident[u])
    /\ grain = "filter" => OrAny(f.filter, Filter(u))
CubeRows(f, grain) == {u \in DOMAIN cube : OfRequest(f, grain, u)}

\* A grain without filters is asked for without one.
Askable(f, grain) == f \in Conditions /\ (f.filter = None \/ grain = "filter")

\* buildAggEventCondition: a uuid that a request means is met in one row, be it that of
\* its event or that of all events, and no other is met.
LEMMA PartsOnce ==
    ASSUME Shape, NEW f, NEW grain, Askable(f, grain)
    PROVE  /\ \A p \in AggCommon(grain, f) : p.u \in CubeRows(f, grain)
           /\ \A p, q \in AggCommon(grain, f) : p.u = q.u => p = q
           /\ \A u \in CubeRows(f, grain) : \E p \in AggCommon(grain, f) : p.u = u
  <1> DEFINE all == f.events = {}
  <1>1. DOMAIN cube \subseteq Uuids
    BY DEF Shape, IsTable
  <1>2. /\ f.events \subseteq Values("event") \cup Values("filter")
        /\ \A v \in Values("event") \cup Values("filter") : v # All
    BY BoardAssumption DEF Values, Conditions, Askable
  <1>3. ASSUME NEW p \in Parts(grain)
        PROVE  AggEvent(f.events, p) <=> p.all = all /\ OneOf(f.events, Event(p.u))
    <2>1. p.u \in Uuids /\ p.all \in BOOLEAN
      BY <1>1 DEF Parts, RowsOf
    <2>2. EventOf(p) = IF p.all THEN All ELSE Event(p.u)
      BY DEF EventOf, Event
    <2>3. Event(p.u) # All /\ All \notin f.events
      BY <1>2, <2>1, BoardAssumption DEF Event
    <2>4. CASE f.events = {}
      BY <2>1, <2>2, <2>3, <2>4 DEF AggEvent, OneOf
    <2>5. CASE f.events # {}
      BY <2>1, <2>2, <2>3, <2>5 DEF AggEvent, OneOf
    <2>6. QED
      BY <2>4, <2>5
  <1>4. ASSUME NEW p \in Parts(grain)
        PROVE  OrAny(f.filter, FilterOf(p)) <=> (grain = "filter" => OrAny(f.filter, Filter(p.u)))
    <2>1. p.grain = grain
      BY DEF Parts
    <2>2. FilterOf(p) = IF grain = "filter" THEN Filter(p.u) ELSE All
      BY <2>1 DEF FilterOf, Filter
    <2>3. CASE grain = "filter"
      BY <2>2, <2>3
    <2>4. CASE grain # "filter"
      BY <2>4 DEF OrAny, Askable
    <2>5. QED
      BY <2>3, <2>4
  <1>5. \A p \in Parts(grain) :
            p \in AggCommon(grain, f) <=> p.all = all /\ OfRequest(f, grain, p.u)
    BY <1>3, <1>4 DEF AggCommon, OfRequest, Day
  <1>6. \A p \in AggCommon(grain, f) : p \in Parts(grain)
    BY DEF AggCommon
  <1> HIDE DEF all
  <1>7. \A p \in AggCommon(grain, f) : p.u \in CubeRows(f, grain)
    BY <1>5, <1>6 DEF CubeRows, Parts, RowsOf
  <1>8. \A p, q \in AggCommon(grain, f) : p.u = q.u => p = q
    BY <1>5, <1>6 DEF Parts
  <1>9. ASSUME NEW u \in CubeRows(f, grain)
        PROVE  \E p \in AggCommon(grain, f) : p.u = u
    <2> DEFINE p == [u |-> u, all |-> all, grain |-> grain]
    <2>1. p \in Parts(grain) /\ p.u = u /\ p.all = all
      BY DEF CubeRows, Parts, RowsOf, all
    <2> HIDE DEF p
    <2>2. p \in AggCommon(grain, f)
      BY <1>5, <2>1 DEF CubeRows
    <2>3. QED
      BY <2>1, <2>2
  <1>10. QED
    BY <1>7, <1>8, <1>9

\* The parts with a property are as many as the uuids with it.
LEMMA PartsCount ==
    ASSUME Shape, NEW f, NEW grain, Askable(f, grain),
           NEW S \in SUBSET CubeRows(f, grain)
    PROVE  LET P == {p \in AggCommon(grain, f) : p.u \in S}
           IN  IsFiniteSet(P) /\ Cardinality(P) = Cardinality(S) /\ IsFiniteSet(S)
  <1> DEFINE P == {p \in AggCommon(grain, f) : p.u \in S}
             of == [u \in S |-> CHOOSE p \in P : p.u = u]
  <1>1. IsFiniteSet(S)
    <2>1. IsFiniteSet(Uuids) /\ S \subseteq Uuids
      BY BoardAssumption DEF CubeRows, Shape, IsTable
    <2>2. QED
      BY <2>1, FS_Subset
  <1>2. \A u \in S : \E p \in P : p.u = u
    BY PartsOnce
  <1>3. \A p, q \in P : p.u = q.u => p = q
    BY PartsOnce
  <1>4. \A p \in P : p.u \in S
    OBVIOUS
  <1> HIDE DEF P
  <1>5. /\ of \in [S -> P] /\ \A u \in S : of[u].u = u
    BY <1>2
  <1> HIDE DEF of
  <1>6. /\ \A u, v \in S : of[u] = of[v] => u = v
        /\ \A p \in P : \E u \in S : of[u] = p
    BY <1>3, <1>4, <1>5
  <1>7. IsFiniteSet(P) /\ Cardinality(P) = Cardinality(S)
    BY <1>1, <1>5, <1>6, SameCount
  <1>8. QED
    BY <1>1, <1>7 DEF P

\* The parts, and the uuids of a set, with a status
PartsWith(f, grain, stage, s) == {p \in AggCommon(grain, f) : cube[p.u][stage] = s}
UuidsWith(S, stage, s) == {u \in S : cube[u][stage] = s}

LEMMA StageCount ==
    ASSUME Shape, NEW f, NEW grain, Askable(f, grain), NEW stage, NEW s
    PROVE  /\ IsFiniteSet(PartsWith(f, grain, stage, s))
           /\ Cardinality(PartsWith(f, grain, stage, s)) =
                  Cardinality(UuidsWith(CubeRows(f, grain), stage, s))
           /\ Cardinality(UuidsWith(CubeRows(f, grain), stage, s)) \in Nat
  <1> DEFINE P == PartsWith(f, grain, stage, s)
             S == UuidsWith(CubeRows(f, grain), stage, s)
  <1>1. P = {p \in AggCommon(grain, f) : p.u \in S}
    BY PartsOnce DEF PartsWith, UuidsWith
  <1>2. S \in SUBSET CubeRows(f, grain)
    BY DEF UuidsWith
  <1>3. IsFiniteSet(P) /\ IsFiniteSet(S) /\ Cardinality(P) = Cardinality(S)
    <2> HIDE DEF P, S
    <2> QED  BY <1>1, <1>2, PartsCount
  <1>4. QED
    BY <1>3, FS_CardinalityType

AnyFilter(f) == [f EXCEPT !.filter = None]
Rows(f) == {u \in RowsOf(cube) : InDates(f, Day(u)) /\ OneOf(f.events, Event(u)) /\ OfPlace(f, Ident[u])}

LEMMA WithoutFilter ==
    ASSUME NEW f \in Conditions, NEW grain
    PROVE  /\ Askable(AnyFilter(f), grain) /\ CubeRows(AnyFilter(f), grain) = Rows(f)
           /\ SummaryCommon(grain, f) = AggCommon(grain, AnyFilter(f))
  <1> DEFINE g == AnyFilter(f)
  <1>1. /\ g \in Conditions /\ g.filter = None /\ g.start = f.start /\ g.end = f.end
        /\ g.events = f.events /\ g.project = f.project /\ g.cars = f.cars
    BY DEF AnyFilter, Conditions
  <1> HIDE DEF g
  <1>2. /\ \A day : InDates(g, day) <=> InDates(f, day)
        /\ \A row : OfPlace(g, row) <=> OfPlace(f, row)
        /\ \A v : OrAny(g.filter, v)
    BY <1>1 DEF InDates, OfPlace, OrAny
  <1>3. Askable(g, grain)
    BY <1>1 DEF Askable
  <1>4. CubeRows(g, grain) = Rows(f)
    BY <1>1, <1>2 DEF CubeRows, Rows, OfRequest, RowsOf
  <1>5. SummaryCommon(grain, f) = AggCommon(grain, g)
    BY <1>1, <1>2 DEF SummaryCommon, AggCommon
  <1>6. QED
    BY <1>3, <1>4, <1>5 DEF g

\* GetFffOverview
LEMMA OverviewOnce ==
    ASSUME Shape, NEW f \in Conditions
    PROVE  LET filtered == {u \in Rows(f) : OrAny(f.filter, Filter(u))}
               overview == FffOverview(f)
           IN  /\ overview.success = Cardinality(UuidsWith(filtered, "fff", "success"))
               /\ overview.failed = Cardinality(UuidsWith(filtered, "fff", "discard"))
               /\ overview.total = overview.success + overview.failed
               /\ overview.success \in Nat /\ overview.failed \in Nat
  <1> DEFINE filtered == {u \in Rows(f) : OrAny(f.filter, Filter(u))}
             grain == GrainForFilter(f)
             A == PartsWith(f, grain, "fff", "success")
             B == PartsWith(f, grain, "fff", "discard")
             T == {p \in AggCommon(grain, f) : cube[p.u].fff # "null"}
  <1>1. Askable(f, grain)
    BY DEF Askable, GrainForFilter
  <1>2. CubeRows(f, grain) = filtered
    BY DEF CubeRows, Rows, OfRequest, GrainForFilter, OrAny, RowsOf
  <1>3. /\ FffOverview(f).success = Cardinality(A) /\ FffOverview(f).failed = Cardinality(B)
        /\ FffOverview(f).total = Cardinality(T)
    BY DEF FffOverview, SumWhere, PartsWith
  <1>4. T = A \cup B /\ A \cap B = {}
    <2>1. \A p \in AggCommon(grain, f) : cube[p.u].fff \in {"null", "success", "discard"}
      <3>1. \A p \in AggCommon(grain, f) : p.u \in DOMAIN cube
        BY DEF AggCommon, Parts, RowsOf
      <3>2. QED
        BY <3>1 DEF Shape, IsTable, AllOutcomes
    <2>2. QED
      BY <2>1 DEF PartsWith
  <1> HIDE DEF grain, filtered, T
  <1>5. /\ IsFiniteSet(A) /\ Cardinality(A) = Cardinality(UuidsWith(filtered, "fff", "success"))
        /\ IsFiniteSet(B) /\ Cardinality(B) = Cardinality(UuidsWith(filtered, "fff", "discard"))
    BY <1>1, <1>2, StageCount
  <1> HIDE DEF A, B
  <1>6. /\ Cardinality(T) = Cardinality(A) + Cardinality(B)
        /\ Cardinality(A) \in Nat /\ Cardinality(B) \in Nat
    BY <1>4, <1>5, CountDisjoint
  <1>7. QED
    BY <1>3, <1>5, <1>6 DEF filtered

\* getStageTrendFromSummary, the query of a stage
LEMMA TrendOnce ==
    ASSUME Shape, NEW f \in Conditions, NEW stage
    PROVE  LET c == TrendCounts(f, stage)
           IN  /\ IsFiniteSet(DOMAIN c)
               /\ \A d \in DOMAIN c : c[d].success \in Nat /\ c[d].failed \in Nat
               /\ Total([d \in DOMAIN c |-> c[d].success + c[d].failed]) =
                      Cardinality(UuidsWith(Rows(f), stage, "success"))
                      + Cardinality(UuidsWith(Rows(f), stage, "discard"))
  <1> DEFINE g == AnyFilter(f)
             P == AggCommon("overview", g)
             D == {Day(p.u) : p \in P}
             c == TrendCounts(f, stage)
             A == PartsWith(g, "overview", stage, "success")
             B == PartsWith(g, "overview", stage, "discard")
             day == [p \in P |-> Day(p.u)]
             a == [d \in D |-> c[d].success]
             b == [d \in D |-> c[d].failed]
             s == [d \in D |-> c[d].success + c[d].failed]
  <1>1. DOMAIN c = D /\ A \subseteq P /\ B \subseteq P
    BY DEF TrendCounts, AnyFilter, PartsWith
  <1>2. \A d \in D : /\ c[d].success = Cardinality(Fibre(day, A, d))
                     /\ c[d].failed = Cardinality(Fibre(day, B, d))
    <2>1. ASSUME NEW d \in D
          PROVE  /\ c[d].success = Cardinality({p \in {q \in P : Day(q.u) = d} : cube[p.u][stage] = "success"})
                 /\ c[d].failed = Cardinality({p \in {q \in P : Day(q.u) = d} : cube[p.u][stage] = "discard"})
      BY DEF TrendCounts, AnyFilter, SumWhere
    <2>2. ASSUME NEW d \in D
          PROVE  /\ {p \in {q \in P : Day(q.u) = d} : cube[p.u][stage] = "success"} = Fibre(day, A, d)
                 /\ {p \in {q \in P : Day(q.u) = d} : cube[p.u][stage] = "discard"} = Fibre(day, B, d)
      BY DEF Fibre, PartsWith
    <2>3. QED
      BY <2>1, <2>2
  <1>3. Askable(g, "overview") /\ CubeRows(g, "overview") = Rows(f)
    BY WithoutFilter
  <1> HIDE DEF g
  <1>4. IsFiniteSet(P)
    <2>1. P = {p \in AggCommon("overview", g) : p.u \in CubeRows(g, "overview")}
      BY <1>3, PartsOnce
    <2>2. QED
      BY <1>3, <2>1, PartsCount
  <1>5. AreKeys(D, day, P)
    BY DEF AreKeys
  <1> HIDE DEF c, day, P, D
  <1>6. /\ IsFiniteSet(D) /\ Nats(a, D) /\ SumFunctionOnSet(a, D) = Cardinality(A)
    <2>1. Groups(a, day, A, D)
      BY <1>2 DEF Groups
    <2>2. A \in SUBSET P
      BY <1>1
    <2> HIDE DEF a, A
    <2>3. QED
      BY <1>4, <1>5, <2>1, <2>2, GroupsAddUp
  <1>7. Nats(b, D) /\ SumFunctionOnSet(b, D) = Cardinality(B)
    <2>1. Groups(b, day, B, D)
      BY <1>2 DEF Groups
    <2>2. B \in SUBSET P
      BY <1>1
    <2> HIDE DEF b, B
    <2>3. QED
      BY <1>4, <1>5, <2>1, <2>2, GroupsAddUp
  <1>8. \A d \in D : s[d] = a[d] + b[d]
    OBVIOUS
  <1>9. Total(s) = SumFunctionOnSet(s, D)
    BY DEF Total, SumFunction
  <1>10. \A d \in D : c[d].success \in Nat /\ c[d].failed \in Nat
    BY <1>6, <1>7 DEF Nats
  <1> HIDE DEF s, a, b
  <1>11. SumFunctionOnSet(s, D) = SumFunctionOnSet(a, D) + SumFunctionOnSet(b, D)
    BY <1>6, <1>7, <1>8, SumAdd DEF Nats, Ints
  <1>12. /\ Cardinality(A) = Cardinality(UuidsWith(Rows(f), stage, "success"))
         /\ Cardinality(B) = Cardinality(UuidsWith(Rows(f), stage, "discard"))
    BY <1>3, StageCount
  <1>13. Total(s) = Cardinality(UuidsWith(Rows(f), stage, "success"))
                    + Cardinality(UuidsWith(Rows(f), stage, "discard"))
    BY <1>6, <1>7, <1>9, <1>11, <1>12
  <1>14. QED
    BY <1>1, <1>6, <1>10, <1>13 DEF s, c

\* The reason grain of a stage: a uuid with a detail is met once.
Named(f) == {u \in Rows(f) : cube[u].why # ""}

LEMMA TagsAreNames ==
    ASSUME NEW stage \in StageLists, NEW o
    PROVE  CubeTag(stage, o) # "" <=> o[stage] = "discard" /\ o.why # ""
  <1>1. CASE stage = "fff"
    <2>1. \A w \in DOMAIN CubeNames["fff"] : CubeNames["fff"][w] # ""
      <3>1. CubeNames["fff"] = [cooldown |-> "cooldown", quota |-> "filter_quota_exceeded"]
        BY DEF CubeNames
      <3>2. /\ DOMAIN CubeNames["fff"] = {"cooldown", "quota"}
            /\ CubeNames["fff"]["cooldown"] = "cooldown"
            /\ CubeNames["fff"]["quota"] = "filter_quota_exceeded"
        BY <3>1
      <3>3. "cooldown" # "" /\ "filter_quota_exceeded" # ""
        OBVIOUS
      <3>4. QED
        BY <3>2, <3>3
    <2>2. QED
      BY <1>1, <2>1 DEF CubeTag, Tag
  <1>2. CASE stage = "fdr"
    <2>1. \A w \in DOMAIN CubeNames["fdr"] : CubeNames["fdr"][w] # ""
      <3>1. CubeNames["fdr"] = [gc |-> "full_gc", files |-> "max_files_exceeded"]
        BY DEF CubeNames
      <3>2. /\ DOMAIN CubeNames["fdr"] = {"gc", "files"}
            /\ CubeNames["fdr"]["gc"] = "full_gc"
            /\ CubeNames["fdr"]["files"] = "max_files_exceeded"
        BY <3>1
      <3>3. "full_gc" # "" /\ "max_files_exceeded" # ""
        OBVIOUS
      <3>4. QED
        BY <3>2, <3>3
    <2>2. QED
      BY <1>2, <2>1 DEF CubeTag, Tag
  <1>3. CASE stage = "fcl"
    <2>1. \A w \in DOMAIN CubeNames["fcl"] : CubeNames["fcl"][w] # ""
      <3>1. CubeNames["fcl"] = [quota |-> "filter_quota_exceeded", net |-> "http_request_failed"]
        BY DEF CubeNames
      <3>2. /\ DOMAIN CubeNames["fcl"] = {"quota", "net"}
            /\ CubeNames["fcl"]["quota"] = "filter_quota_exceeded"
            /\ CubeNames["fcl"]["net"] = "http_request_failed"
        BY <3>1
      <3>3. "filter_quota_exceeded" # "" /\ "http_request_failed" # ""
        OBVIOUS
      <3>4. QED
        BY <3>2, <3>3
    <2>2. QED
      BY <1>3, <2>1 DEF CubeTag, Tag
  <1>4. QED
    BY <1>1, <1>2, <1>3 DEF StageLists

Reasoned(f, stage) == WithReason(stage, AggCommon("reason", AnyFilter(f)))

LEMMA ReasonedOnce ==
    ASSUME Shape, NEW f \in Conditions, NEW stage \in StageLists
    PROVE  /\ IsFiniteSet(Reasoned(f, stage))
           /\ Cardinality(Reasoned(f, stage)) = Cardinality(UuidsWith(Named(f), stage, "discard"))
           /\ Cardinality(Reasoned(f, stage)) \in Nat
  <1> DEFINE g == AnyFilter(f)
             S == UuidsWith(Named(f), stage, "discard")
             P == {p \in AggCommon("reason", g) : p.u \in S}
  <1>1. Askable(g, "reason") /\ CubeRows(g, "reason") = Rows(f)
    BY WithoutFilter
  <1>2. S \in SUBSET CubeRows(g, "reason")
    BY <1>1 DEF UuidsWith, Named
  <1>3. Reasoned(f, stage) = P
    <2>1. \A p \in AggCommon("reason", g) : p.u \in Rows(f)
      BY <1>1, PartsOnce
    <2>2. \A p \in AggCommon("reason", g) : CubeTag(stage, cube[p.u]) # "" <=> p.u \in S
      BY <2>1, TagsAreNames DEF UuidsWith, Named
    <2>3. QED
      BY <2>2 DEF Reasoned, WithReason
  <1> HIDE DEF g, S
  <1>4. IsFiniteSet(P) /\ Cardinality(P) = Cardinality(S)
    BY <1>1, <1>2, PartsCount
  <1>5. Cardinality(P) \in Nat
    BY <1>4, FS_CardinalityType
  <1>6. QED
    BY <1>3, <1>4, <1>5 DEF S

TagOf(f, stage) == [p \in Reasoned(f, stage) |-> CubeTag(stage, cube[p.u])]

LEMMA ReasonsAreCounts ==
    ASSUME NEW f, NEW stage
    PROVE  CubeReasons(stage, AggCommon("reason", AnyFilter(f))) =
               Counts(Reasoned(f, stage), TagOf(f, stage))
  BY DEF CubeReasons, CountBy, Counts, Fibre, TagOf, Reasoned

\* GetFffFailReason
LEMMA FffReasonsOnce ==
    ASSUME Shape, NEW f \in Conditions
    PROVE  Total(FffFailReason(f)) = Cardinality(UuidsWith(Named(f), "fff", "discard"))
  <1>1. FffFailReason(f) = Counts(Reasoned(f, "fff"), TagOf(f, "fff"))
    BY ReasonsAreCounts DEF FffFailReason, AnyFilter
  <1>2. "fff" \in StageLists
    BY DEF StageLists
  <1>3. QED
    BY <1>1, <1>2, ReasonedOnce, CountsAddUp

\* GetFailReason puts the reasons of two stages into one list: as many as the pairs of
\* a stage and a part that has a reason there.
LEMMA DoReasonsOnce ==
    ASSUME Shape, NEW f \in Conditions
    PROVE  Total(DoFailReason(f)) =
               Cardinality(UuidsWith(Named(f), "fdr", "discard"))
               + Cardinality(UuidsWith(Named(f), "fcl", "discard"))
  <1> DEFINE R(s) == Reasoned(f, s)
             Of(s) == Counts(R(s), TagOf(f, s))
             X(s) == {s} \X R(s)
             S == X("fdr") \cup X("fcl")
             key == [x \in S |-> <<x[1], TagOf(f, x[1])[x[2]]>>]
  <1>1. ASSUME NEW s, NEW Z, IsFiniteSet(Z)
        PROVE  IsFiniteSet({s} \X Z) /\ Cardinality({s} \X Z) = Cardinality(Z)
    <2> DEFINE h == [z \in Z |-> <<s, z>>]
    <2>1. /\ h \in [Z -> {s} \X Z] /\ \A x, y \in Z : h[x] = h[y] => x = y
          /\ \A t \in {s} \X Z : \E x \in Z : h[x] = t
      OBVIOUS
    <2> HIDE DEF h
    <2>2. QED
      BY <1>1, <2>1, SameCount
  <1>2. "fdr" \in StageLists /\ "fcl" \in StageLists
    BY DEF StageLists
  <1>3. /\ IsFiniteSet(R("fdr")) /\ Cardinality(R("fdr")) = Cardinality(UuidsWith(Named(f), "fdr", "discard"))
        /\ IsFiniteSet(R("fcl")) /\ Cardinality(R("fcl")) = Cardinality(UuidsWith(Named(f), "fcl", "discard"))
    BY <1>2, ReasonedOnce
  <1> HIDE DEF R
  <1>4. /\ IsFiniteSet(X("fdr")) /\ Cardinality(X("fdr")) = Cardinality(R("fdr"))
        /\ IsFiniteSet(X("fcl")) /\ Cardinality(X("fcl")) = Cardinality(R("fcl"))
    BY <1>1, <1>3
  <1>5. IsFiniteSet(S) /\ Cardinality(S) = Cardinality(R("fdr")) + Cardinality(R("fcl"))
    <2>1. X("fdr") \cap X("fcl") = {}
      OBVIOUS
    <2> HIDE DEF X
    <2>2. QED
      BY <1>4, <2>1, CountDisjoint
  <1>6. DoFailReason(f) = Counts(S, key)
    <2> DEFINE T == UNION {{stage} \X DOMAIN Of(stage) : stage \in {"fdr", "fcl"}}
    <2>1. DoFailReason(f) = [r \in T |-> Of(r[1])[r[2]]]
      BY ReasonsAreCounts DEF DoFailReason, AnyFilter, R
    <2>2. DOMAIN Of("fdr") = {TagOf(f, "fdr")[p] : p \in R("fdr")}
          /\ DOMAIN Of("fcl") = {TagOf(f, "fcl")[p] : p \in R("fcl")}
      BY DEF Counts
    <2>3. T = ({"fdr"} \X DOMAIN Of("fdr")) \cup ({"fcl"} \X DOMAIN Of("fcl"))
      OBVIOUS
    <2>4. {key[x] : x \in S} = T
      <3> HIDE DEF T
      <3>1. {key[x] : x \in S} = {key[x] : x \in X("fdr")} \cup {key[x] : x \in X("fcl")}
        OBVIOUS
      <3>2. {key[x] : x \in X("fdr")} = {"fdr"} \X {TagOf(f, "fdr")[p] : p \in R("fdr")}
        <4>1. \A p \in R("fdr") : key[<<"fdr", p>>] = <<"fdr", TagOf(f, "fdr")[p]>>
          OBVIOUS
        <4>2. /\ \A p \in R("fdr") : <<"fdr", p>> \in X("fdr")
              /\ \A x \in X("fdr") : \E p \in R("fdr") : x = <<"fdr", p>>
          OBVIOUS
        <4> HIDE DEF key, X
        <4> DEFINE X0 == X("fdr")
                   R0 == R("fdr")
                   T0 == TagOf(f, "fdr")
        <4> HIDE DEF X0, R0, T0
        <4>3. ASSUME NEW y
              PROVE  (\E x \in X0 : y = key[x]) <=> (\E p \in R0 : y = <<"fdr", T0[p]>>)
          <5>1. ASSUME NEW x \in X0
                PROVE  \E p \in R0 : key[x] = <<"fdr", T0[p]>>
            <6>1. PICK p \in R0 : x = <<"fdr", p>>
              BY <4>2 DEF X0, R0
            <6>2. key[<<"fdr", p>>] = <<"fdr", T0[p]>>
              BY <4>1 DEF R0, T0
            <6>3. QED
              BY <6>1, <6>2
          <5>2. ASSUME NEW p \in R0
                PROVE  \E x \in X0 : key[x] = <<"fdr", T0[p]>>
            <6>1. <<"fdr", p>> \in X0 /\ key[<<"fdr", p>>] = <<"fdr", T0[p]>>
              BY <4>1, <4>2 DEF X0, R0, T0
            <6>2. QED
              BY <6>1
          <5>3. QED
            BY <5>1, <5>2
        <4>4. {key[x] : x \in X0} = {<<"fdr", T0[p]>> : p \in R0}
          BY <4>3
        <4>5. {<<"fdr", T0[p]>> : p \in R0} = {"fdr"} \X {T0[p] : p \in R0}
          OBVIOUS
        <4>6. QED
          BY <4>4, <4>5 DEF X0, R0, T0
      <3>3. {key[x] : x \in X("fcl")} = {"fcl"} \X {TagOf(f, "fcl")[p] : p \in R("fcl")}
        <4>1. \A p \in R("fcl") : key[<<"fcl", p>>] = <<"fcl", TagOf(f, "fcl")[p]>>
          OBVIOUS
        <4>2. /\ \A p \in R("fcl") : <<"fcl", p>> \in X("fcl")
              /\ \A x \in X("fcl") : \E p \in R("fcl") : x = <<"fcl", p>>
          OBVIOUS
        <4> HIDE DEF key, X
        <4> DEFINE X0 == X("fcl")
                   R0 == R("fcl")
                   T0 == TagOf(f, "fcl")
        <4> HIDE DEF X0, R0, T0
        <4>3. ASSUME NEW y
              PROVE  (\E x \in X0 : y = key[x]) <=> (\E p \in R0 : y = <<"fcl", T0[p]>>)
          <5>1. ASSUME NEW x \in X0
                PROVE  \E p \in R0 : key[x] = <<"fcl", T0[p]>>
            <6>1. PICK p \in R0 : x = <<"fcl", p>>
              BY <4>2 DEF X0, R0
            <6>2. key[<<"fcl", p>>] = <<"fcl", T0[p]>>
              BY <4>1 DEF R0, T0
            <6>3. QED
              BY <6>1, <6>2
          <5>2. ASSUME NEW p \in R0
                PROVE  \E x \in X0 : key[x] = <<"fcl", T0[p]>>
            <6>1. <<"fcl", p>> \in X0 /\ key[<<"fcl", p>>] = <<"fcl", T0[p]>>
              BY <4>1, <4>2 DEF X0, R0, T0
            <6>2. QED
              BY <6>1
          <5>3. QED
            BY <5>1, <5>2
        <4>4. {key[x] : x \in X0} = {<<"fcl", T0[p]>> : p \in R0}
          BY <4>3
        <4>5. {<<"fcl", T0[p]>> : p \in R0} = {"fcl"} \X {T0[p] : p \in R0}
          OBVIOUS
        <4>6. QED
          BY <4>4, <4>5 DEF X0, R0, T0
      <3>4. QED
        BY <2>2, <2>3, <3>1, <3>2, <3>3
    <2>5. ASSUME NEW s \in {"fdr", "fcl"}, NEW t \in DOMAIN Of(s)
          PROVE  Cardinality(Fibre(key, S, <<s, t>>)) = Of(s)[t]
      <3>1. Of(s)[t] = Cardinality(Fibre(TagOf(f, s), R(s), t))
        BY <2>5 DEF Counts
      <3>2. Fibre(key, S, <<s, t>>) = {s} \X Fibre(TagOf(f, s), R(s), t)
        BY DEF Fibre
      <3>3. IsFiniteSet(R(s))
        BY <1>3
      <3>4. IsFiniteSet(Fibre(TagOf(f, s), R(s), t))
        BY <3>3, FS_Subset DEF Fibre
      <3> DEFINE F == Fibre(TagOf(f, s), R(s), t)
      <3> HIDE DEF F
      <3>5. Cardinality({s} \X F) = Cardinality(F)
        BY <1>1, <3>4 DEF F
      <3> HIDE DEF key, S, Of
      <3>6. QED
        BY <3>1, <3>2, <3>5 DEF F
    <2>6. \A r \in T : Of(r[1])[r[2]] = Cardinality(Fibre(key, S, r))
      <3>1. \A r \in T : r[1] \in {"fdr", "fcl"} /\ r[2] \in DOMAIN Of(r[1]) /\ r = <<r[1], r[2]>>
        OBVIOUS
      <3> HIDE DEF T, Of, key, S
      <3>2. QED
        BY <2>5, <3>1
    <2> HIDE DEF T, key, S, Of
    <2>7. QED
      BY <2>1, <2>4, <2>6 DEF Counts
  <1> HIDE DEF S, key
  <1>7. Total(DoFailReason(f)) = Cardinality(S)
    BY <1>5, <1>6, CountsAddUp
  <1>8. QED
    BY <1>3, <1>5, <1>7

\* GetFdrQuality and GetFclQuality, what they count of the summaries
LEMMA QualitiesOnce ==
    ASSUME Shape, NEW f \in Conditions
    PROVE  /\ QualitySummary(f).fdrSuccess = Cardinality(UuidsWith(Rows(f), "fdr", "success"))
           /\ FclUploads(f) = Cardinality(UuidsWith(Rows(f), "fcl", "success"))
  <1> DEFINE g == AnyFilter(f)
  <1>1. /\ Askable(g, "overview") /\ CubeRows(g, "overview") = Rows(f)
        /\ SummaryCommon("overview", f) = AggCommon("overview", g)
    BY WithoutFilter
  <1> HIDE DEF g
  <1>2. /\ QualitySummary(f).fdrSuccess = Cardinality(PartsWith(g, "overview", "fdr", "success"))
        /\ FclUploads(f) = Cardinality(PartsWith(g, "overview", "fcl", "success"))
    BY <1>1 DEF QualitySummary, FclUploads, SumWhere, PartsWith
  <1>3. QED
    BY <1>1, <1>2, StageCount

\* A request that a use case passes on
LEMMA AcceptedAre ==
    ASSUME NEW f \in Accepted
    PROVE  f \in Conditions /\ DatesOf(f)
  <1>1. PICK g \in Asked : NormalizeDates(g) # <<>> /\ f = NormalizeDates(g)[1]
    BY DEF Accepted
  <1>2. g \in Conditions
    BY BoardAssumption
  <1>3. QED
    BY <1>1, <1>2, NormalizedDates

\* The summaries: the overview of FFF, the stage trends, the reasons of both boards and
\* the qualities of dump and upload count each event once, although a summary holds it at
\* several grains and again under "__ALL__".
THEOREM EventsAreCountedOnce == Spec => []CountsOnce
  <1>1. ASSUME Shape, NEW f \in Accepted
        PROVE  LET rows == {u \in RowsOf(cube) : InDates(f, Day(u)) /\ OneOf(f.events, Event(u)) /\ OfPlace(f, Ident[u])}
                   filtered == {u \in rows : OrAny(f.filter, Filter(u))}
                   is(set, stage, s) == Cardinality({u \in set : cube[u][stage] = s})
                   named == {u \in rows : cube[u].why # ""}
                   overview == FffOverview(f)
                   trend(stage) == LET c == TrendCounts(f, stage)
                                   IN  Total([d \in DOMAIN c |-> c[d].success + c[d].failed])
                   ended(stage) == is(rows, stage, "success") + is(rows, stage, "discard")
               IN  /\ overview.success = is(filtered, "fff", "success")
                   /\ overview.failed = is(filtered, "fff", "discard")
                   /\ overview.total = overview.success + overview.failed
                   /\ \A stage \in StageLists : trend(stage) = ended(stage)
                   /\ Total(FffFailReason(f)) = is(named, "fff", "discard")
                   /\ Total(DoFailReason(f)) = is(named, "fdr", "discard") + is(named, "fcl", "discard")
                   /\ QualitySummary(f).fdrSuccess = is(rows, "fdr", "success")
                   /\ FclUploads(f) = is(rows, "fcl", "success")
    <2> DEFINE filtered == {u \in Rows(f) : OrAny(f.filter, Filter(u))}
               trend(stage) == LET c == TrendCounts(f, stage)
                               IN  Total([d \in DOMAIN c |-> c[d].success + c[d].failed])
    <2>1. f \in Conditions
      BY AcceptedAre
    <2>2. /\ FffOverview(f).success = Cardinality(UuidsWith(filtered, "fff", "success"))
          /\ FffOverview(f).failed = Cardinality(UuidsWith(filtered, "fff", "discard"))
          /\ FffOverview(f).total = FffOverview(f).success + FffOverview(f).failed
      BY <1>1, <2>1, OverviewOnce
    <2>3. \A stage : trend(stage) = Cardinality(UuidsWith(Rows(f), stage, "success"))
                                    + Cardinality(UuidsWith(Rows(f), stage, "discard"))
      BY <1>1, <2>1, TrendOnce
    <2>4. /\ Total(FffFailReason(f)) = Cardinality(UuidsWith(Named(f), "fff", "discard"))
          /\ Total(DoFailReason(f)) = Cardinality(UuidsWith(Named(f), "fdr", "discard"))
                                      + Cardinality(UuidsWith(Named(f), "fcl", "discard"))
          /\ QualitySummary(f).fdrSuccess = Cardinality(UuidsWith(Rows(f), "fdr", "success"))
          /\ FclUploads(f) = Cardinality(UuidsWith(Rows(f), "fcl", "success"))
      BY <1>1, <2>1, FffReasonsOnce, DoReasonsOnce, QualitiesOnce
    <2>5. QED
      BY <2>2, <2>3, <2>4 DEF UuidsWith, Named, Rows
  <1>2. Base => CountsOnce
    BY <1>1 DEF CountsOnce, AtRest, Base
  <1>3. QED
    BY <1>2, Always, PTL

-----------------------------------------------------------------------------
(* The daily table: BoardsAgree                                            *)

LEMMA ListsSumTo ==
    ASSUME NEW R, IsFiniteSet(R), NEW key, NEW n \in Nat, NEW top \in Tops(Counts(R, key), n)
    PROVE  SumsTo(top, n, Cardinality(R)) /\ \A k \in DOMAIN top : top[k] = Cardinality(Fibre(key, R, k))
  <1> DEFINE c == Counts(R, key)
  <1>1. IsFiniteSet(DOMAIN c)
    BY CountsAddUp
  <1>2. IsTop(top, n, c)
    <2> HIDE DEF c
    <2> QED  BY <1>1, TopsAreOf DEF c
  <1>3. \A k \in DOMAIN top : top[k] = Cardinality(Fibre(key, R, k))
    BY <1>2 DEF IsTop, Counts
  <1>4. QED
    BY <1>2, <1>3, TopsSumTo

\* The lists of filters, events and versions that are counted from a set of rows
FilterLists(R, n) == Tops(CountBy(R, Filter), n)
EventLists(R, n) == Tops(CountBy(R, Event), n)
VersionLists(R, n) == Tops(CountBy(R, LAMBDA u : Ident[u].version), n)

LEMMA ListedRows ==
    ASSUME NEW R, IsFiniteSet(R), NEW n \in Nat,
           NEW top \in FilterLists(R, n) \cup EventLists(R, n) \cup VersionLists(R, n)
    PROVE  SumsTo(top, n, Cardinality(R))
  <1>1. CASE top \in FilterLists(R, n)
    <2> DEFINE key == [u \in R |-> Filter(u)]
    <2>1. CountBy(R, Filter) = Counts(R, key)
      BY DEF CountBy, Counts, Fibre
    <2> HIDE DEF key
    <2>2. QED
      BY <1>1, <2>1, ListsSumTo DEF FilterLists
  <1>2. CASE top \in EventLists(R, n)
    <2> DEFINE key == [u \in R |-> Event(u)]
    <2>1. CountBy(R, Event) = Counts(R, key)
      BY DEF CountBy, Counts, Fibre
    <2> HIDE DEF key
    <2>2. QED
      BY <1>2, <2>1, ListsSumTo DEF EventLists
  <1>3. CASE top \in VersionLists(R, n)
    <2> DEFINE key == [u \in R |-> Ident[u].version]
    <2>1. CountBy(R, LAMBDA u : Ident[u].version) = Counts(R, key)
      BY DEF CountBy, Counts, Fibre
    <2> HIDE DEF key
    <2>2. QED
      BY <1>3, <2>1, ListsSumTo DEF VersionLists
  <1>4. QED
    BY <1>1, <1>2, <1>3

\* An entry of a list of reasons is the number of rows that have it.
LEMMA TaggedRows ==
    ASSUME NEW R, IsFiniteSet(R), NEW stage, NEW r \in TagLists(R, stage), NEW tag,
           NEW n, n = At(r, tag, 0), n > 0
    PROVE  n = Cardinality({u \in R : AdsTag(stage, ads[u]) = tag})
  <1> DEFINE key == [u \in R |-> AdsTag(stage, ads[u])]
  <1>1. CountBy(R, LAMBDA u : AdsTag(stage, ads[u])) = Counts(R, key)
    BY DEF CountBy, Counts, Fibre
  <1>2. Fibre(key, R, tag) = {u \in R : AdsTag(stage, ads[u]) = tag}
    BY DEF Fibre
  <1>3. tag \in DOMAIN r /\ n = r[tag]
    BY DEF At
  <1>4. MaxReasons \in Nat
    BY BoardAssumption
  <1> HIDE DEF key
  <1>5. r[tag] = Cardinality(Fibre(key, R, tag))
    BY <1>1, <1>3, <1>4, ListsSumTo DEF TagLists
  <1>6. QED
    BY <1>2, <1>3, <1>5

\* The rows of a request, by event and by date
LEMMA RowsByKey ==
    ASSUME NEW A, IsFiniteSet(A), NEW B \in SUBSET A, NEW key,
           NEW K, AreKeys(K, key, A), NEW n, DOMAIN n = K, Groups(n, key, B, K)
    PROVE  Total(n) = Cardinality(B)
  <1>1. Total(n) = SumFunctionOnSet(n, K)
    BY DEF Total, SumFunction
  <1>2. QED
    BY <1>1, GroupsAddUp

\* GetOverview, GetTrend and the stage trend of a filter
LEMMA GroupedBoards ==
    ASSUME Shape, NEW f
    PROVE  LET overview == OverviewCounts(f)
               trend == DoTrend(f)
               stages == FilterTrend(f)
               uploaded == AdsCount(Ads(f), Uploaded)
           IN  /\ Total([e \in DOMAIN overview |-> overview[e].trigger]) = Cardinality(Ads(f))
               /\ Total([d \in DOMAIN trend |-> trend[d].total]) = Cardinality(Ads(f))
               /\ Total([e \in DOMAIN overview |-> overview[e].fcl]) = uploaded
               /\ Total([d \in DOMAIN trend |-> trend[d].success]) = uploaded
               /\ Total([d \in DOMAIN stages |-> stages[d].fcl["success"]]) = uploaded
  <1> DEFINE A == Ads(f)
             U == {u \in A : Uploaded(ads[u])}
             ev == [u \in A |-> Event(u)]
             da == [u \in A |-> Day(u)]
             E == {Event(u) : u \in A}
             D == {Day(u) : u \in A}
             overview == OverviewCounts(f)
             trend == DoTrend(f)
             stages == FilterTrend(f)
             n1 == [e \in DOMAIN overview |-> overview[e].trigger]
             n2 == [d \in DOMAIN trend |-> trend[d].total]
             n3 == [e \in DOMAIN overview |-> overview[e].fcl]
             n4 == [d \in DOMAIN trend |-> trend[d].success]
             n5 == [d \in DOMAIN stages |-> stages[d].fcl["success"]]
  <1>1. IsFiniteSet(A) /\ U \in SUBSET A /\ A \in SUBSET A
    BY AdsAreFinite
  <1>2. DOMAIN overview = E /\ DOMAIN trend = D /\ DOMAIN stages = D
    BY DEF OverviewCounts, DoTrend, FilterTrend
  <1>3. AreKeys(E, ev, A) /\ AreKeys(D, da, A)
    BY DEF AreKeys
  <1>4. ASSUME NEW e \in E
        PROVE  /\ overview[e].trigger = Cardinality(Fibre(ev, A, e))
               /\ overview[e].fcl = Cardinality(Fibre(ev, U, e))
    <2>1. /\ overview[e].trigger = Cardinality({u \in A : Event(u) = e})
          /\ overview[e].fcl = Cardinality({u \in {v \in A : Event(v) = e} : Uploaded(ads[u])})
      BY DEF OverviewCounts, StagesOf, AdsCount, AdsWhere
    <2>2. /\ {u \in A : Event(u) = e} = Fibre(ev, A, e)
          /\ {u \in {v \in A : Event(v) = e} : Uploaded(ads[u])} = Fibre(ev, U, e)
      BY DEF Fibre
    <2>3. QED
      BY <2>1, <2>2
  <1>5. ASSUME NEW d \in D
        PROVE  /\ trend[d].total = Cardinality(Fibre(da, A, d))
               /\ trend[d].success = Cardinality(Fibre(da, U, d))
               /\ stages[d].fcl["success"] = Cardinality(Fibre(da, U, d))
    <2>1. /\ trend[d].total = Cardinality({u \in A : Day(u) = d})
          /\ trend[d].success = Cardinality({u \in {v \in A : Day(v) = d} : Uploaded(ads[u])})
      BY DEF DoTrend, StagesOf, AdsCount, AdsWhere
    <2>2. stages[d].fcl["success"] = Cardinality({u \in {v \in A : Day(v) = d} : Uploaded(ads[u])})
      BY DEF FilterTrend, NamesOf, AdsCount, AdsWhere
    <2>3. /\ {u \in A : Day(u) = d} = Fibre(da, A, d)
          /\ {u \in {v \in A : Day(v) = d} : Uploaded(ads[u])} = Fibre(da, U, d)
      BY DEF Fibre
    <2>4. QED
      BY <2>1, <2>2, <2>3
  <1>6. /\ DOMAIN n1 = E /\ Groups(n1, ev, A, E) /\ DOMAIN n2 = D /\ Groups(n2, da, A, D)
        /\ DOMAIN n3 = E /\ Groups(n3, ev, U, E) /\ DOMAIN n4 = D /\ Groups(n4, da, U, D)
        /\ DOMAIN n5 = D /\ Groups(n5, da, U, D)
    <2> HIDE DEF overview, trend, stages, ev, da, E, D
    <2>1. QED
      BY <1>2, <1>4, <1>5 DEF Groups
  <1> HIDE DEF n1, n2, n3, n4, n5, ev, da, E, D, U, A
  <1>7. Total(n1) = Cardinality(A) /\ Total(n2) = Cardinality(A)
    BY <1>1, <1>3, <1>6, RowsByKey
  <1>8. Total(n3) = Cardinality(U) /\ Total(n4) = Cardinality(U) /\ Total(n5) = Cardinality(U)
    BY <1>1, <1>3, <1>6, RowsByKey
  <1>9. AdsCount(Ads(f), Uploaded) = Cardinality(U)
    BY DEF AdsCount, AdsWhere, U, A
  <1>10. QED
    BY <1>7, <1>8, <1>9 DEF n1, n2, n3, n4, n5, A

\* GetProjectCar: the column totals of the matrix with its zeros
LEMMA MatrixAddsUp ==
    ASSUME Shape, NEW f
    PROVE  Total(ProjectCar(f).totals) = Cardinality(Ads(f))
  <1> DEFINE A == Ads(f)
             count == CountBy(A, Place)
             projects == {place[1] : place \in DOMAIN count}
             cars == {place[2] : place \in DOMAIN count}
             of(p, c) == IF <<p, c>> \in DOMAIN count THEN count[<<p, c>>] ELSE 0
             totals == [p \in projects |-> Total([c \in cars |-> of(p, c)])]
             project == [u \in A |-> Ident[u].project]
             car == [u \in A |-> Ident[u].car]
  <1>1. IsFiniteSet(A)
    BY AdsAreFinite
  <1>2. ProjectCar(f).totals = totals
    BY DEF ProjectCar
  <1>3. DOMAIN count = {<<Ident[u].project, Ident[u].car>> : u \in A}
    BY DEF CountBy, Place
  <1>4. AreKeys(projects, project, A) /\ AreKeys(cars, car, A)
    <2> HIDE DEF count
    <2>1. ASSUME NEW u \in A
          PROVE  Ident[u].project \in projects /\ Ident[u].car \in cars
      <3>1. <<Ident[u].project, Ident[u].car>> \in DOMAIN count
        BY <1>3
      <3>2. QED
        BY <3>1
    <2>2. ASSUME NEW place \in DOMAIN count
          PROVE  \E u \in A : place[1] = Ident[u].project /\ place[2] = Ident[u].car
      <3>1. PICK u \in A : place = <<Ident[u].project, Ident[u].car>>
        BY <1>3
      <3>2. QED
        BY <3>1
    <2>3. \A p \in projects : \E u \in A : p = Ident[u].project
      BY <2>2
    <2>4. \A c \in cars : \E u \in A : c = Ident[u].car
      BY <2>2
    <2> HIDE DEF projects, cars
    <2>5. projects = {project[u] : u \in A} /\ cars = {car[u] : u \in A}
      BY <2>1, <2>3, <2>4
    <2>6. QED
      BY <2>5 DEF AreKeys
  <1>5. ASSUME NEW p, NEW c
        PROVE  of(p, c) = Cardinality({u \in A : Ident[u].project = p /\ Ident[u].car = c})
    <2>1. CASE <<p, c>> \in DOMAIN count
      <3>1. count[<<p, c>>] = Cardinality({u \in A : Place(u) = <<p, c>>})
        BY <2>1 DEF CountBy
      <3>2. {u \in A : Place(u) = <<p, c>>} = {u \in A : Ident[u].project = p /\ Ident[u].car = c}
        BY DEF Place
      <3>3. QED
        BY <2>1, <3>1, <3>2
    <2>2. CASE <<p, c>> \notin DOMAIN count
      <3>1. {u \in A : Ident[u].project = p /\ Ident[u].car = c} = {}
        <4> HIDE DEF count
        <4> QED  BY <1>3, <2>2
      <3>2. QED
        BY <2>2, <3>1, FS_EmptySet
    <2>3. QED
      BY <2>1, <2>2
  <1> HIDE DEF count, of
  <1>6. ASSUME NEW p \in projects
        PROVE  Total([c \in cars |-> of(p, c)]) = Cardinality(Fibre(project, A, p))
    <2> DEFINE B == Fibre(project, A, p)
               n == [c \in cars |-> of(p, c)]
    <2>1. B \in SUBSET A
      BY DEF Fibre
    <2>2. \A c : {u \in A : Ident[u].project = p /\ Ident[u].car = c} = Fibre(car, B, c)
      BY DEF Fibre
    <2>3. DOMAIN n = cars /\ Groups(n, car, B, cars)
      BY <1>5, <2>2 DEF Groups
    <2> HIDE DEF B, n, car, cars
    <2>4. Total(n) = Cardinality(B)
      BY <1>1, <1>4, <2>1, <2>3, RowsByKey
    <2>5. QED
      BY <2>4 DEF B, n
  <1>7. DOMAIN totals = projects /\ Groups(totals, project, A, projects)
    <2> HIDE DEF projects, project, cars
    <2> QED  BY <1>6 DEF Groups
  <1> HIDE DEF totals, projects, project
  <1>8. Total(totals) = Cardinality(A)
    <2>1. A \in SUBSET A
      OBVIOUS
    <2> HIDE DEF A
    <2>2. QED
      BY <1>1, <1>4, <1>7, <2>1, RowsByKey
  <1>9. QED
    BY <1>2, <1>8

\* The names of a series but "success", which no name is
LEMMA SeriesNames ==
    ASSUME NEW stage \in StageLists
    PROVE  /\ IsFiniteSet(NamesOf(stage))
           /\ "success" \in NamesOf(stage) /\ "other" \in NamesOf(stage) \ {"success"}
           /\ Range(AdsNames[stage]) \subseteq NamesOf(stage) \ {"success", "other"}
           /\ NamesOf(stage) = {"success", "other"} \cup Range(AdsNames[stage])
  <1>1. ASSUME NEW S, NEW a, NEW b, S = {a, b}
        PROVE  IsFiniteSet({"success", "other"} \cup S)
    <2>1. {"success", "other"} \cup S = {"success"} \cup ({"other"} \cup ({a} \cup {b}))
      BY <1>1
    <2>2. IsFiniteSet({"success"}) /\ IsFiniteSet({"other"}) /\ IsFiniteSet({a}) /\ IsFiniteSet({b})
      BY FS_Singleton
    <2>3. IsFiniteSet({a} \cup {b})
      BY <2>2, FS_Union
    <2>4. IsFiniteSet({"other"} \cup ({a} \cup {b}))
      BY <2>2, <2>3, FS_Union
    <2>5. QED
      BY <2>1, <2>2, <2>4, FS_Union
  <1>2. \E a, b : Range(AdsNames[stage]) = {a, b} /\ {a, b} \cap {"success", "other"} = {}
    <2> DEFINE cool == "check_is_no_need_cooldown"
               quota == "query cloud DISCARD, detail:Filter quota exceeded"
               gc == "because of full gc"
               files == "Exceeds the maximum number of files"
               net == "http request failed"
    <2>1. /\ cool # "success" /\ quota # "success" /\ gc # "success" /\ files # "success" /\ net # "success"
          /\ cool # "other" /\ quota # "other" /\ gc # "other" /\ files # "other" /\ net # "other"
      BY Zenon
    <2>2. AdsNames = [fff |-> [cooldown |-> cool, quota |-> quota],
                      fdr |-> [gc |-> gc, files |-> files],
                      fcl |-> [quota |-> quota, net |-> net]]
      BY Zenon DEF AdsNames
    <2> HIDE DEF cool, quota, gc, files, net
    <2>3. /\ Range(AdsNames["fff"]) = {cool, quota} /\ Range(AdsNames["fdr"]) = {gc, files}
          /\ Range(AdsNames["fcl"]) = {quota, net}
      BY <2>2 DEF Range
    <2>4. /\ {cool, quota} \cap {"success", "other"} = {} /\ {gc, files} \cap {"success", "other"} = {}
          /\ {quota, net} \cap {"success", "other"} = {}
      BY <2>1
    <2>5. CASE stage = "fff"
      BY <2>3, <2>4, <2>5
    <2>6. CASE stage = "fdr"
      BY <2>3, <2>4, <2>6
    <2>7. CASE stage = "fcl"
      BY <2>3, <2>4, <2>7
    <2>8. QED
      BY <2>5, <2>6, <2>7 DEF StageLists
  <1>3. PICK a, b : Range(AdsNames[stage]) = {a, b} /\ {a, b} \cap {"success", "other"} = {}
    BY <1>2
  <1>4. IsFiniteSet(NamesOf(stage))
    BY <1>1, <1>3 DEF NamesOf
  <1>5. QED
    BY <1>3, <1>4 DEF NamesOf

\* A series of a stage by the daily table: each failure has one name.
Fallen(F, stage, n) ==
    {u \in F : AdsTag(stage, ads[u]) = n \/ (n = "other" /\ AdsTag(stage, ads[u]) \notin Range(AdsNames[stage]))}

LEMMA SeriesAddUp ==
    ASSUME NEW stage \in StageLists, NEW F, IsFiniteSet(F), NEW vals, DOMAIN vals = NamesOf(stage),
           vals["success"] \in Int,
           \A n \in NamesOf(stage) \ {"success"} : vals[n] = Cardinality(Fallen(F, stage, n))
    PROVE  Total(vals) = vals["success"] + Cardinality(F) /\ Cardinality(F) \in Nat
  <1> DEFINE K == NamesOf(stage) \ {"success"}
             Known == Range(AdsNames[stage])
             key == [u \in F |-> IF AdsTag(stage, ads[u]) \in Known THEN AdsTag(stage, ads[u]) ELSE "other"]
             counts == [n \in K |-> Cardinality(Fibre(key, F, n))]
  <1>1. /\ IsFiniteSet(NamesOf(stage)) /\ "success" \in NamesOf(stage) /\ "other" \in K
        /\ Known \subseteq K /\ "other" \notin Known /\ K = {"other"} \cup Known
    BY SeriesNames
  <1>2. IsFiniteSet(K)
    BY <1>1, FS_Subset
  <1>3. key \in [F -> K]
    BY <1>1
  <1>4. \A n \in K : vals[n] = counts[n]
    <2> SUFFICES ASSUME NEW n \in K
                 PROVE  vals[n] = counts[n]
      OBVIOUS
    <2>1. Fallen(F, stage, n) = Fibre(key, F, n)
      <3>1. CASE n = "other"
        BY <1>1, <3>1 DEF Fallen, Fibre
      <3>2. CASE n # "other"
        <4>1. n \in Known
          BY <1>1, <3>2
        <4> HIDE DEF Known
        <4>2. QED
          BY <3>2, <4>1 DEF Fallen, Fibre, Known
      <3>3. QED
        BY <3>1, <3>2
    <2>2. QED
      BY <2>1
  <1>5. Cardinality(F) \in Nat /\ \A n \in K : Cardinality(Fibre(key, F, n)) \in Nat
    BY FS_Subset, FS_CardinalityType DEF Fibre
  <1>6. SumFunctionOnSet(counts, K) = Cardinality(F)
    <2> HIDE DEF K, key
    <2> QED  BY <1>2, <1>3, SumOfFibres
  <1>7. SumFunctionOnSet(vals, K) = SumFunctionOnSet(counts, K)
    <2> HIDE DEF K, counts
    <2> QED  BY <1>2, <1>4, SumSame
  <1>8. Ints(vals, NamesOf(stage))
    <2>1. \A n \in K : vals[n] \in Int
      <3> HIDE DEF K, key
      <3>1. \A n \in K : counts[n] \in Nat
        BY <1>5
      <3> HIDE DEF counts
      <3>2. QED
        BY <1>4, <3>1
    <2>2. QED
      BY <2>1 DEF Ints
  <1>9. SumFunctionOnSet(vals, NamesOf(stage)) = vals["success"] + SumFunctionOnSet(vals, K)
    BY <1>1, <1>8, SumStep
  <1>10. QED
    BY <1>5, <1>6, <1>7, <1>9 DEF Total, SumFunction

\* getStageTrendFromDetail on a date: the series of each stage divide what reached it.
LEMMA SeriesOfDate ==
    ASSUME Shape, NEW f, NEW d \in DOMAIN FilterTrend(f)
    PROVE  LET R == {u \in Ads(f) : Day(u) = d}
               c == FilterTrend(f)[d]
           IN  /\ Total(c.fff) = Cardinality(R)
               /\ Total(c.fdr) <= c.fff["success"]
               /\ Total(c.fdr) - c.fdr["success"] = Cardinality({u \in R : FdrStageFailed(ads[u])})
               /\ Total(c.fcl) = c.fdr["success"]
  <1> DEFINE R == {u \in Ads(f) : Day(u) = d}
             c == FilterTrend(f)[d]
             T == {u \in R : ads[u].fff = "discard"}
             P == {u \in R : Passed(ads[u])}
             D == {u \in R : Dumped(ads[u])}
             N == {u \in R : FdrStageFailed(ads[u])}
             U == {u \in R : Uploaded(ads[u])}
             X == {u \in R : UploadFailed(ads[u])}
             n(Z) == Cardinality(Z)
  <1>1. IsFiniteSet(R)
    BY AdsAreFinite, FS_Subset
  <1>2. /\ DOMAIN c.fff = NamesOf("fff") /\ c.fff["success"] = n(P)
        /\ \A m \in NamesOf("fff") \ {"success"} : c.fff[m] = n(Fallen(T, "fff", m))
    <2>1. \A m : {u \in R : ads[u].fff = "discard" /\ (AdsTag("fff", ads[u]) = m
                             \/ (m = "other" /\ ~(AdsTag("fff", ads[u]) \in Range(AdsNames["fff"]))))}
                 = Fallen(T, "fff", m)
      BY DEF Fallen
    <2>2. "success" \in NamesOf("fff")
      BY DEF NamesOf
    <2>3. QED
      BY <2>1, <2>2 DEF FilterTrend, AdsCount, AdsWhere
  <1>3. /\ DOMAIN c.fdr = NamesOf("fdr") /\ c.fdr["success"] = n(D)
        /\ \A m \in NamesOf("fdr") \ {"success"} : c.fdr[m] = n(Fallen(N, "fdr", m))
    <2>1. \A m : {u \in R : FdrStageFailed(ads[u]) /\ (AdsTag("fdr", ads[u]) = m
                             \/ (m = "other" /\ ~(AdsTag("fdr", ads[u]) \in Range(AdsNames["fdr"]))))}
                 = Fallen(N, "fdr", m)
      BY DEF Fallen
    <2>2. "success" \in NamesOf("fdr")
      BY DEF NamesOf
    <2>3. QED
      BY <2>1, <2>2 DEF FilterTrend, AdsCount, AdsWhere
  <1>4. /\ DOMAIN c.fcl = NamesOf("fcl") /\ c.fcl["success"] = n(U)
        /\ \A m \in NamesOf("fcl") \ {"success"} : c.fcl[m] = n(Fallen(X, "fcl", m))
    <2>1. \A m : {u \in R : UploadFailed(ads[u]) /\ (AdsTag("fcl", ads[u]) = m
                             \/ (m = "other" /\ ~(AdsTag("fcl", ads[u]) \in Range(AdsNames["fcl"]))))}
                 = Fallen(X, "fcl", m)
      BY DEF Fallen
    <2>2. "success" \in NamesOf("fcl")
      BY DEF NamesOf
    <2>3. QED
      BY <2>1, <2>2 DEF FilterTrend, AdsCount, AdsWhere
  <1>5. /\ R = T \cup P /\ T \cap P = {} /\ D \cup N \subseteq P /\ D \cap N = {}
        /\ D = U \cup X /\ U \cap X = {}
    BY DEF Passed, Dumped, FdrStageFailed, Uploaded, UploadFailed
  <1>6. {T, P, D, N, U, X, D \cup N} \subseteq SUBSET R
    OBVIOUS
  <1> HIDE DEF R, c, T, P, D, N, U, X
  <1>7. /\ \A Z \in {T, P, D, N, U, X} : IsFiniteSet(Z) /\ n(Z) \in Nat /\ n(Z) \in Int
        /\ n(R) = n(T) + n(P) /\ n(D \cup N) = n(D) + n(N) /\ n(D \cup N) <= n(P) /\ n(D) = n(U) + n(X)
    BY <1>1, <1>5, <1>6, CountParts
  <1>8. Total(c.fff) = n(P) + n(T)
    <2>1. "fff" \in StageLists /\ IsFiniteSet(T) /\ n(P) \in Int
      BY <1>7 DEF StageLists
    <2>2. QED
      BY <1>2, <2>1, SeriesAddUp
  <1>9. Total(c.fdr) = n(D) + n(N)
    <2>1. "fdr" \in StageLists /\ IsFiniteSet(N) /\ n(D) \in Int
      BY <1>7 DEF StageLists
    <2>2. QED
      BY <1>3, <2>1, SeriesAddUp
  <1>10. Total(c.fcl) = n(U) + n(X)
    <2>1. "fcl" \in StageLists /\ IsFiniteSet(X) /\ n(U) \in Int
      BY <1>7 DEF StageLists
    <2>2. QED
      BY <1>4, <2>1, SeriesAddUp
  <1>11. /\ Total(c.fff) = n(R) /\ Total(c.fdr) <= c.fff["success"]
         /\ Total(c.fdr) - c.fdr["success"] = n(N) /\ Total(c.fcl) = c.fdr["success"]
    BY <1>2, <1>3, <1>7, <1>8, <1>9, <1>10
  <1>12. QED
    BY <1>11 DEF R, c, N

LEMMA FailsByDate ==
    ASSUME Shape, NEW f
    PROVE  LET stages == FilterTrend(f)
           IN  Total([d \in DOMAIN stages |-> Total(stages[d].fdr) - stages[d].fdr["success"]])
                   = AdsCount(Ads(f), FdrStageFailed)
  <1> DEFINE A == Ads(f)
             N == {u \in A : FdrStageFailed(ads[u])}
             da == [u \in A |-> Day(u)]
             D == {Day(u) : u \in A}
             stages == FilterTrend(f)
             n == [d \in DOMAIN stages |-> Total(stages[d].fdr) - stages[d].fdr["success"]]
  <1>1. IsFiniteSet(A) /\ N \in SUBSET A
    BY AdsAreFinite
  <1>2. DOMAIN stages = D
    BY DEF FilterTrend
  <1>3. AreKeys(D, da, A)
    BY DEF AreKeys
  <1>4. ASSUME NEW d \in D
        PROVE  n[d] = Cardinality(Fibre(da, N, d))
    <2>1. n[d] = Cardinality({u \in {v \in A : Day(v) = d} : FdrStageFailed(ads[u])})
      BY <1>2, SeriesOfDate
    <2>2. {u \in {v \in A : Day(v) = d} : FdrStageFailed(ads[u])} = Fibre(da, N, d)
      BY DEF Fibre
    <2>3. QED
      BY <2>1, <2>2
  <1>5. DOMAIN n = D /\ Groups(n, da, N, D)
    <2> HIDE DEF stages, da, D
    <2>1. DOMAIN n = D
      BY <1>2
    <2> HIDE DEF n
    <2>2. QED
      BY <1>4, <2>1 DEF Groups
  <1> HIDE DEF n, da, D, N, A
  <1>6. Total(n) = Cardinality(N)
    BY <1>1, <1>3, <1>5, RowsByKey
  <1>7. QED
    BY <1>6 DEF n, N, A, AdsCount, AdsWhere

\* The top lists of a reason: the rows of its entry in the funnel
Tagged(R, stage, tag) == {u \in R : AdsTag(stage, ads[u]) = tag}

LEMMA ReasonLists ==
    ASSUME Shape, NEW f, NEW R, R \subseteq Ads(f), NEW stage, NEW r \in TagLists(R, stage), NEW tag,
           NEW n, n = At(r, tag, 0), n > 0, NEW S, S = Tagged(R, stage, tag),
           NEW top \in FilterLists(S, MaxTop) \cup EventLists(S, MaxTop)
    PROVE  SumsTo(top, MaxTop, n)
  <1>1. IsFiniteSet(R) /\ IsFiniteSet(S)
    BY AdsAreFinite, FS_Subset DEF Tagged
  <1>2. n = Cardinality(S)
    BY <1>1, TaggedRows DEF Tagged
  <1>3. MaxTop \in Nat
    BY BoardAssumption
  <1>4. QED
    BY <1>1, <1>2, <1>3, ListedRows

\* GetCoolTop, GetMemTop, GetDiskTop and GetQuotaTop
LEMMA TopsOfReasons ==
    ASSUME Shape, NEW f
    PROVE  LET any == [f EXCEPT !.filter = None]
               reasons(stage, name) == {At(r, AdsNames[stage][name], 0) : r \in FunnelReasons(any, stage)}
           IN  /\ \A n \in reasons("fff", "cooldown"), top \in CoolTops(f) : n > 0 => SumsTo(top, MaxTop, n)
               /\ \A n \in reasons("fdr", "gc"), top \in MemTops(f) : n > 0 => SumsTo(top, MaxTop, n)
               /\ \A n \in reasons("fdr", "files"), top \in DiskTops(f) : n > 0 => SumsTo(top, MaxTop, n)
               /\ \A n \in reasons("fcl", "quota"), top \in QuotaTops(f) : n > 0 => SumsTo(top, MaxTop, n)
  <1> DEFINE any == [f EXCEPT !.filter = None]
             A == Ads(any)
             T == {u \in A : ads[u].fff = "discard"}
             N == {u \in A : FdrStageFailed(ads[u])}
             X == {u \in A : UploadFailed(ads[u])}
             cool == AdsNames["fff"]["cooldown"]
             gc == AdsNames["fdr"]["gc"]
             files == AdsNames["fdr"]["files"]
             quota == AdsNames["fcl"]["quota"]
  <1>1. /\ FunnelReasons(any, "fff") = TagLists(T, "fff") /\ FunnelReasons(any, "fdr") = TagLists(N, "fdr")
        /\ FunnelReasons(any, "fcl") = TagLists(X, "fcl")
    BY DEF FunnelReasons, Reasons, AdsWhere, TagLists
  <1>2. T \subseteq A /\ N \subseteq A /\ X \subseteq A
    OBVIOUS
  <1>3. CoolTops(f) = FilterLists(Tagged(T, "fff", cool), MaxTop)
    <2>1. cool # ""
      <3> DEFINE name == "check_is_no_need_cooldown"
                 other == "query cloud DISCARD, detail:Filter quota exceeded"
      <3>1. name # ""
        BY Zenon
      <3>2. AdsNames["fff"] = [cooldown |-> name, quota |-> other]
        BY Zenon DEF AdsNames
      <3> HIDE DEF name, other
      <3>3. cool = name
        BY <3>2
      <3>4. QED
        BY <3>1, <3>3, Zenon
    <2> HIDE DEF cool
    <2>2. \A u \in A : AdsTag("fff", ads[u]) = cool => ads[u].fff = "discard"
      BY <2>1 DEF AdsTag, Tag
    <2>3. {u \in A : ads[u].fff # "success" /\ AdsTag("fff", ads[u]) = cool} = Tagged(T, "fff", cool)
      BY <2>2 DEF Tagged
    <2>4. CoolTops(f) = FilterLists({u \in A : ads[u].fff # "success" /\ AdsTag("fff", ads[u]) = cool}, MaxTop)
      BY DEF CoolTops, FilterLists, AdsWhere, AdsOfAnyFilter, cool
    <2>5. QED
      BY <2>3, <2>4
  <1>4. /\ MemTops(f) = EventLists(Tagged(N, "fdr", gc), MaxTop)
        /\ DiskTops(f) = EventLists(Tagged(N, "fdr", files), MaxTop)
        /\ QuotaTops(f) = EventLists(Tagged(X, "fcl", quota), MaxTop)
    <2> HIDE DEF any
    <2>1. \A tag : /\ {u \in A : FdrStageFailed(ads[u]) /\ AdsTag("fdr", ads[u]) = tag} = Tagged(N, "fdr", tag)
                   /\ {u \in A : UploadFailed(ads[u]) /\ AdsTag("fcl", ads[u]) = tag} = Tagged(X, "fcl", tag)
      BY DEF Tagged
    <2>2. AdsOfAnyFilter(f) = A
      BY DEF AdsOfAnyFilter, any
    <2> HIDE DEF A
    <2>3. QED
      BY <2>1, <2>2 DEF MemTops, DiskTops, QuotaTops, TopEventsOf, EventLists, AdsWhere
  <1> HIDE DEF T, N, X, A, cool, gc, files, quota
  <1>5. ASSUME NEW r \in FunnelReasons(any, "fff"), NEW n, n = At(r, cool, 0), n > 0, NEW top \in CoolTops(f)
        PROVE  SumsTo(top, MaxTop, n)
    <2>1. /\ r \in TagLists(T, "fff") /\ top \in FilterLists(Tagged(T, "fff", cool), MaxTop)
          /\ T \subseteq Ads(any)
      BY <1>1, <1>2, <1>3, <1>5 DEF A
    <2>2. QED
      BY <1>5, <2>1, ReasonLists
  <1>6. ASSUME NEW r \in FunnelReasons(any, "fdr"), NEW n, n = At(r, gc, 0), n > 0, NEW top \in MemTops(f)
        PROVE  SumsTo(top, MaxTop, n)
    <2>1. /\ r \in TagLists(N, "fdr") /\ top \in EventLists(Tagged(N, "fdr", gc), MaxTop)
          /\ N \subseteq Ads(any)
      BY <1>1, <1>2, <1>4, <1>6 DEF A
    <2>2. QED
      BY <1>6, <2>1, ReasonLists
  <1>7. ASSUME NEW r \in FunnelReasons(any, "fdr"), NEW n, n = At(r, files, 0), n > 0, NEW top \in DiskTops(f)
        PROVE  SumsTo(top, MaxTop, n)
    <2>1. /\ r \in TagLists(N, "fdr") /\ top \in EventLists(Tagged(N, "fdr", files), MaxTop)
          /\ N \subseteq Ads(any)
      BY <1>1, <1>2, <1>4, <1>7 DEF A
    <2>2. QED
      BY <1>7, <2>1, ReasonLists
  <1>8. ASSUME NEW r \in FunnelReasons(any, "fcl"), NEW n, n = At(r, quota, 0), n > 0, NEW top \in QuotaTops(f)
        PROVE  SumsTo(top, MaxTop, n)
    <2>1. /\ r \in TagLists(X, "fcl") /\ top \in EventLists(Tagged(X, "fcl", quota), MaxTop)
          /\ X \subseteq Ads(any)
      BY <1>1, <1>2, <1>4, <1>8 DEF A
    <2>2. QED
      BY <1>8, <2>1, ReasonLists
  <1> HIDE DEF any
  <1>9. QED
    BY <1>5, <1>6, <1>7, <1>8 DEF any, cool, gc, files, quota

\* The endpoints that read the daily table tell one story: the event comparison, the
\* trends, the matrix and the funnels of both boards have the same total; the event
\* comparison, the trends and the FO funnel the same uploads; the failed dumps of the
\* stage trend are those of the FO funnel, and each top list sums to what that funnel
\* says of its reason (dashboard_do.go, dashboard_fo.go).  Nothing is said of the
\* uploads of the DO funnel, which counts them by another condition.
THEOREM BoardsTellOneStory == Spec => []BoardsAgree
  <1>1. ASSUME Shape, NEW f
        PROVE  LET stat == FunnelStat(f)  any == [f EXCEPT !.filter = None]
                   overview == OverviewCounts(f)  trend == DoTrend(f)  stages == FilterTrend(f)
               IN  /\ stat.total = DoFunnelStat(f).total
                   /\ stat.total = Total([e \in DOMAIN overview |-> overview[e].trigger])
                   /\ stat.total = Total([d \in DOMAIN trend |-> trend[d].total])
                   /\ stat.total = Total(ProjectCar(f).totals)
                   /\ \A rank \in TriggerRanks(f) : SumsTo(rank, MaxRank, FunnelStat(any).total)
                   /\ \A version \in SwVersions(f) : SumsTo(version, MaxTop, stat.total)
                   /\ stat.fclSuccess = Total([e \in DOMAIN overview |-> overview[e].fcl])
                   /\ stat.fclSuccess = Total([d \in DOMAIN trend |-> trend[d].success])
                   /\ stat.fclSuccess = Total([d \in DOMAIN stages |-> stages[d].fcl["success"]])
                   /\ stat.fdrFail = Total([d \in DOMAIN stages |->
                                                Total(stages[d].fdr) - stages[d].fdr["success"]])
    <2> DEFINE any == [f EXCEPT !.filter = None]
    <2>1. \A g : /\ FunnelStat(g).total = Cardinality(Ads(g))
                 /\ FunnelStat(g).fclSuccess = AdsCount(Ads(g), Uploaded)
                 /\ FunnelStat(g).fdrFail = AdsCount(Ads(g), FdrStageFailed)
                 /\ DoFunnelStat(g).total = Cardinality(Ads(g))
      BY DEF FunnelStat, DoFunnelStat
    <2>2. \A rank \in TriggerRanks(f) : SumsTo(rank, MaxRank, Cardinality(Ads(any)))
      <3>1. TriggerRanks(f) = FilterLists(Ads(any), MaxRank)
        BY DEF TriggerRanks, FilterLists, AdsOfAnyFilter
      <3>2. MaxRank \in Nat /\ IsFiniteSet(Ads(any))
        BY <1>1, AdsAreFinite, BoardAssumption
      <3>3. QED
        BY <3>1, <3>2, ListedRows
    <2>3. \A version \in SwVersions(f) : SumsTo(version, MaxTop, Cardinality(Ads(f)))
      <3>1. SwVersions(f) = VersionLists(Ads(f), MaxTop)
        BY DEF SwVersions, VersionLists
      <3>2. MaxTop \in Nat /\ IsFiniteSet(Ads(f))
        BY <1>1, AdsAreFinite, BoardAssumption
      <3>3. QED
        BY <3>1, <3>2, ListedRows
    <2>4. LET overview == OverviewCounts(f)  trend == DoTrend(f)  stages == FilterTrend(f)
          IN  /\ Cardinality(Ads(f)) = Total([e \in DOMAIN overview |-> overview[e].trigger])
              /\ Cardinality(Ads(f)) = Total([d \in DOMAIN trend |-> trend[d].total])
              /\ AdsCount(Ads(f), Uploaded) = Total([e \in DOMAIN overview |-> overview[e].fcl])
              /\ AdsCount(Ads(f), Uploaded) = Total([d \in DOMAIN trend |-> trend[d].success])
              /\ AdsCount(Ads(f), Uploaded) = Total([d \in DOMAIN stages |-> stages[d].fcl["success"]])
      BY <1>1, GroupedBoards
    <2>5. Cardinality(Ads(f)) = Total(ProjectCar(f).totals)
      BY <1>1, MatrixAddsUp
    <2>6. LET stages == FilterTrend(f)
          IN  AdsCount(Ads(f), FdrStageFailed)
                  = Total([d \in DOMAIN stages |-> Total(stages[d].fdr) - stages[d].fdr["success"]])
      BY <1>1, FailsByDate
    <2>7. QED
      BY <2>1, <2>2, <2>3, <2>4, <2>5, <2>6
  <1>2. Base => BoardsAgree
    BY <1>1, TopsOfReasons DEF BoardsAgree, AtRest, Base
  <1>3. QED
    BY <1>2, Always, PTL

-----------------------------------------------------------------------------
(* Quality and funnel: QualityMeetsFunnel                                  *)

\* Both sets of names call the same dumps normal discards.
LEMMA NormalOnes ==
    ASSUME NEW o
    PROVE  AdsTag("fdr", o) \in NormalDiscards <=> CubeTag("fdr", o) \in CubeNormalDiscards
  <1> DEFINE normal == o["fdr"] = "discard" /\ o.why = "files"
             nothing == ""
             event == "event_not_recognized"
             right == "unauthorized"
             gc == "because of full gc"
             files == "Exceeds the maximum number of files"
             cubeGc == "full_gc"
             cubeFiles == "max_files_exceeded"
  <1>1. /\ event # nothing /\ right # nothing /\ files # nothing /\ cubeFiles # nothing
        /\ event # "other" /\ right # "other" /\ files # "other" /\ cubeFiles # "other"
        /\ event # gc /\ right # gc /\ files # gc
        /\ event # cubeGc /\ right # cubeGc /\ cubeFiles # cubeGc
        /\ "files" # nothing
    BY Zenon
  <1>2. /\ AdsNames["fdr"] = [gc |-> gc, files |-> files]
        /\ CubeNames["fdr"] = [gc |-> cubeGc, files |-> cubeFiles]
        /\ NormalDiscards = {event, files, right}
        /\ CubeNormalDiscards = {event, cubeFiles, right}
    BY Zenon DEF AdsNames, CubeNames, NormalDiscards, CubeNormalDiscards
  <1>3. /\ AdsTag("fdr", o) = IF o["fdr"] # "discard" \/ o.why = nothing THEN nothing
                              ELSE IF o.why \in DOMAIN AdsNames["fdr"] THEN AdsNames["fdr"][o.why] ELSE "other"
        /\ CubeTag("fdr", o) = IF o["fdr"] # "discard" \/ o.why = nothing THEN nothing
                               ELSE IF o.why \in DOMAIN CubeNames["fdr"] THEN CubeNames["fdr"][o.why] ELSE "other"
    BY Zenon DEF AdsTag, CubeTag, Tag
  <1> HIDE DEF nothing, event, right, gc, files, cubeGc, cubeFiles
  <1>4. AdsTag("fdr", o) \in NormalDiscards <=> normal
    BY <1>1, <1>2, <1>3
  <1>5. CubeTag("fdr", o) \in CubeNormalDiscards <=> normal
    BY <1>1, <1>2, <1>3
  <1>6. QED
    BY <1>4, <1>5

\* In copies that are up to date a request meets the same rows of the daily table and
\* of the summaries.
LEMMA FreshCopies ==
    ASSUME NEW f, Fresh(ads, f), Fresh(cube, f)
    PROVE  Ads(AnyFilter(f)) = Rows(f) /\ \A u \in Rows(f) : ads[u] = cube[u]
  <1> DEFINE g == AnyFilter(f)
  <1>1. /\ \A day : InDates(g, day) <=> InDates(f, day)
        /\ \A row : OfPlace(g, row) <=> OfPlace(f, row)
        /\ \A v : OrAny(g.filter, v)
        /\ g.events = f.events
    BY DEF AnyFilter, InDates, OfPlace, OrAny
  <1> HIDE DEF g
  <1>2. \A u : DoCommon(g, u) <=> InDates(f, Day(u)) /\ OneOf(f.events, Event(u)) /\ OfPlace(f, Ident[u])
    BY <1>1 DEF DoCommon, Day, Event
  <1>3. \A u : InDates(f, Day(u)) =>
            /\ u \in DOMAIN ads <=> u \in DOMAIN cube
            /\ u \in DOMAIN ads => ads[u] = cube[u]
    BY FreshRows
  <1>4. QED
    BY <1>2, <1>3 DEF Ads, Rows, RowsOf, g

\* Of a list that is complete, the entries with certain names are the rows with them.
LEMMA AmongCounts ==
    ASSUME NEW R, IsFiniteSet(R), NEW stage, NEW r \in TagLists(R, stage),
           Cardinality(DOMAIN r) < MaxReasons, NEW names
    PROVE  Among(r, names) = Cardinality({u \in R : AdsTag(stage, ads[u]) \in names})
  <1> DEFINE key == [u \in R |-> AdsTag(stage, ads[u])]
             c == Counts(R, key)
             S == {u \in R : AdsTag(stage, ads[u]) \in names}
             K == {k \in DOMAIN r : k \in names}
             part == RestrictDomain(r, LAMBDA n : n \in names)
             own == [u \in S |-> key[u]]
             counts == [k \in K |-> Cardinality(Fibre(own, S, k))]
  <1>1. CountBy(R, LAMBDA u : AdsTag(stage, ads[u])) = c
    BY DEF CountBy, Counts, Fibre
  <1>2. MaxReasons \in Nat /\ r \in Tops(c, MaxReasons)
    BY <1>1, BoardAssumption DEF TagLists
  <1>3. IsFiniteSet(DOMAIN c)
    BY CountsAddUp
  <1>4. r = [k \in DOMAIN c |-> c[k]] /\ IsFiniteSet(DOMAIN r)
    <2> HIDE DEF c
    <2> QED  BY <1>2, <1>3, TopsAreOf DEF IsTop
  <1>5. /\ DOMAIN r = {AdsTag(stage, ads[u]) : u \in R}
        /\ \A k \in DOMAIN r : r[k] = Cardinality(Fibre(key, R, k))
    <2>1. DOMAIN c = {key[u] : u \in R} /\ \A k \in DOMAIN c : c[k] = Cardinality(Fibre(key, R, k))
      BY DEF Counts
    <2> HIDE DEF c
    <2>2. DOMAIN r = {key[u] : u \in R} /\ \A k \in DOMAIN r : r[k] = Cardinality(Fibre(key, R, k))
      BY <1>4, <2>1
    <2>3. QED
      BY <2>2
  <1>6. IsFiniteSet(K) /\ IsFiniteSet(S)
    BY <1>4, FS_Subset
  <1>7. DOMAIN part = K /\ \A k \in K : part[k] = r[k]
    BY DEF RestrictDomain, Restrict
  <1>8. \A k \in K : part[k] = counts[k]
    <2> SUFFICES ASSUME NEW k \in K
                 PROVE  part[k] = counts[k]
      OBVIOUS
    <2>1. Fibre(own, S, k) = Fibre(key, R, k)
      BY DEF Fibre
    <2>2. part[k] = Cardinality(Fibre(key, R, k))
      BY <1>5, <1>7
    <2>3. QED
      BY <2>1, <2>2
  <1>9. own \in [S -> K]
    BY <1>5
  <1>10. SumFunctionOnSet(counts, K) = Cardinality(S)
    <2> HIDE DEF K, S, own
    <2> QED  BY <1>6, <1>9, SumOfFibres
  <1>11. SumFunctionOnSet(part, K) = SumFunctionOnSet(counts, K)
    <2> HIDE DEF K, part, counts
    <2> QED  BY <1>6, <1>8, SumSame
  <1>12. Among(r, names) = SumFunctionOnSet(part, K)
    BY <1>7 DEF Among, Total, SumFunction
  <1>13. QED
    BY <1>10, <1>11, <1>12

\* The total of GetFdrQuality: the triggers that passed, without the normal discards,
\* which it takes from another grain
LEMMA QualityTotal ==
    ASSUME Shape, NEW f \in Conditions
    PROVE  QualitySummary(f).total =
               Cardinality(UuidsWith(Rows(f), "fff", "success"))
               - Cardinality({u \in Rows(f) : CubeTag("fdr", cube[u]) \in CubeNormalDiscards})
  <1> DEFINE g == AnyFilter(f)
             S == {u \in Rows(f) : CubeTag("fdr", cube[u]) \in CubeNormalDiscards}
             P == {p \in AggCommon("reason", g) : p.u \in S}
             Q == {p \in AggCommon("reason", g) : CubeTag("fdr", cube[p.u]) \in CubeNormalDiscards}
  <1>1. /\ Askable(g, "overview") /\ CubeRows(g, "overview") = Rows(f)
        /\ SummaryCommon("overview", f) = AggCommon("overview", g)
        /\ Askable(g, "reason") /\ CubeRows(g, "reason") = Rows(f)
        /\ SummaryCommon("reason", f) = AggCommon("reason", g)
    BY WithoutFilter
  <1> HIDE DEF g
  <1>2. QualitySummary(f).total = Cardinality(PartsWith(g, "overview", "fff", "success")) - Cardinality(Q)
    BY <1>1 DEF QualitySummary, SumWhere, PartsWith
  <1>3. Cardinality(PartsWith(g, "overview", "fff", "success"))
            = Cardinality(UuidsWith(Rows(f), "fff", "success"))
    BY <1>1, StageCount
  <1>4. Q = P
    <2>1. \A p \in AggCommon("reason", g) : p.u \in Rows(f)
      BY <1>1, PartsOnce
    <2>2. QED
      BY <2>1
  <1>5. Cardinality(P) = Cardinality(S)
    <2>1. S \in SUBSET CubeRows(g, "reason")
      BY <1>1
    <2> HIDE DEF S
    <2>2. QED
      BY <1>1, <2>1, PartsCount
  <1>6. QED
    BY <1>2, <1>3, <1>4, <1>5

\* What is excluded from the comparison of quality and funnel
Usual(f) ==
    \A u \in Ads(f) : /\ ads[u].fff # "null"
                      /\ ads[u].fff = "discard" => "success" \notin {ads[u].fdr, ads[u].fcl}
                      /\ AdsTag("fdr", ads[u]) \in NormalDiscards => FdrStageFailed(ads[u])

LEMMA QualityFits ==
    ASSUME Shape, NEW f \in Conditions, Fresh(ads, f), Fresh(cube, f), Usual(AnyFilter(f))
    PROVE  LET stat == FunnelStat(AnyFilter(f))
               quality == FdrQuality(QualitySummary(f), QualityAds(f))
           IN  /\ \A fdr \in FunnelReasons(AnyFilter(f), "fdr") :
                      Cardinality(DOMAIN fdr) < MaxReasons =>
                          /\ quality.total = DumpsDue(stat, [fdr |-> fdr])
                          /\ quality.success = stat.fdrSuccess
               /\ f.filter = None => FffOverview(f).total = stat.total /\ FffOverview(f).success = stat.allow
               /\ FclUploads(f) <= stat.fclSuccess
  <1> DEFINE g == AnyFilter(f)
             A == Ads(g)
             stat == FunnelStat(g)
             summary == QualitySummary(f)
             Won(stage) == {u \in A : ads[u][stage] = "success"}
             T == {u \in A : ads[u].fff = "discard"}
             P == {u \in A : Passed(ads[u])}
             D == {u \in A : Dumped(ads[u])}
             N == {u \in A : FdrStageFailed(ads[u])}
             U == {u \in A : Uploaded(ads[u])}
             L == {u \in A : AdsTag("fdr", ads[u]) \in NormalDiscards}
             n(Z) == Cardinality(Z)
  <1>1. A = Rows(f) /\ \A u \in A : ads[u] = cube[u]
    BY FreshCopies
  <1>2. IsFiniteSet(A) /\ \A u \in A : ads[u] \in AllOutcomes
    BY AdsAreFinite
  <1>3. /\ stat.total = n(A) /\ stat.allow = n(P) /\ stat.fdrSuccess = n(D) /\ stat.fclSuccess = n(U)
    BY DEF FunnelStat, AdsCount, AdsWhere
  <1>4. \A stage \in StageLists : Won(stage) = UuidsWith(Rows(f), stage, "success")
    BY <1>1 DEF UuidsWith
  <1>5. T = UuidsWith(Rows(f), "fff", "discard")
    BY <1>1 DEF UuidsWith
  <1>6. L = {u \in Rows(f) : CubeTag("fdr", cube[u]) \in CubeNormalDiscards}
    BY <1>1, NormalOnes
  <1>7. /\ P = Won("fff") /\ A = T \cup Won("fff") /\ T \cap Won("fff") = {}
        /\ Won("fdr") \subseteq D /\ Won("fcl") \subseteq U
        /\ L = {u \in N : AdsTag("fdr", ads[u]) \in NormalDiscards}
    <2>1. /\ P = Won("fff") /\ A = T \cup Won("fff") /\ T \cap Won("fff") = {}
      BY <1>2 DEF Usual, Passed, AllOutcomes
    <2>2. Won("fdr") \subseteq D /\ Won("fcl") \subseteq U
      BY <1>2 DEF Usual, Passed, Dumped, Uploaded
    <2>3. L = {u \in N : AdsTag("fdr", ads[u]) \in NormalDiscards}
      BY DEF Usual
    <2>4. QED
      BY <2>1, <2>2, <2>3
  <1>8. /\ QualityAds(f) = n(D)
        /\ summary.fdrSuccess = n(Won("fdr")) /\ FclUploads(f) = n(Won("fcl"))
        /\ summary.total = n(Won("fff")) - n(L)
    <2>1. QualityAds(f) = n(D)
      BY DEF QualityAds, AdsOfAnyFilter, AdsCount, AdsWhere, AnyFilter
    <2>2. summary.fdrSuccess = n(Won("fdr")) /\ FclUploads(f) = n(Won("fcl"))
      BY <1>4, QualitiesOnce DEF StageLists
    <2>3. summary.total = n(Won("fff")) - n(L)
      BY <1>4, <1>6, QualityTotal DEF StageLists
    <2>4. QED
      BY <2>1, <2>2, <2>3
  <1>9. /\ {P, D, N, U, L, T, Won("fff"), Won("fdr"), Won("fcl")} \subseteq SUBSET A
    OBVIOUS
  <1>10. FunnelReasons(g, "fdr") = TagLists(N, "fdr")
    BY DEF FunnelReasons, Reasons, AdsWhere, TagLists
  <1>11. f.filter = None => /\ FffOverview(f).success = n(Won("fff"))
                            /\ FffOverview(f).total = n(Won("fff")) + n(T)
    <2>1. f.filter = None => {u \in Rows(f) : OrAny(f.filter, Filter(u))} = Rows(f)
      BY DEF OrAny
    <2>2. /\ Won("fff") = UuidsWith(Rows(f), "fff", "success")
      BY <1>4 DEF StageLists
    <2> HIDE DEF Won, T
    <2>3. QED
      BY <1>5, <2>1, <2>2, OverviewOnce
  <1> HIDE DEF A, Won, T, P, D, N, U, L
  <1>12. /\ n(A) = n(T) + n(Won("fff")) /\ n(Won("fdr")) <= n(D) /\ n(Won("fcl")) <= n(U)
         /\ n(D) \in Nat /\ n(Won("fdr")) \in Nat
         /\ IsFiniteSet(N)
    <2>1. /\ T \in SUBSET A /\ Won("fff") \in SUBSET A /\ Won("fdr") \in SUBSET A
          /\ Won("fcl") \in SUBSET A /\ D \in SUBSET A /\ U \in SUBSET A /\ N \in SUBSET A
      BY <1>9
    <2>2. n(A) = n(T) + n(Won("fff"))
      BY <1>2, <1>7, <2>1, CountParts
    <2>3. n(Won("fdr")) <= n(D) /\ n(D) \in Nat /\ n(Won("fdr")) \in Nat
      BY <1>2, <1>7, <2>1, CountParts
    <2>4. n(Won("fcl")) <= n(U)
      BY <1>2, <1>7, <2>1, CountParts
    <2>5. IsFiniteSet(N)
      BY <1>2, <2>1, CountParts
    <2>6. QED
      BY <2>2, <2>3, <2>4, <2>5
  <1>13. FdrQuality(summary, QualityAds(f)).success = n(D)
    BY <1>8, <1>12 DEF FdrQuality
  <1>14. ASSUME NEW fdr \in FunnelReasons(g, "fdr"), Cardinality(DOMAIN fdr) < MaxReasons
         PROVE  FdrQuality(summary, QualityAds(f)).total = DumpsDue(stat, [fdr |-> fdr])
    <2>1. Among(fdr, NormalDiscards) = Cardinality({u \in N : AdsTag("fdr", ads[u]) \in NormalDiscards})
      BY <1>10, <1>12, <1>14, AmongCounts
    <2>2. Among(fdr, NormalDiscards) = n(L)
      BY <1>7, <2>1
    <2>3. QED
      BY <1>3, <1>7, <1>8, <2>2 DEF FdrQuality, DumpsDue
  <1>15. f.filter = None => FffOverview(f).total = stat.total /\ FffOverview(f).success = stat.allow
    <2>1. n(T) \in Nat /\ n(Won("fff")) \in Nat
      BY <1>2, <1>9, CountParts
    <2>2. QED
      BY <1>3, <1>7, <1>11, <1>12, <2>1
  <1>16. QED
    BY <1>3, <1>8, <1>12, <1>13, <1>14, <1>15

\* "Exactly the numbers of the funnel" (GetFdrQuality): of copies that are up to date,
\* the quality of dumps and the overview of a tool, found one query after another in two
\* tables, have the totals and the successes of the funnel, but for the three cases in
\* which the code disagrees with itself.
THEOREM QualityIsTheFunnels == Spec => []QualityMeetsFunnel
  <1>1. ASSUME Base, AnswersInv, HasQuality, late = <<>>
        PROVE  /\ ask.f \in Conditions
               /\ got.summary = QualitySummary(ask.f) /\ got.dumped = QualityAds(ask.f)
               /\ op = "tool_overview" =>
                      /\ ask.f.filter = None
                      /\ got.fff = FffOverview(ask.f) /\ got.uploads = FclUploads(ask.f)
    <2>1. /\ reply = "ok" /\ op \in {"quality", "tool_overview"}
          /\ op # "tool_overview" \/ "lost" \notin DOMAIN got
      BY <1>1 DEF HasQuality, AnswerOf
    <2>2. ask.f \in Conditions /\ (op = "tool_overview" => ask.f.filter = None)
      BY <1>1, <2>1 DEF Base, WellFormed
    <2>3. /\ {"summary", "dumped"} \subseteq DOMAIN got
          /\ op = "tool_overview" => {"fff", "uploads"} \subseteq DOMAIN got
      <3>1. \A i \in 1 .. Len(Plan(op, ask)) : Plan(op, ask)[i] \subseteq DOMAIN got
        BY <1>1, <2>1, OkHasAll DEF Base
      <3>2. CASE op = "quality"
        <4>1. Plan(op, ask) = <<{"summary"}, {"dumped"}>>
          BY <3>2 DEF Plan
        <4>2. Plan(op, ask)[1] \subseteq DOMAIN got /\ Plan(op, ask)[2] \subseteq DOMAIN got
          BY <3>1, <4>1
        <4>3. QED
          BY <3>2, <4>1, <4>2
      <3>3. CASE op = "tool_overview"
        <4>1. Plan(op, ask) = <<{"fff"}, {"summary"}, {"dumped"}, {"uploads"}>>
          BY <3>3 DEF Plan
        <4>2. /\ Plan(op, ask)[1] \subseteq DOMAIN got /\ Plan(op, ask)[2] \subseteq DOMAIN got
              /\ Plan(op, ask)[3] \subseteq DOMAIN got /\ Plan(op, ask)[4] \subseteq DOMAIN got
          BY <3>1, <4>1
        <4>3. QED
          BY <4>1, <4>2
      <3>4. QED
        BY <2>1, <3>2, <3>3
    <2>4. \A q \in DOMAIN got \ {"answers", "names", "reasons", "lost"} : got[q] \in Found(q)
      BY <1>1, <2>1 DEF AnswersInv, Untouched
    <2>5. got["summary"] \in Found("summary") /\ got["dumped"] \in Found("dumped")
      BY <2>3, <2>4
    <2>6. got.summary = QualitySummary(ask.f) /\ got.dumped = QualityAds(ask.f)
      BY <2>1, <2>5 DEF Found
    <2>7. ASSUME op = "tool_overview"
          PROVE  got.fff = FffOverview(ask.f) /\ got.uploads = FclUploads(ask.f)
      <3>1. got["fff"] \in Found("fff") /\ got["uploads"] \in Found("uploads")
        BY <2>3, <2>4, <2>7
      <3>2. QED
        BY <2>7, <3>1 DEF Found
    <2>8. QED
      BY <2>2, <2>6, <2>7
  <1>2. ASSUME Base, AnswersInv, HasQuality, late = <<>>, Fresh(ads, ask.f), Fresh(cube, ask.f),
               Usual(AnyFilter(ask.f))
        PROVE  LET quality == FdrQuality(got.summary, got.dumped)
                   stat == FunnelStat(AnyFilter(ask.f))
               IN  /\ \A fdr \in FunnelReasons(AnyFilter(ask.f), "fdr") :
                          Cardinality(DOMAIN fdr) < MaxReasons =>
                              /\ quality.total = DumpsDue(stat, [fdr |-> fdr])
                              /\ quality.success = stat.fdrSuccess
                   /\ op = "tool_overview" =>
                          /\ got.fff.total = stat.total /\ got.fff.success = stat.allow
                          /\ got.uploads <= stat.fclSuccess
    BY <1>1, <1>2, QualityFits DEF Base
  <1>3. Base /\ AnswersInv => QualityMeetsFunnel
    BY <1>2 DEF QualityMeetsFunnel, Usual, AnyFilter
  <1>4. QED
    BY <1>3, Always, AnswersAlways, PTL

-----------------------------------------------------------------------------
(* Stage trends: TrendAddsUp                                               *)

\* What counts say of some names is no more than what was counted.
LEMMA CountsOfNames ==
    ASSUME NEW S, IsFiniteSet(S), NEW key, NEW K, IsFiniteSet(K)
    PROVE  LET n == SumFunctionOnSet([k \in K |-> At(Counts(S, key), k, 0)], K)
           IN  n \in Nat /\ n <= Cardinality(S)
  <1> DEFINE c == Counts(S, key)
             P == {x \in S : key[x] \in K}
             own == [x \in P |-> key[x]]
             of == [k \in K |-> Cardinality(Fibre(own, P, k))]
             at == [k \in K |-> At(c, k, 0)]
  <1>1. IsFiniteSet(P) /\ Cardinality(P) \in Nat /\ Cardinality(P) <= Cardinality(S)
    BY FS_Subset, FS_CardinalityType
  <1>2. own \in [P -> K]
    OBVIOUS
  <1>3. \A k \in K : at[k] = of[k]
    <2> SUFFICES ASSUME NEW k \in K
                 PROVE  at[k] = of[k]
      OBVIOUS
    <2>1. Fibre(own, P, k) = Fibre(key, S, k)
      BY DEF Fibre
    <2>2. CASE k \in DOMAIN c
      BY <2>1, <2>2 DEF At, Counts
    <2>3. CASE k \notin DOMAIN c
      <3>1. Fibre(key, S, k) = {}
        BY <2>3 DEF Counts, Fibre
      <3>2. QED
        BY <2>1, <2>3, <3>1, FS_EmptySet DEF At
    <2>4. QED
      BY <2>2, <2>3
  <1>4. SumFunctionOnSet(of, K) = Cardinality(P)
    <2> HIDE DEF P, own
    <2> QED  BY <1>1, <1>2, SumOfFibres
  <1>5. SumFunctionOnSet(at, K) = SumFunctionOnSet(of, K)
    <2> HIDE DEF at, of
    <2> QED  BY <1>3, SumSame
  <1>6. QED
    BY <1>1, <1>4, <1>5

\* assembleFffStageVals: with what has no name added to "other", the series sum to what
\* was counted, or to more when the reasons say more.
FailureNames == NamesOf("fff") \ {"success"}
NamedBy(reasons) == SumFunctionOnSet([n \in FailureNames |-> At(reasons, n, 0)], FailureNames)

LEMMA SeriesOfCounts ==
    ASSUME NEW counts, counts.success \in Int, counts.failed \in Int,
           NEW reasons, Ints(reasons, DOMAIN reasons)
    PROVE  LET v == FffVals(counts, reasons)
           IN  /\ DOMAIN v = NamesOf("fff") /\ Ints(v, NamesOf("fff"))
               /\ Total(v) >= counts.success + counts.failed
               /\ NamedBy(reasons) <= counts.failed => Total(v) = counts.success + counts.failed
  <1> DEFINE F == NamesOf("fff")
             K == FailureNames
             at == [n \in K |-> At(reasons, n, 0)]
             vals == StageVals(counts, reasons)
             named == Total(vals) - vals["success"]
             more == Max({counts.failed - named, 0})
             v == FffVals(counts, reasons)
  <1>1. /\ IsFiniteSet(F) /\ "success" \in F /\ "other" \in F /\ "other" \in K
        /\ K = F \ {"success"} /\ IsFiniteSet(K) /\ IsFiniteSet(F \ {"other"})
    <2>1. "fff" \in StageLists
      BY DEF StageLists
    <2>2. QED
      BY <2>1, SeriesNames, FS_Subset DEF FailureNames
  <1>2. /\ DOMAIN vals = F /\ vals["success"] = counts.success
        /\ \A n \in K : vals[n] = at[n] /\ at[n] \in Int
    <2>1. \A n : At(reasons, n, 0) \in Int
      BY DEF At, Ints
    <2>2. QED
      BY <1>1, <2>1 DEF StageVals
  <1> HIDE DEF at, vals, K, F
  <1>3. Ints(vals, F) /\ Ints(vals, K) /\ Ints(at, K)
    BY <1>1, <1>2 DEF Ints
  <1>4. SumFunctionOnSet(vals, F) = counts.success + SumFunctionOnSet(vals, K)
    BY <1>1, <1>2, <1>3, SumStep
  <1>5. SumFunctionOnSet(vals, K) = SumFunctionOnSet(at, K) /\ SumFunctionOnSet(at, K) \in Int
    BY <1>1, <1>2, <1>3, SumSame, SumInt
  <1>6. SumFunctionOnSet(at, K) = NamedBy(reasons)
    BY DEF NamedBy, at, K
  <1>7. Total(vals) = SumFunctionOnSet(vals, F)
    BY <1>2 DEF Total, SumFunction
  <1>8. named = NamedBy(reasons) /\ NamedBy(reasons) \in Int
    BY <1>2, <1>4, <1>5, <1>6, <1>7
  <1>9. DOMAIN v = F /\ v["other"] = vals["other"] + more /\ \A n \in F \ {"other"} : v[n] = vals[n]
    BY <1>1, <1>2 DEF FffVals, vals
  <1> HIDE DEF named, v
  <1>10. /\ more \in Int /\ more >= 0 /\ more >= counts.failed - named
         /\ more \in {counts.failed - named, 0}
    <2> DEFINE left == counts.failed - named
    <2>1. left \in Int /\ 0 \in Int
      BY <1>8
    <2> HIDE DEF left
    <2>2. Max({left, 0}) \in Int /\ 0 <= Max({left, 0}) /\ left <= Max({left, 0}) /\ Max({left, 0}) \in {left, 0}
      BY <2>1, MaxOfTwo, Zenon
    <2>3. QED
      BY <2>1, <2>2 DEF left
  <1> HIDE DEF more
  <1>11. Ints(v, F)
    BY <1>1, <1>3, <1>9, <1>10 DEF Ints
  <1>12. Total(v) = Total(vals) + more
    <2>1. SumFunctionOnSet(v, F) = v["other"] + SumFunctionOnSet(v, F \ {"other"})
      BY <1>1, <1>11, SumStep
    <2>2. SumFunctionOnSet(vals, F) = vals["other"] + SumFunctionOnSet(vals, F \ {"other"})
      BY <1>1, <1>3, SumStep
    <2>3. SumFunctionOnSet(v, F \ {"other"}) = SumFunctionOnSet(vals, F \ {"other"})
      BY <1>1, <1>9, SumSame
    <2>4. vals["other"] \in Int /\ SumFunctionOnSet(vals, F \ {"other"}) \in Int
      <3>1. Ints(vals, F \ {"other"})
        BY <1>3 DEF Ints
      <3>2. QED
        BY <1>1, <1>3, <3>1, SumInt DEF Ints
    <2>5. Total(v) = SumFunctionOnSet(v, F)
      BY <1>9 DEF Total, SumFunction
    <2>6. QED
      BY <1>7, <1>9, <1>10, <2>1, <2>2, <2>3, <2>4, <2>5
  <1>13. Total(v) = counts.success + named + more
    BY <1>4, <1>5, <1>6, <1>7, <1>8, <1>12
  <1>14. Total(v) >= counts.success + counts.failed
    BY <1>8, <1>10, <1>13
  <1>15. NamedBy(reasons) <= counts.failed => Total(v) = counts.success + counts.failed
    BY <1>8, <1>10, <1>13
  <1>16. QED
    BY <1>9, <1>11, <1>14, <1>15 DEF v, F

\* On each date the reasons of FFF, found in another grain, name no more failures than
\* the overview counts.
LEMMA NamesOfDate ==
    ASSUME Shape, NEW f \in Conditions, NEW d
    PROVE  LET r == At(TrendReasons(f), d, <<>>)
               c == At(TrendCounts(f, "fff"), d, NoCounts)
           IN  /\ Ints(r, DOMAIN r) /\ c.success \in Nat /\ c.failed \in Nat
               /\ NamedBy(r) <= c.failed
  <1> DEFINE g == AnyFilter(f)
             parts == AggCommon("overview", g)
             tagged == AggCommon("reason", g)
             of == TrendCounts(f, "fff")
             r == At(TrendReasons(f), d, <<>>)
             c == At(of, d, NoCounts)
             S == {u \in Rows(f) : Day(u) = d /\ cube[u].fff = "discard"}
             P == {p \in parts : p.u \in S}
             N == {u \in Rows(f) : Day(u) = d /\ CubeTag("fff", cube[u]) # ""}
             Q == {p \in tagged : p.u \in N}
             W == WithReason("fff", {p \in tagged : Day(p.u) = d})
             key == [p \in W |-> CubeTag("fff", cube[p.u])]
             at(x) == [k \in FailureNames |-> At(x, k, 0)]
  <1>1. /\ Askable(g, "overview") /\ CubeRows(g, "overview") = Rows(f)
        /\ Askable(g, "reason") /\ CubeRows(g, "reason") = Rows(f)
    BY WithoutFilter
  <1>2. /\ IsFiniteSet(P) /\ Cardinality(P) = Cardinality(S) /\ IsFiniteSet(S) /\ Cardinality(S) \in Nat
        /\ IsFiniteSet(Q) /\ Cardinality(Q) = Cardinality(N)
    <2>1. S \in SUBSET CubeRows(g, "overview") /\ N \in SUBSET CubeRows(g, "reason")
      BY <1>1
    <2> HIDE DEF S, N, g
    <2>2. IsFiniteSet(P) /\ Cardinality(P) = Cardinality(S) /\ IsFiniteSet(S)
      BY <1>1, <2>1, PartsCount
    <2>3. IsFiniteSet(Q) /\ Cardinality(Q) = Cardinality(N)
      BY <1>1, <2>1, PartsCount
    <2>4. QED
      BY <2>2, <2>3, FS_CardinalityType
  <1>3. W = Q
    <2>1. \A p \in tagged : p.u \in Rows(f)
      BY <1>1, PartsOnce
    <2>2. W = {p \in tagged : Day(p.u) = d /\ CubeTag("fff", cube[p.u]) # ""}
      BY Zenon DEF WithReason
    <2>3. Q = {p \in tagged : Day(p.u) = d /\ CubeTag("fff", cube[p.u]) # ""}
      BY <2>1, Zenon
    <2>4. QED
      BY <2>2, <2>3, Zenon
  <1>4. Cardinality(N) <= Cardinality(S)
    <2>1. "fff" \in StageLists
      BY DEF StageLists
    <2>2. \A u \in Rows(f) : CubeTag("fff", cube[u]) # "" => cube[u]["fff"] = "discard"
      BY <2>1, TagsAreNames, Zenon
    <2>3. N \subseteq S
      BY <2>2, Zenon
    <2> HIDE DEF N, S
    <2>4. QED
      BY <1>2, <2>3, FS_Subset
  <1> HIDE DEF N
  <1>5. c.success \in Nat /\ c.failed = Cardinality(S)
    <2>1. CASE d \in DOMAIN of
      <3>1. of[d].success \in Nat
        BY <2>1, TrendOnce
      <3>2. of[d].failed = Cardinality({p \in {q \in parts : Day(q.u) = d} : cube[p.u].fff = "discard"})
        BY <2>1 DEF TrendCounts, AnyFilter, SumWhere
      <3>3. {p \in {q \in parts : Day(q.u) = d} : cube[p.u].fff = "discard"} = P
        <4>1. \A p \in parts : p.u \in Rows(f)
          BY <1>1, PartsOnce
        <4>2. QED
          BY <4>1
      <3> HIDE DEF of, P, S
      <3>4. QED
        BY <1>2, <2>1, <3>1, <3>2, <3>3 DEF At
    <2>2. CASE d \notin DOMAIN of
      <3>1. c = NoCounts
        BY <2>2 DEF At
      <3>2. S = {}
        <4>1. ASSUME NEW u \in S
              PROVE  FALSE
          <5>1. PICK p \in parts : p.u = u
            BY <1>1, PartsOnce
          <5>2. Day(p.u) \in DOMAIN of
            BY DEF TrendCounts, AnyFilter
          <5>3. QED
            BY <2>2, <5>1, <5>2
        <4>2. QED
          BY <4>1
      <3> HIDE DEF c, S
      <3>3. QED
        BY <3>1, <3>2, FS_EmptySet DEF NoCounts
    <2>3. QED
      BY <2>1, <2>2
  <1>6. IsFiniteSet(FailureNames)
    <2>1. "fff" \in StageLists
      BY DEF StageLists
    <2>2. QED
      BY <2>1, SeriesNames, FS_Subset DEF FailureNames
  <1>7. Ints(r, DOMAIN r) /\ NamedBy(r) <= Cardinality(S)
    <2>1. CASE d \in DOMAIN TrendReasons(f)
      <3>1. r = CubeReasons("fff", {p \in tagged : Day(p.u) = d})
        BY <2>1 DEF At, TrendReasons, AnyFilter
      <3>2. r = Counts(W, key)
        BY <3>1 DEF CubeReasons, CountBy, Counts, Fibre
      <3>3. IsFiniteSet(W) /\ Cardinality(W) <= Cardinality(S) /\ Cardinality(W) \in Nat
        <4> HIDE DEF W, Q, S
        <4> QED  BY <1>2, <1>3, <1>4, FS_CardinalityType
      <3> HIDE DEF W, key, r, S
      <3>4. \A k \in DOMAIN r : r[k] \in Nat
        BY <3>2, <3>3, CountsAddUp
      <3>5. NamedBy(r) \in Nat /\ NamedBy(r) <= Cardinality(W)
        BY <1>6, <3>2, <3>3, CountsOfNames DEF NamedBy
      <3>6. QED
        BY <1>2, <3>3, <3>4, <3>5 DEF Ints
    <2>2. CASE d \notin DOMAIN TrendReasons(f)
      <3>1. r = <<>>
        BY <2>2 DEF At
      <3>2. DOMAIN r = {}
        BY <3>1
      <3> DEFINE zero == [n \in FailureNames |-> At(r, n, 0)]
      <3>3. \A n \in FailureNames : zero[n] = 0
        BY <3>2 DEF At
      <3> HIDE DEF zero
      <3>4. SumFunctionOnSet(zero, FailureNames) = 0
        BY <1>6, <3>3, SumZero
      <3>5. NamedBy(r) = 0
        BY <3>4 DEF NamedBy, zero
      <3>6. QED
        BY <1>2, <3>2, <3>5 DEF Ints
    <2>3. QED
      BY <2>1, <2>2
  <1> HIDE DEF r, c, S
  <1>8. QED
    BY <1>2, <1>5, <1>7 DEF r, c

\* What a stage trend without a filter has found: its four queries only, and counts
TrendInv ==
    op = "trend" /\ ask.f.filter = None =>
        /\ DOMAIN got \subseteq {"over", "reason", "fdr", "fcl"}
        /\ "over" \in DOMAIN got =>
               \A d : LET c == At(got.over, d, NoCounts) IN c.success \in Nat /\ c.failed \in Nat
        /\ "reason" \in DOMAIN got =>
               \A d : LET r == At(got.reason, d, <<>>) IN Ints(r, DOMAIN r)

LEMMA TrendHolds ==
    ASSUME Base, TrendInv, [Next]_vars
    PROVE  TrendInv'
  <1>0. Shape /\ WellFormed
    BY DEF Base
  <1>1. CASE Begins
    BY <1>1 DEF Begins, TrendInv
  <1>2. CASE ~Begins
    <2>1. SUFFICES ASSUME op' = "trend", ask'.f.filter = None
                   PROVE  TrendInv'
      BY DEF TrendInv
    <2>2. Kept
      BY <1>0, <1>2, Steps
    <2>3. op = "trend" /\ ask.f.filter = None
      BY <2>1, <2>2 DEF Kept
    <2>4. Due \subseteq {"over", "reason", "fdr", "fcl"} /\ (Due # {} => ask.f \in Conditions)
      <3>1. SUFFICES ASSUME NEW q \in Due
                     PROVE  q \in {"over", "reason", "fdr", "fcl"} /\ ask.f \in Conditions
        OBVIOUS
      <3>2. reply = "open"
        BY DueIsOpen
      <3>3. ask.f \in Conditions
        BY <1>0, <2>3, <3>2 DEF WellFormed
      <3>4. PICK i \in 1 .. Len(Plan(op, ask)) : q \in Plan(op, ask)[i]
        BY <1>0, DueIsPlanned
      <3>5. Plan(op, ask) = <<{"over", "reason", "fdr", "fcl"}>>
        BY <2>3 DEF Plan
      <3>6. QED
        BY <3>3, <3>4, <3>5
    <2>5. ASSUME NEW q \in DOMAIN got' \ DOMAIN got
          PROVE  q \in Due /\ got'[q] \in Found(q)
      <3>1. got' # got
        BY <2>5
      <3>2. CASE \E p \in Due : Query(p)
        BY <3>2, Queries
      <3>3. CASE \E p \in Due : QueryFails(p)
        <4>1. PICK p \in Due : QueryFails(p)
          BY <3>3
        <4>2. got' = got \/ p = "reasons" \/ op = "tool_overview"
          BY <4>1, Failures
        <4>3. QED
          BY <2>3, <2>4, <3>1, <4>2
      <3>4. CASE FindNames
        BY <2>4, <3>4 DEF FindNames
      <3>5. ~Write /\ ~Answered /\ ~UNCHANGED vars
        BY <3>1, <1>0, Writes DEF Answered, vars
      <3>6. QED
        BY <1>0, <1>2, <3>2, <3>3, <3>4, <3>5, Asks DEF Next
    <2>6. DOMAIN got' \subseteq {"over", "reason", "fdr", "fcl"}
      BY <2>3, <2>4, <2>5 DEF TrendInv
    <2>7. ASSUME "over" \in DOMAIN got', NEW d
          PROVE  LET c == At(got'.over, d, NoCounts) IN c.success \in Nat /\ c.failed \in Nat
      <3>1. CASE "over" \in DOMAIN got
        <4>1. got'["over"] = got["over"]
          BY <2>2, <3>1 DEF Kept
        <4>2. QED
          BY <2>3, <3>1, <4>1 DEF TrendInv
      <3>2. CASE "over" \notin DOMAIN got
        <4>1. "over" \in Due /\ got'["over"] \in Found("over")
          BY <2>5, <2>7, <3>2
        <4>2. got'["over"] = TrendCounts(ask.f, "fff") /\ ask.f \in Conditions
          BY <2>3, <2>4, <4>1 DEF Found
        <4>3. QED
          BY <1>0, <4>2, NamesOfDate
      <3>3. QED
        BY <3>1, <3>2
    <2>8. ASSUME "reason" \in DOMAIN got', NEW d
          PROVE  LET r == At(got'.reason, d, <<>>) IN Ints(r, DOMAIN r)
      <3>1. CASE "reason" \in DOMAIN got
        <4>1. got'["reason"] = got["reason"]
          BY <2>2, <3>1 DEF Kept
        <4>2. QED
          BY <2>3, <3>1, <4>1 DEF TrendInv
      <3>2. CASE "reason" \notin DOMAIN got
        <4>1. "reason" \in Due /\ got'["reason"] \in Found("reason")
          BY <2>5, <2>8, <3>2
        <4>2. got'["reason"] = TrendReasons(ask.f) /\ ask.f \in Conditions
          BY <2>3, <2>4, <4>1 DEF Found
        <4>3. QED
          BY <1>0, <4>2, NamesOfDate
      <3>3. QED
        BY <3>1, <3>2
    <2>9. QED
      BY <2>6, <2>7, <2>8 DEF TrendInv
  <1>3. QED
    BY <1>1, <1>2

LEMMA TrendAlways == Spec => []TrendInv
  <1>1. Init => TrendInv
    BY DEF Init, TrendInv
  <1>2. QED
    BY <1>1, TrendHolds, Always, PTL DEF Spec

\* The dates of a stage trend: finitely many, and those of the counts are among them.
LEMMA DatesOfTrend ==
    ASSUME Shape, NEW f \in Conditions, DatesOf(f), NEW found,
           DOMAIN found = {"over", "reason", "fdr", "fcl"}, found["over"] = TrendCounts(f, "fff"),
           found["reason"] = TrendReasons(f), found["fdr"] = TrendCounts(f, "fdr"),
           found["fcl"] = TrendCounts(f, "fcl")
    PROVE  /\ IsFiniteSet(TrendDates(f, found))
           /\ IsFiniteSet(DOMAIN TrendCounts(f, "fff"))
           /\ DOMAIN TrendCounts(f, "fff") \subseteq TrendDates(f, found)
  <1> DEFINE g == AnyFilter(f)
             parts == AggCommon("overview", g)
             tagged == AggCommon("reason", g)
             O == {Day(p.u) : p \in parts}
             R == {Day(p.u) : p \in WithReason("fff", tagged)}
  <1>1. /\ \A stage : DOMAIN TrendCounts(f, stage) = O
        /\ DOMAIN TrendReasons(f) = R
    BY DEF TrendCounts, TrendReasons, AnyFilter
  <1>2. IsFiniteSet(O)
    BY <1>1, TrendOnce
  <1>3. R \subseteq O
    <2>1. SUFFICES ASSUME NEW p \in tagged
                   PROVE  Day(p.u) \in O
      BY DEF WithReason
    <2>2. p.u \in Rows(f)
      BY WithoutFilter, PartsOnce
    <2>3. PICK q \in parts : q.u = p.u
      BY <2>2, WithoutFilter, PartsOnce
    <2>4. QED
      BY <2>3
  <1>4. CASE f.start # NoDay
    <2>1. f.start \in Int /\ f.end \in Int /\ f.end # NoDay
      BY <1>4 DEF DatesOf
    <2>2. TrendDates(f, found) = f.start .. f.end
      BY <1>4 DEF TrendDates
    <2>3. \A p \in parts : Day(p.u) \in f.start .. f.end
      <3>1. g.start = f.start /\ g.end = f.end
        BY DEF AnyFilter, Conditions
      <3> HIDE DEF g
      <3>2. \A p \in parts : InDates(g, Day(p.u))
        BY DEF AggCommon, Day
      <3> HIDE DEF parts
      <3>3. QED
        BY <1>4, <2>1, <3>1, <3>2 DEF InDates
    <2>4. IsFiniteSet(f.start .. f.end)
      BY <2>1, FS_Interval
    <2>5. O \subseteq f.start .. f.end
      <3> HIDE DEF parts
      <3> QED  BY <2>3
    <2> HIDE DEF O
    <2>6. QED
      BY <1>1, <1>2, <2>2, <2>4, <2>5
  <1>5. CASE f.start = NoDay
    <2> HIDE DEF O, R
    <2>1. TrendDates(f, found) = UNION {DOMAIN found[q] : q \in DOMAIN found}
      BY <1>5 DEF TrendDates
    <2>2. UNION {DOMAIN found[q] : q \in {"over", "reason", "fdr", "fcl"}} = O
      <3>1. \A q \in {"over", "reason", "fdr", "fcl"} : DOMAIN found[q] = IF q = "reason" THEN R ELSE O
        BY <1>1
      <3>2. QED
        BY <1>3, <3>1
    <2>3. TrendDates(f, found) = O
      BY <2>1, <2>2
    <2>4. QED
      BY <1>1, <1>2, <2>3
  <1>6. QED
    BY <1>4, <1>5

\* Found in summaries that stand still, the series of each date sum to its counts, and
\* all of them to the overview of FFF.
LEMMA TrendSums ==
    ASSUME Shape, NEW f \in Conditions, DatesOf(f), f.filter = None, NEW found,
           DOMAIN found = {"over", "reason", "fdr", "fcl"}, found["over"] = TrendCounts(f, "fff"),
           found["reason"] = TrendReasons(f), found["fdr"] = TrendCounts(f, "fdr"),
           found["fcl"] = TrendCounts(f, "fcl")
    PROVE  LET trend == StageTrend(f, found)
               sums == Derived(trend, "fff")
               counted(d) == LET c == At(found.over, d, NoCounts) IN c.success + c.failed
           IN  /\ \A d \in DOMAIN trend : sums.daily[d] = counted(d)
               /\ sums.grand = FffOverview(f).total
  <1> DEFINE trend == StageTrend(f, found)
             D == TrendDates(f, found)
             over == TrendCounts(f, "fff")
             F == NamesOf("fff")
             at(d) == At(over, d, NoCounts)
             m == [d \in D |-> trend[d]["fff"]]
             names == UNION {DOMAIN trend[d]["fff"] : d \in DOMAIN trend}
             cnt == [d \in D |-> at(d).success + at(d).failed]
             own == [d \in DOMAIN over |-> over[d].success + over[d].failed]
             rows == SumsOfRows(m, D, names)
  <1>1. /\ DOMAIN trend = D
        /\ \A d \in D : trend[d]["fff"] = FffVals(at(d), At(found["reason"], d, <<>>))
    BY DEF StageTrend
  <1>2. IsFiniteSet(D) /\ IsFiniteSet(DOMAIN over) /\ DOMAIN over \subseteq D
    BY DatesOfTrend
  <1>3. ASSUME NEW d \in D
        PROVE  /\ DOMAIN m[d] = F /\ Ints(m[d], F) /\ Total(m[d]) = cnt[d]
               /\ at(d).success \in Nat /\ at(d).failed \in Nat /\ cnt[d] \in Int
    <2> DEFINE c == at(d)
               r == At(found["reason"], d, <<>>)
    <2>1. /\ Ints(r, DOMAIN r) /\ c.success \in Nat /\ c.failed \in Nat /\ NamedBy(r) <= c.failed
      BY NamesOfDate
    <2>2. m[d] = FffVals(c, r) /\ cnt[d] = c.success + c.failed
      BY <1>1
    <2> HIDE DEF c, r, m, cnt, D
    <2>3. DOMAIN m[d] = F /\ Ints(m[d], F) /\ Total(m[d]) = cnt[d]
      BY <2>1, <2>2, SeriesOfCounts
    <2>4. cnt[d] \in Int
      BY <2>1, <2>2
    <2>5. QED
      BY <2>1, <2>3, <2>4 DEF c
  <1>4. \A d \in D : DOMAIN trend[d]["fff"] = F /\ m[d] = trend[d]["fff"]
    BY <1>3
  <1>5. names = (IF D = {} THEN {} ELSE F)
    <2> HIDE DEF trend, D, m
    <2> QED  BY <1>1, <1>4
  <1>6. IsFiniteSet(names)
    <2>1. "fff" \in StageLists
      BY DEF StageLists
    <2>2. IsFiniteSet(F)
      BY <2>1, SeriesNames
    <2>3. QED
      BY <1>5, <2>2, FS_EmptySet
  <1>7. \A d \in D : Ints(m[d], names) /\ SumFunctionOnSet(m[d], names) = cnt[d]
    <2> SUFFICES ASSUME NEW d \in D
                 PROVE  Ints(m[d], names) /\ SumFunctionOnSet(m[d], names) = cnt[d]
      OBVIOUS
    <2>1. names = F
      BY <1>5
    <2> HIDE DEF D, names, m, cnt
    <2>2. QED
      BY <1>3, <2>1 DEF Total, SumFunction
  <1>8. Derived(trend, "fff").grand = SumFunctionOnSet(ColumnsOf(m, D, names), names)
    <2> DEFINE totals == [n \in names |-> Total([d \in DOMAIN trend |-> trend[d]["fff"][n]])]
    <2>1. Derived(trend, "fff").grand = Total(totals)
      BY DEF Derived
    <2>2. Total(totals) = SumFunctionOnSet(totals, names)
      BY DEF Total, SumFunction
    <2> HIDE DEF trend, D
    <2>3. \A n : [d \in DOMAIN trend |-> trend[d]["fff"][n]] = [d \in D |-> m[d][n]]
      BY <1>1
    <2>4. \A n \in names : totals[n] = ColumnsOf(m, D, names)[n]
      <3> SUFFICES ASSUME NEW n \in names
                   PROVE  totals[n] = ColumnsOf(m, D, names)[n]
        OBVIOUS
      <3> DEFINE c1 == [d \in DOMAIN trend |-> trend[d]["fff"][n]]
                 c2 == [d \in D |-> m[d][n]]
      <3>1. c1 = c2 /\ DOMAIN c2 = D
        BY <2>3
      <3>2. totals[n] = Total(c1) /\ ColumnsOf(m, D, names)[n] = SumFunctionOnSet(c2, D)
        BY DEF ColumnsOf
      <3> HIDE DEF c1, c2
      <3>3. QED
        BY <3>1, <3>2 DEF Total, SumFunction
    <2> DEFINE columns == ColumnsOf(m, D, names)
    <2> HIDE DEF totals, names, columns, m
    <2>5. SumFunctionOnSet(totals, names) = SumFunctionOnSet(columns, names)
      BY <1>6, <2>4, SumSame DEF columns
    <2>6. QED
      BY <2>1, <2>2, <2>5 DEF columns
  <1>9. \A d \in D : Derived(trend, "fff").daily[d] = cnt[d]
    <2>1. \A d \in D : Derived(trend, "fff").daily[d] = Total(m[d])
      BY <1>1 DEF Derived
    <2>2. QED
      BY <1>3, <2>1
  <1>10. \A d \in D : rows[d] = cnt[d]
    <2> HIDE DEF m, names, cnt, D
    <2> QED  BY <1>7 DEF SumsOfRows
  <1>11. /\ \A d \in DOMAIN over : own[d] = cnt[d]
         /\ \A d \in D \ DOMAIN over : cnt[d] = 0
    <2>1. \A d \in DOMAIN over : d \in D /\ at(d) = over[d]
      BY <1>2 DEF At
    <2>2. \A d \in D \ DOMAIN over : at(d).success = 0 /\ at(d).failed = 0
      BY DEF At, NoCounts
    <2> HIDE DEF over, D, at
    <2>3. QED
      BY <2>1, <2>2
  <1>12. Total(own) = Cardinality(UuidsWith(Rows(f), "fff", "success"))
                      + Cardinality(UuidsWith(Rows(f), "fff", "discard"))
    BY TrendOnce
  <1>13. FffOverview(f).total = Cardinality(UuidsWith(Rows(f), "fff", "success"))
                                + Cardinality(UuidsWith(Rows(f), "fff", "discard"))
    <2>1. {u \in Rows(f) : OrAny(f.filter, Filter(u))} = Rows(f)
      BY DEF OrAny
    <2>2. QED
      BY <2>1, OverviewOnce
  <1>14. Total(own) = SumFunctionOnSet(own, DOMAIN over)
    BY DEF Total, SumFunction
  <1>15. \A d \in D : cnt[d] \in Int
    BY <1>3
  <1> DEFINE grand == Derived(trend, "fff").grand
             columns == ColumnsOf(m, D, names)
             E == DOMAIN over
  <1> HIDE DEF m, names, cnt, own, rows, E
  <1>16. grand = SumFunctionOnSet(cnt, D)
    <2> HIDE DEF D, trend
    <2>1. SumFunctionOnSet(columns, names) = SumFunctionOnSet(rows, D)
      BY <1>2, <1>6, <1>7, SumSwap DEF rows
    <2>2. SumFunctionOnSet(rows, D) = SumFunctionOnSet(cnt, D)
      BY <1>2, <1>10, SumSame
    <2>3. QED
      BY <1>8, <2>1, <2>2
  <1>17. SumFunctionOnSet(cnt, D) = SumFunctionOnSet(own, E)
    <2> HIDE DEF D
    <2>1. E \in SUBSET D /\ IsFiniteSet(E) /\ IsFiniteSet(D \ E) /\ Ints(cnt, D)
      BY <1>2, <1>15, FS_Subset DEF Ints, E
    <2>2. SumFunctionOnSet(cnt, D) = SumFunctionOnSet(cnt, E) + SumFunctionOnSet(cnt, D \ E)
      BY <1>2, <2>1, SumUnion
    <2>3. SumFunctionOnSet(cnt, D \ E) = 0
      BY <1>11, <2>1, SumZero DEF E
    <2>4. SumFunctionOnSet(cnt, E) = SumFunctionOnSet(own, E)
      BY <1>11, <2>1, SumSame DEF E
    <2>5. SumFunctionOnSet(cnt, E) \in Int
      BY <1>2, <2>1, SumIntSub
    <2>6. QED
      BY <2>2, <2>3, <2>4, <2>5
  <1>18. grand = FffOverview(f).total
    BY <1>12, <1>13, <1>14, <1>16, <1>17 DEF E
  <1>19. \A d \in D : cnt[d] = at(d).success + at(d).failed
    BY DEF cnt
  <1>20. QED
    BY <1>1, <1>9, <1>18, <1>19

\* What a stage trend of a filter has found: series of each stage that divide what
\* reached it
SeriesInv ==
    op = "trend" /\ "detail" \in DOMAIN got =>
        \A d \in DOMAIN got.detail :
            LET c == got.detail[d]
            IN  Total(c.fdr) <= c.fff["success"] /\ Total(c.fcl) = c.fdr["success"]

LEMMA SeriesHold ==
    ASSUME Base, SeriesInv, [Next]_vars
    PROVE  SeriesInv'
  <1>0. Shape
    BY DEF Base
  <1>1. SUFFICES ASSUME op' = "trend", "detail" \in DOMAIN got'
                 PROVE  \A d \in DOMAIN got'["detail"] :
                            LET c == got'["detail"][d]
                            IN  Total(c.fdr) <= c.fff["success"] /\ Total(c.fcl) = c.fdr["success"]
    BY DEF SeriesInv
  <1>2. Kept
    <2>1. ~Begins
      BY <1>1 DEF Begins
    <2>2. QED
      BY <1>0, <2>1, Steps
  <1>3. CASE "detail" \in DOMAIN got
    <2>1. op = "trend" /\ got'["detail"] = got["detail"]
      BY <1>1, <1>2, <1>3 DEF Kept
    <2>2. QED
      BY <1>3, <2>1 DEF SeriesInv
  <1>4. CASE "detail" \notin DOMAIN got
    <2>1. IsNew("detail") \/ GivenUp("detail")
      BY <1>0, <1>1, <1>4, NewAnswer
    <2>2. op = "trend"
      BY <1>1, <1>2 DEF Kept
    <2>3. got'["detail"] \in Found("detail")
      BY <2>1, <2>2 DEF IsNew, GivenUp
    <2>4. got'["detail"] = FilterTrend(ask.f)
      BY <2>2, <2>3 DEF Found
    <2>5. \A d \in DOMAIN FilterTrend(ask.f) :
              LET c == FilterTrend(ask.f)[d]
              IN  Total(c.fdr) <= c.fff["success"] /\ Total(c.fcl) = c.fdr["success"]
      <3> DEFINE f == ask.f
      <3> HIDE DEF f
      <3>1. \A d \in DOMAIN FilterTrend(f) :
                LET c == FilterTrend(f)[d]
                IN  Total(c.fdr) <= c.fff["success"] /\ Total(c.fcl) = c.fdr["success"]
        BY <1>0, SeriesOfDate
      <3>2. QED
        BY <3>1 DEF f
    <2>6. QED
      BY <2>4, <2>5
  <1>5. QED
    BY <1>3, <1>4

LEMMA SeriesAlways == Spec => []SeriesInv
  <1>1. Init => SeriesInv
    BY DEF Init, SeriesInv
  <1>2. QED
    BY <1>1, SeriesHold, Always, PTL DEF Spec

\* GetStageTrend: the series of FFF lose nothing of what its overview counts on a date,
\* whatever is loaded between the four queries, and sum to exactly that when nothing is;
\* those of a filter divide what reached each stage.
THEOREM TrendsAddUp == Spec => []TrendAddsUp
  <1>1. ASSUME Base, AnswersInv, TrendInv, AnswerOf("trend"), ask.f.filter = None
        PROVE  LET trend == StageTrend(ask.f, got)
                   sums == Derived(trend, "fff")
                   counted(d) == LET c == At(got.over, d, NoCounts) IN c.success + c.failed
               IN  /\ \A d \in DOMAIN trend : sums.daily[d] >= counted(d)
                   /\ Unwritten("cube") => /\ \A d \in DOMAIN trend : sums.daily[d] = counted(d)
                                           /\ sums.grand = FffOverview(ask.f).total
    <2> DEFINE trend == StageTrend(ask.f, got)
    <2>1. op = "trend" /\ reply = "ok" /\ ask.f \in Conditions /\ DatesOf(ask.f) /\ Shape
      BY <1>1 DEF AnswerOf, Base, WellFormed
    <2>2. DOMAIN got = {"over", "reason", "fdr", "fcl"}
      <3>1. Plan(op, ask) = <<{"over", "reason", "fdr", "fcl"}>>
        BY <1>1, <2>1 DEF Plan
      <3>2. {"over", "reason", "fdr", "fcl"} \subseteq DOMAIN got
        BY <1>1, <2>1, <3>1, OkHasAll DEF Base
      <3>3. QED
        BY <1>1, <2>1, <3>2 DEF TrendInv
    <2>3. ASSUME NEW d \in DOMAIN trend
          PROVE  Derived(trend, "fff").daily[d]
                     >= At(got.over, d, NoCounts).success + At(got.over, d, NoCounts).failed
      <3> DEFINE c == At(got.over, d, NoCounts)
                 r == At(got.reason, d, <<>>)
      <3>1. c.success \in Nat /\ c.failed \in Nat /\ Ints(r, DOMAIN r)
        BY <1>1, <2>1, <2>2 DEF TrendInv
      <3>2. trend[d]["fff"] = FffVals(c, r)
        BY DEF StageTrend
      <3>3. Derived(trend, "fff").daily[d] = Total(trend[d]["fff"])
        BY DEF Derived
      <3> HIDE DEF c, r, trend
      <3>4. Total(FffVals(c, r)) >= c.success + c.failed
        BY <3>1, SeriesOfCounts
      <3>5. QED
        BY <3>2, <3>3, <3>4 DEF c
    <2>4. ASSUME Unwritten("cube")
          PROVE  LET sums == Derived(trend, "fff")
                     counted(d) == LET c == At(got.over, d, NoCounts) IN c.success + c.failed
                 IN  /\ \A d \in DOMAIN trend : sums.daily[d] = counted(d)
                     /\ sums.grand = FffOverview(ask.f).total
      <3>1. \A q \in {"over", "reason", "fdr", "fcl"} : got[q] \in Found(q)
        BY <1>1, <2>1, <2>2, <2>4 DEF AnswersInv, Untouched
      <3>2. /\ got["over"] = TrendCounts(ask.f, "fff") /\ got["reason"] = TrendReasons(ask.f)
            /\ got["fdr"] = TrendCounts(ask.f, "fdr") /\ got["fcl"] = TrendCounts(ask.f, "fcl")
        BY <2>1, <3>1 DEF Found
      <3>3. QED
        BY <1>1, <2>1, <2>2, <3>2, TrendSums
    <2>5. QED
      BY <2>3, <2>4
  <1>2. ASSUME Base, AnswersInv, SeriesInv, AnswerOf("trend"), ask.f.filter # None, NEW d \in DOMAIN got.detail
        PROVE  LET c == got.detail[d]
               IN  /\ Unwritten("ads") => Total(c.fff) = Cardinality({u \in Ads(ask.f) : Day(u) = d})
                   /\ Total(c.fdr) <= c.fff["success"]
                   /\ Total(c.fcl) = c.fdr["success"]
    <2>1. op = "trend" /\ reply = "ok" /\ Shape
      BY <1>2 DEF AnswerOf, Base
    <2>2. "detail" \in DOMAIN got
      <3>1. Plan(op, ask) = <<{"detail"}>>
        BY <1>2, <2>1 DEF Plan
      <3>2. QED
        BY <1>2, <2>1, <3>1, OkHasAll DEF Base
    <2>3. Total(got.detail[d].fdr) <= got.detail[d].fff["success"] /\ Total(got.detail[d].fcl) = got.detail[d].fdr["success"]
      BY <1>2, <2>1, <2>2 DEF SeriesInv
    <2>4. ASSUME Unwritten("ads")
          PROVE  Total(got.detail[d].fff) = Cardinality({u \in Ads(ask.f) : Day(u) = d})
      <3>1. got["detail"] \in Found("detail")
        BY <1>2, <2>1, <2>2, <2>4 DEF AnswersInv, Untouched
      <3>2. got["detail"] = FilterTrend(ask.f)
        BY <2>1, <3>1 DEF Found
      <3>3. d \in DOMAIN FilterTrend(ask.f)
        BY <1>2, <3>2
      <3>4. QED
        BY <2>1, <3>2, <3>3, SeriesOfDate
    <2>5. QED
      BY <2>3, <2>4
  <1>3. Base /\ AnswersInv /\ TrendInv /\ SeriesInv => TrendAddsUp
    BY <1>1, <1>2 DEF TrendAddsUp
  <1>4. QED
    BY <1>3, Always, AnswersAlways, TrendAlways, SeriesAlways, PTL

=============================================================================
