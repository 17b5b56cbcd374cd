-------------------------- MODULE ReconcileProofs ---------------------------
(***************************************************************************)
(* Proofs about Reconcile, for every set of rows and any number of writes: *)
(* what the views of one table count adds up, also over the queries of one *)
(* request as long as the table is not written, and the walk through the   *)
(* pages of a list sees each row once.                                     *)
(*                                                                         *)
(* The counts are lemmas of their own: a count is the sum of the counts of *)
(* disjoint parts (CountDisjoint) or of the groups (SumOfFibres).  The     *)
(* inductive invariant then says, view by view, what the answers that were *)
(* got so far are worth in the table as it is now: as a writer may replace *)
(* anything, an old count is as far from the table as there were writes.   *)
(***************************************************************************)
EXTENDS Reconcile, SetSums, SequenceTheorems

TypedTables ==
    /\ bag \in [Bags -> {Absent} \cup BagStatuses]
    /\ event \in [Keys -> Columns]
    /\ \A k \in Keys : /\ event[k].fate \in Fates \cup {"null"}
                       /\ event[k].fate = "null" => ~event[k].moved

-----------------------------------------------------------------------------
(* Counts of one table                                                     *)

LEMMA RowsAreFinite ==
    ASSUME NEW S, S \subseteq Keys
    PROVE  IsFiniteSet(S) /\ Cardinality(S) \in Nat
  BY TableAssumption, FS_Subset, FS_CardinalityType

OfFates(rows, fates) == {k \in rows : event[k].fate \in fates}

\* Rows of one of four fates are counted by each of them.
LEMMA FourFates ==
    ASSUME NEW rows, rows \subseteq Keys
    PROVE  Cardinality(OfFates(rows, {"ok", "convert", "landing", "null"})) =
             Cardinality(OfFates(rows, {"ok"})) + Cardinality(OfFates(rows, {"convert"}))
             + Cardinality(OfFates(rows, {"landing"})) + Cardinality(OfFates(rows, {"null"}))
  <1> DEFINE a == OfFates(rows, {"ok"})
             b == OfFates(rows, {"convert"})
             c == OfFates(rows, {"landing"})
             d == OfFates(rows, {"null"})
             all == OfFates(rows, {"ok", "convert", "landing", "null"})
  <1>1. /\ a \cap b = {} /\ (a \cup b) \cap c = {} /\ ((a \cup b) \cup c) \cap d = {}
        /\ all = ((a \cup b) \cup c) \cup d
    BY DEF OfFates
  <1>2. IsFiniteSet(a) /\ IsFiniteSet(b) /\ IsFiniteSet(c) /\ IsFiniteSet(d)
    BY RowsAreFinite DEF OfFates
  <1> HIDE DEF a, b, c, d, all
  <1>3. /\ Cardinality(a \cup b) = Cardinality(a) + Cardinality(b) /\ IsFiniteSet(a \cup b)
        /\ Cardinality(a) \in Nat /\ Cardinality(b) \in Nat
    BY <1>1, <1>2, CountDisjoint
  <1>4. /\ Cardinality((a \cup b) \cup c) = Cardinality(a \cup b) + Cardinality(c)
        /\ IsFiniteSet((a \cup b) \cup c) /\ Cardinality(c) \in Nat
    BY <1>1, <1>2, <1>3, CountDisjoint
  <1>5. /\ Cardinality(all) = Cardinality((a \cup b) \cup c) + Cardinality(d)
        /\ Cardinality(d) \in Nat
    BY <1>1, <1>2, <1>4, CountDisjoint
  <1>6. Cardinality(all) = Cardinality(a) + Cardinality(b) + Cardinality(c) + Cardinality(d)
    BY <1>3, <1>4, <1>5
  <1>7. QED
    BY <1>6 DEF a, b, c, d, all

\* What landed, or did not, is counted from the rows that were sent.
LEMMA LandedSum ==
    ASSUME NEW rows, rows \subseteq Keys
    PROVE  Sum(Landed(rows)) =
             Cardinality(OfFates(Sent(rows, 1), {"ok", "convert", "landing", "null"}))
  <1>1. Sent(rows, 1) \subseteq Keys
    BY DEF Sent
  <1>2. QED
    BY <1>1, FourFates DEF Sum, Landed, OfFates

LEMMA LandedOfKnown ==
    ASSUME TypedTables, NEW rows, rows \subseteq Keys, \A k \in rows : event[k].fate # "odd"
    PROVE  Cardinality(Sent(rows, 1)) = Sum(Landed(rows))
  <1>1. OfFates(Sent(rows, 1), {"ok", "convert", "landing", "null"}) = Sent(rows, 1)
    BY DEF OfFates, Sent, TypedTables, Columns, AllFates
  <1>2. QED
    BY <1>1, LandedSum

\* There are no more fates than rows that were sent, whatever is written.
LEMMA LandedAtMost ==
    ASSUME NEW rows, rows \subseteq Keys
    PROVE  Cardinality(Sent(rows, 1)) >= Sum(Landed(rows))
  <1> DEFINE landed == OfFates(Sent(rows, 1), {"ok", "convert", "landing", "null"})
  <1>1. landed \subseteq Sent(rows, 1) /\ Sent(rows, 1) \subseteq Keys
    BY DEF OfFates, Sent
  <1>2. Cardinality(landed) <= Cardinality(Sent(rows, 1))
    BY <1>1, RowsAreFinite, FS_Subset
  <1>3. /\ Cardinality(landed) \in Nat /\ Cardinality(Sent(rows, 1)) \in Nat
        /\ Sum(Landed(rows)) = Cardinality(landed)
    BY <1>1, RowsAreFinite, LandedSum
  <1> HIDE DEF landed
  <1>4. QED
    BY <1>2, <1>3

\* A row was sent, failed to be sent or parsed, or is known to the consumer alone,
\* unless its sending is pending.
LEMMA RowsDivide ==
    ASSUME TypedTables, \A k \in Keys : event[k].send # 0
    PROVE  Cardinality(Rows) = Cardinality(Sent(Rows, 1)) + Cardinality(Sent(Rows, 2))
                               + Cardinality(Sent(Rows, 3)) + Extra
  <1> DEFINE a == Sent(Rows, 1)
             b == Sent(Rows, 2)
             c == Sent(Rows, 3)
             d == {k \in Rows : event[k].fate # "null" /\ event[k].send = Absent}
  <1>1. a \cap b = {} /\ (a \cup b) \cap c = {} /\ ((a \cup b) \cup c) \cap d = {}
    BY DEF Sent, Absent
  <1>2. Rows = ((a \cup b) \cup c) \cup d
    <2>1. ASSUME NEW k \in Rows, k \notin a, k \notin b, k \notin c
          PROVE  k \in d
      <3>1. event[k].send = Absent /\ event[k] \in Columns /\ event[k] # Unwritten
        BY <2>1 DEF Rows, Sent, TypedTables, Columns, SendStatuses, Absent
      <3>2. event[k].fate # "null"
        BY <3>1 DEF Rows, TypedTables, Columns, Unwritten
      <3>3. QED
        BY <3>1, <3>2
    <2>2. QED
      BY <2>1 DEF Sent
  <1>3. IsFiniteSet(a) /\ IsFiniteSet(b) /\ IsFiniteSet(c) /\ IsFiniteSet(d)
    BY RowsAreFinite DEF Sent, Rows
  <1> HIDE DEF a, b, c, d
  <1>4. /\ Cardinality(a \cup b) = Cardinality(a) + Cardinality(b) /\ IsFiniteSet(a \cup b)
        /\ Cardinality(a) \in Nat /\ Cardinality(b) \in Nat
    BY <1>1, <1>3, CountDisjoint
  <1>5. /\ Cardinality((a \cup b) \cup c) = Cardinality(a \cup b) + Cardinality(c)
        /\ IsFiniteSet((a \cup b) \cup c) /\ Cardinality(c) \in Nat
    BY <1>1, <1>3, <1>4, CountDisjoint
  <1>6. /\ Cardinality(Rows) = Cardinality((a \cup b) \cup c) + Cardinality(d)
        /\ Cardinality(d) \in Nat
    BY <1>1, <1>2, <1>3, <1>5, CountDisjoint
  <1>7. Cardinality(Rows) = Cardinality(a) + Cardinality(b) + Cardinality(c) + Cardinality(d)
    BY <1>4, <1>5, <1>6
  <1>8. QED
    BY <1>7 DEF a, b, c, d, Extra

\* What is counted by module adds up to what is counted at once.
LEMMA ModulesAddUp ==
    ASSUME NEW S, S \subseteq Rows
    PROVE  LET modules == {Module(k) : k \in Rows}
           IN  /\ IsFiniteSet(modules)
               /\ SumFunctionOnSet([m \in modules |-> Cardinality({k \in S : Module(k) = m})],
                                   modules) = Cardinality(S)
  <1> DEFINE modules == {Module(k) : k \in Rows}
             of == [k \in Rows |-> Module(k)]
             key == [k \in S |-> Module(k)]
  <1>1. IsFiniteSet(Rows) /\ IsFiniteSet(S)
    BY RowsAreFinite DEF Rows
  <1>2. IsFiniteSet(modules)
    <2>1. of \in [Rows -> modules] /\ \A m \in modules : \E k \in Rows : of[k] = m
      OBVIOUS
    <2> HIDE DEF of, modules
    <2>2. QED
      BY <1>1, <2>1, FiniteImage
  <1>3. key \in [S -> modules]
    OBVIOUS
  <1>4. SumFunctionOnSet([m \in modules |-> Cardinality(Fibre(key, S, m))], modules)
          = Cardinality(S)
    <2> HIDE DEF key, modules
    <2> QED  BY <1>1, <1>2, <1>3, SumOfFibres
  <1>5. \A m : Fibre(key, S, m) = {k \in S : Module(k) = m}
    BY DEF Fibre
  <1>6. QED
    BY <1>2, <1>4, <1>5

LEMMA ModuleSums ==
    /\ SumFunction([m \in DOMAIN ByModule |-> ByModule[m].expected]) = EventCounts(Rows).expected
    /\ SumFunction([m \in DOMAIN ByModule |-> Sum(ByModule[m].land)]) = Sum(EventCounts(Rows).land)
  <1> DEFINE modules == {Module(k) : k \in Rows}
             part(m) == {k \in Rows : Module(k) = m}
             sent == Sent(Rows, 1)
             landed == OfFates(sent, {"ok", "convert", "landing", "null"})
             f == [m \in modules |-> Cardinality({k \in sent : Module(k) = m})]
             g == [m \in modules |-> Cardinality({k \in landed : Module(k) = m})]
  <1>1. DOMAIN ByModule = modules /\ \A m \in modules : ByModule[m] = EventCounts(part(m))
    BY DEF ByModule
  <1>2. sent \subseteq Rows /\ landed \subseteq Rows /\ Rows \subseteq Keys
    BY DEF Sent, OfFates, Rows
  <1>3. ASSUME NEW m \in modules
        PROVE  /\ ByModule[m].expected = Cardinality({k \in sent : Module(k) = m})
               /\ Sum(ByModule[m].land) = Cardinality({k \in landed : Module(k) = m})
    <2>1. /\ Sent(part(m), 1) = {k \in sent : Module(k) = m}
          /\ OfFates(Sent(part(m), 1), {"ok", "convert", "landing", "null"})
               = {k \in landed : Module(k) = m}
      BY DEF Sent, OfFates
    <2>2. part(m) \subseteq Keys
      BY <1>2
    <2>3. Sum(Landed(part(m))) = Cardinality({k \in landed : Module(k) = m})
      BY <2>1, <2>2, LandedSum
    <2>4. /\ ByModule[m].expected = Cardinality(Sent(part(m), 1))
          /\ ByModule[m].land = Landed(part(m))
      <3>1. ASSUME NEW rows
            PROVE  /\ EventCounts(rows).expected = Cardinality(Sent(rows, 1))
                   /\ EventCounts(rows).land = Landed(rows)
        BY DEF EventCounts
      <3>2. ByModule[m] = EventCounts(part(m))
        BY <1>1
      <3> HIDE DEF part
      <3>3. QED
        BY <3>1, <3>2
    <2>5. QED
      BY <2>1, <2>3, <2>4
  <1>4. /\ [m \in DOMAIN ByModule |-> ByModule[m].expected] = f
        /\ [m \in DOMAIN ByModule |-> Sum(ByModule[m].land)] = g
    BY <1>1, <1>3
  <1>5. /\ SumFunctionOnSet(f, modules) = Cardinality(sent)
        /\ SumFunctionOnSet(g, modules) = Cardinality(landed)
    <2>1. SumFunctionOnSet(f, modules) = Cardinality(sent)
      BY <1>2, ModulesAddUp
    <2>2. SumFunctionOnSet(g, modules) = Cardinality(landed)
      <3> HIDE DEF landed
      <3> QED  BY <1>2, ModulesAddUp
    <2>3. QED
      BY <2>1, <2>2
  <1>6. DOMAIN f = modules /\ DOMAIN g = modules
    OBVIOUS
  <1>7. /\ SumFunction([m \in DOMAIN ByModule |-> ByModule[m].expected]) = Cardinality(sent)
        /\ SumFunction([m \in DOMAIN ByModule |-> Sum(ByModule[m].land)]) = Cardinality(landed)
    <2> HIDE DEF f, g, modules, sent, landed
    <2> QED  BY <1>4, <1>5, <1>6 DEF SumFunction
  <1>8. /\ EventCounts(Rows).expected = Cardinality(sent)
        /\ Sum(EventCounts(Rows).land) = Cardinality(landed)
    BY <1>2, LandedSum DEF EventCounts
  <1>9. QED
    BY <1>7, <1>8

\* A list of failed landings: those that were sent, and those that were not.
LEMMA ListOfFailed ==
    ASSUME NEW type \in {"convert_failed", "landing_failed"}
    PROVE  Cardinality(Listed(type, NoFilter)) =
             Cardinality({k \in Sent(Rows, 1) : OfType(type, k)})
             + Cardinality({k \in Listed(type, NoFilter) : event[k].send # 1})
  <1> DEFINE all == Listed(type, NoFilter)
             sent == {k \in Sent(Rows, 1) : OfType(type, k)}
             unsent == {k \in all : event[k].send # 1}
  <1>1. all = {k \in Rows : OfType(type, k)}
    BY DEF Listed, InModule, OfConsume, OfConsumer, NoFilter
  <1>2. all = sent \cup unsent /\ sent \cap unsent = {}
    BY <1>1 DEF Sent
  <1>3. IsFiniteSet(sent) /\ IsFiniteSet(unsent)
    BY <1>1, RowsAreFinite DEF Sent, Rows
  <1>4. QED
    <2> HIDE DEF sent, unsent, all
    <2>1. Cardinality(all) = Cardinality(sent) + Cardinality(unsent)
      BY <1>2, <1>3, CountDisjoint
    <2>2. QED
      BY <2>1 DEF sent, unsent, all

\* The views of one table agree, whatever it holds.
LEMMA OneTableOneStory == TypedTables => ViewsAgree
  <1> DEFINE listed(type) == Cardinality(Listed(type, NoFilter))
             whole == EventCounts(Rows)
  <1>1. listed("missing") = whole.land.missing /\ listed("extra") = Extra
    <2>1. Listed("missing", NoFilter) = {k \in Sent(Rows, 1) : event[k].fate \in {"null"}}
      BY DEF Listed, InModule, OfDecode, OfConsumer, OfType, NoFilter, Sent
    <2>2. Listed("extra", NoFilter) = {k \in Rows : event[k].fate # "null" /\ event[k].send = Absent}
      BY DEF Listed, InModule, OfConsume, OfConsumer, OfType, NoFilter
    <2>3. QED
      BY <2>1, <2>2 DEF EventCounts, Landed, Extra
  <1>2. /\ {k \in Sent(Rows, 1) : OfType("convert_failed", k)}
             = {k \in Sent(Rows, 1) : event[k].fate \in {"convert"}}
        /\ {k \in Sent(Rows, 1) : OfType("landing_failed", k)}
             = {k \in Sent(Rows, 1) : event[k].fate \in {"landing"}}
    BY DEF OfType
  <1>3. /\ whole.land.convert = Cardinality({k \in Sent(Rows, 1) : OfType("convert_failed", k)})
        /\ whole.land.landing = Cardinality({k \in Sent(Rows, 1) : OfType("landing_failed", k)})
    BY <1>2 DEF EventCounts, Landed
  <1>4. QED
    BY <1>1, <1>3, ListOfFailed, ModuleSums DEF ViewsAgree

-----------------------------------------------------------------------------
(* Steps                                                                   *)

Typed ==
    /\ TypedTables
    /\ req = [view |-> req.view, f |-> req.f, got |-> req.got, late |-> req.late, done |-> req.done]
    /\ req.view \in {"none"} \cup AllViews
    /\ req.late \in Nat

\* Between two requests nothing is known.
Fresh == req.got = <<>> /\ ~req.done

\* What a writer leaves: another row or another bag, and a request that is later.
OneWrite ==
    /\ \/ bag' = bag /\ \E k \in Keys : \A l \in Keys : l # k => event'[l] = event[l]
       \/ event' = event /\ \E b \in Bags : \A c \in Bags : c # b => bag'[c] = bag[c]
    /\ req'.view = req.view /\ req'.f = req.f /\ req'.got = req.got
    /\ ~req.done /\ ~req'.done
    /\ req.view # "none" => req'.late = req.late + 1

LEMMA WrittenLate ==
    ASSUME Typed, Written
    PROVE  /\ req' = [view |-> req'.view, f |-> req'.f, got |-> req'.got,
                      late |-> req'.late, done |-> req'.done]
           /\ req'.late \in Nat /\ req'.view = req.view /\ req'.f = req.f /\ req'.got = req.got
           /\ ~req.done /\ req'.done = req.done
           /\ req.view # "none" => req'.late = req.late + 1
  <1>1. CASE req.view = "none"
    BY <1>1 DEF Typed, Written
  <1>2. CASE req.view # "none"
    <2>1. req' = [view |-> req.view, f |-> req.f, got |-> req.got,
                  late |-> req.late + 1, done |-> req.done]
      BY <1>2 DEF Typed, Written
    <2>2. QED
      BY <2>1, <1>2 DEF Typed, Written
  <1>3. QED
    BY <1>1, <1>2

LEMMA WriteIsOne ==
    ASSUME Typed, Write
    PROVE  Typed' /\ OneWrite
  <1>1. ASSUME NEW b \in Bags, NEW status \in BagStatuses, WriteBag(b, status)
        PROVE  Typed' /\ OneWrite
    <2>1. bag' \in [Bags -> {Absent} \cup BagStatuses] /\ event' = event
      BY <1>1 DEF WriteBag, Typed, TypedTables
    <2>2. \A c \in Bags : c # b => bag'[c] = bag[c]
      BY <1>1 DEF WriteBag, Typed, TypedTables
    <2>3. Written
      BY <1>1 DEF WriteBag
    <2>4. QED
      BY <2>1, <2>2, <2>3, WrittenLate DEF Typed, TypedTables, OneWrite
  <1>2. ASSUME NEW k \in Keys, NEW status \in SendStatuses, Decode(k, status)
        PROVE  Typed' /\ OneWrite
    <2>1. /\ bag' = bag /\ event[k] \in Columns
          /\ event' = [event EXCEPT ![k] = [event[k] EXCEPT !.send = status]]
      BY <1>2 DEF Decode, Typed, TypedTables
    <2>2. /\ [event[k] EXCEPT !.send = status] \in Columns
          /\ [event[k] EXCEPT !.send = status].fate = event[k].fate
          /\ [event[k] EXCEPT !.send = status].moved = event[k].moved
      BY <2>1 DEF Columns
    <2>3. Written
      BY <1>2 DEF Decode
    <2>4. event' \in [Keys -> Columns]
      BY <2>1, <2>2 DEF Typed, TypedTables
    <2>5. ASSUME NEW l \in Keys
          PROVE  /\ event'[l].fate = event[l].fate /\ event'[l].moved = event[l].moved
                 /\ l # k => event'[l] = event[l]
      BY <2>1, <2>2 DEF Typed, TypedTables
    <2>6. Typed'
      BY <2>1, <2>3, <2>4, <2>5, WrittenLate DEF Typed, TypedTables
    <2>7. QED
      BY <2>1, <2>3, <2>5, <2>6, WrittenLate DEF OneWrite
  <1>3. ASSUME NEW k \in Keys, NEW fate \in Fates, NEW moved \in BOOLEAN, Consume(k, fate, moved)
        PROVE  Typed' /\ OneWrite
    <2> DEFINE columns == [[event[k] EXCEPT !.fate = fate] EXCEPT !.moved = moved]
    <2>1. /\ bag' = bag /\ event[k] \in Columns
          /\ event' = [event EXCEPT ![k] = columns]
      BY <1>3 DEF Consume, Typed, TypedTables
    <2>2. fate \in AllFates /\ fate # "null"
      BY TableAssumption DEF AllFates
    <2>3. columns \in Columns /\ columns.fate = fate
      BY <2>1, <2>2 DEF Columns
    <2>4. Written
      BY <1>3 DEF Consume
    <2> HIDE DEF columns
    <2>5. event' \in [Keys -> Columns]
      BY <2>1, <2>3 DEF Typed, TypedTables
    <2>6. ASSUME NEW l \in Keys
          PROVE  /\ event'[l].fate \in Fates \cup {"null"}
                 /\ event'[l].fate = "null" => ~event'[l].moved
                 /\ l # k => event'[l] = event[l]
      BY <2>1, <2>2, <2>3 DEF Typed, TypedTables
    <2>7. Typed'
      BY <2>1, <2>4, <2>5, <2>6, WrittenLate DEF Typed, TypedTables
    <2>8. QED
      BY <2>1, <2>4, <2>6, <2>7, WrittenLate DEF OneWrite
  <1>4. QED
    BY <1>1, <1>2, <1>3 DEF Write

\* An answer of a query leaves the others.
LEMMA AnswerKeeps ==
    ASSUME Typed, NEW q, NEW answer, Answer(q, answer)
    PROVE  /\ Typed' /\ bag' = bag /\ event' = event
           /\ req'.view = req.view /\ req'.f = req.f /\ req'.late = req.late
           /\ ~req.done /\ ~req'.done /\ ~Asked(q)
           /\ DOMAIN req'.got = DOMAIN req.got \cup {q} /\ req'.got[q] = answer
           /\ \A x \in DOMAIN req.got : req'.got[x] = req.got[x]
  <1>1. req' = [view |-> req.view, f |-> req.f, got |-> Got(q, answer),
                late |-> req.late, done |-> req.done]
    BY DEF Typed, Answer
  <1>2. ~req.done /\ ~Asked(q) /\ bag' = bag /\ event' = event
    BY DEF Answer
  <1>3. /\ DOMAIN Got(q, answer) = DOMAIN req.got \cup {q} /\ Got(q, answer)[q] = answer
        /\ \A x \in DOMAIN req.got : Got(q, answer)[x] = req.got[x]
    BY <1>2 DEF Got, Asked
  <1> HIDE DEF Got
  <1>4. QED
    BY <1>1, <1>2, <1>3 DEF Typed, TypedTables

\* A request that begins or fails has no answers.
LEMMA ResetForgets ==
    ASSUME Typed, Fail \/ \E view \in Views, f \in Filters : Ask(view, f)
    PROVE  /\ Typed' /\ bag' = bag /\ event' = event
           /\ DOMAIN req'.got = {} /\ ~req'.done /\ req'.late = 0
  <1>1. CASE Fail
    BY <1>1 DEF Fail, NoRequest, Typed, TypedTables
  <1>2. ASSUME NEW view \in Views, NEW f \in Filters, Ask(view, f)
        PROVE  /\ Typed' /\ bag' = bag /\ event' = event
               /\ DOMAIN req'.got = {} /\ ~req'.done /\ req'.late = 0
    <2>1. /\ req' = [view |-> view, f |-> f, got |-> <<>>, late |-> 0, done |-> FALSE]
          /\ bag' = bag /\ event' = event
      BY <1>2 DEF Ask, NoRequest
    <2>2. view \in AllViews
      BY TableAssumption
    <2>3. QED
      BY <2>1, <2>2 DEF Typed, TypedTables
  <1>3. QED
    BY <1>1, <1>2

LEMMA RespondKeeps ==
    ASSUME Typed, Respond
    PROVE  /\ Typed' /\ bag' = bag /\ event' = event
           /\ req'.view = req.view /\ req'.f = req.f /\ req'.late = req.late
           /\ req'.got = req.got
           /\ req.view = "overview" => \A q \in {"bag", "event", "extra"} : Asked(q)
           /\ req.view = "tree" => Counted /\ \A type \in Due : Asked(type)
           /\ req.view \in {"overview", "tree"}
  <1>1. /\ req' = [view |-> req.view, f |-> req.f, got |-> req.got, late |-> req.late, done |-> TRUE]
        /\ bag' = bag /\ event' = event
    BY DEF Typed, Respond
  <1>2. /\ req.view = "overview" => \A q \in {"bag", "event", "extra"} : Asked(q)
        /\ req.view = "tree" => Counted /\ \A type \in Due : Asked(type)
        /\ req.view \in {"overview", "tree"}
    BY DEF Respond
  <1>3. QED
    BY <1>1, <1>2 DEF Typed, TypedTables

\* What a step of the walk leaves
Stepped(next, done) ==
    /\ Typed' /\ bag' = bag /\ event' = event
    /\ req'.view = req.view /\ req'.f = req.f /\ req'.late = req.late
    /\ DOMAIN req'.got = DOMAIN req.got /\ Asked("walk")
    /\ req'.got["walk"] = next /\ req'.done = done

LEMMA WalkSteps ==
    ASSUME Typed, Asked("walk"), NEW next, NEW done,
           req' = [req EXCEPT !.got = Got("walk", next), !.done = done],
           UNCHANGED <<bag, event>>
    PROVE  Stepped(next, done)
  <1>1. req' = [view |-> req.view, f |-> req.f, got |-> Got("walk", next),
                late |-> req.late, done |-> done]
    BY DEF Typed
  <1>2. DOMAIN Got("walk", next) = DOMAIN req.got /\ Got("walk", next)["walk"] = next
    BY DEF Got, Asked
  <1> HIDE DEF Got
  <1>3. QED
    BY <1>1, <1>2 DEF Typed, TypedTables, Stepped

\* A page of a walk, once its order is known
TurnPage(s) ==
    LET more == Walk.page * Walk.size < Walk.total
        seen == Walk.seen \o Page(s, Walk.page, Walk.size)
    IN  Stepped(IF more THEN [Walk EXCEPT !.seen = seen, !.page = @ + 1, !.total = -1]
                        ELSE [Walk EXCEPT !.seen = seen], ~more)

LEMMA WalkKinds ==
    ASSUME Typed
    PROVE  /\ CountPage =>
                LET total == Cardinality(Listed(Walk.type, req.f))
                IN  Stepped([Walk EXCEPT !.total = total], total = 0)
           /\ ListPage =>
                \E s \in Orders(Listed(Walk.type, req.f)) : TurnPage(s)
  <1>1. ASSUME CountPage
        PROVE  LET total == Cardinality(Listed(Walk.type, req.f))
               IN  Stepped([Walk EXCEPT !.total = total], total = 0)
    <2> DEFINE total == Cardinality(Listed(Walk.type, req.f))
               next == [Walk EXCEPT !.total = total]
               done == (total = 0)
    <2>1. /\ req' = [req EXCEPT !.got = Got("walk", next), !.done = done]
          /\ UNCHANGED <<bag, event>> /\ Asked("walk")
      BY <1>1 DEF CountPage
    <2> HIDE DEF next, done
    <2>2. Stepped(next, done)
      BY <2>1, WalkSteps
    <2>3. QED
      BY <2>2 DEF next, done
  <1>2. ASSUME ListPage
        PROVE  \E s \in Orders(Listed(Walk.type, req.f)) : TurnPage(s)
    <2> DEFINE more == Walk.page * Walk.size < Walk.total
               Seen(s) == Walk.seen \o Page(s, Walk.page, Walk.size)
               Following(s) == IF more THEN [Walk EXCEPT !.seen = Seen(s), !.page = @ + 1, !.total = -1]
                               ELSE [Walk EXCEPT !.seen = Seen(s)]
    <2>1. PICK s \in Orders(Listed(Walk.type, req.f)) :
            req' = [req EXCEPT !.got = Got("walk", Following(s)), !.done = ~more]
      BY <1>2 DEF ListPage
    <2>2. UNCHANGED <<bag, event>> /\ Asked("walk")
      BY <1>2 DEF ListPage
    <2>3. TurnPage(s) <=> Stepped(Following(s), ~more)
      BY DEF TurnPage
    <2> HIDE DEF Following, more
    <2>4. Stepped(Following(s), ~more)
      BY <2>1, <2>2, WalkSteps
    <2>5. QED
      BY <2>3, <2>4
  <1>3. QED
    BY <1>1, <1>2

LEMMA TypedHolds == Typed /\ [Next]_vars => Typed'
  <1> SUFFICES ASSUME Typed, [Next]_vars
               PROVE  Typed'
    OBVIOUS
  <1>1. CASE Write
    BY <1>1, WriteIsOne
  <1>2. CASE Fail \/ \E view \in Views, f \in Filters : Ask(view, f)
    BY <1>2, ResetForgets
  <1>3. CASE AnswerOverview
    BY <1>3, AnswerKeeps DEF AnswerOverview
  <1>4. CASE AnswerTree
    BY <1>4, AnswerKeeps DEF AnswerTree
  <1>5. CASE AnswerReasons
    BY <1>5, AnswerKeeps DEF AnswerReasons
  <1>6. CASE Respond
    BY <1>6, RespondKeeps
  <1>7. CASE StartWalk
    BY <1>7, AnswerKeeps DEF StartWalk
  <1>8. CASE CountPage \/ ListPage
    BY <1>8, WalkKinds DEF Stepped, TurnPage
  <1>9. CASE UNCHANGED vars
    BY <1>9 DEF vars, Typed, TypedTables
  <1>10. QED
    BY <1>1, <1>2, <1>3, <1>4, <1>5, <1>6, <1>7, <1>8, <1>9 DEF Next

-----------------------------------------------------------------------------
(* The overview                                                            *)

\* Counts of one query, which the writers cannot divide otherwise.
Divided(e) == e.expected >= Sum(e.land) /\ ("odd" \notin Fates => e.expected = Sum(e.land))

\* The answers of an overview: what they are worth now.
OverviewInv ==
    req.view = "overview" =>
        /\ "event" \in DOMAIN req.got =>
               /\ Divided(req.got["event"])
               /\ Quiet => req.got["event"] = EventCounts(Rows)
        /\ "extra" \in DOMAIN req.got /\ Quiet => req.got["extra"] = Extra
        /\ req.done => {"event", "extra"} \subseteq DOMAIN req.got

LEMMA EventCountsDivide ==
    ASSUME TypedTables
    PROVE  Divided(EventCounts(Rows))
  <1>1. Rows \subseteq Keys /\ ("odd" \notin Fates => \A k \in Rows : event[k].fate # "odd")
    BY DEF Rows, TypedTables
  <1>2. /\ EventCounts(Rows).expected = Cardinality(Sent(Rows, 1))
        /\ EventCounts(Rows).land = Landed(Rows)
    BY DEF EventCounts
  <1>3. Cardinality(Sent(Rows, 1)) >= Sum(Landed(Rows))
    BY <1>1, LandedAtMost
  <1>4. "odd" \notin Fates => Cardinality(Sent(Rows, 1)) = Sum(Landed(Rows))
    BY <1>1, LandedOfKnown
  <1>5. QED
    BY <1>2, <1>3, <1>4 DEF Divided

LEMMA SameTables ==
    ASSUME bag' = bag, event' = event
    PROVE  EventCounts(Rows)' = EventCounts(Rows) /\ Extra' = Extra
  BY DEF EventCounts, Rows, Sent, Landed, Extra

LEMMA OverviewHolds ==
    ASSUME Typed, OverviewInv, [Next]_vars
    PROVE  OverviewInv'
  <1> SUFFICES ASSUME req'.view = "overview"
               PROVE  /\ "event" \in DOMAIN req'.got =>
                           /\ Divided(req'.got["event"])
                           /\ Quiet' => req'.got["event"] = EventCounts(Rows)'
                      /\ "extra" \in DOMAIN req'.got /\ Quiet' => req'.got["extra"] = Extra'
                      /\ req'.done => {"event", "extra"} \subseteq DOMAIN req'.got
    BY DEF OverviewInv, Divided, Sum
  <1>1. CASE Write
    <2>1. OneWrite /\ req.late \in Nat
      BY <1>1, WriteIsOne DEF Typed
    <2>2. req.view = "overview" /\ ~Quiet' /\ req'.got = req.got /\ ~req'.done
      BY <2>1 DEF OneWrite, Quiet
    <2>3. QED
      BY <2>2 DEF OverviewInv
  <1>2. CASE Fail \/ \E view \in Views, f \in Filters : Ask(view, f)
    BY <1>2, ResetForgets
  <1>3. CASE AnswerOverview
    <2>1. ASSUME NEW answer, Answer("bag", answer)
          PROVE  /\ "event" \in DOMAIN req'.got =>
                      /\ Divided(req'.got["event"])
                      /\ Quiet' => req'.got["event"] = EventCounts(Rows)'
                 /\ "extra" \in DOMAIN req'.got /\ Quiet' => req'.got["extra"] = Extra'
                 /\ ~req'.done
      BY <2>1, AnswerKeeps, SameTables DEF OverviewInv, Quiet
    <2>2. ASSUME Answer("event", EventCounts(Rows))
          PROVE  /\ "event" \in DOMAIN req'.got =>
                      /\ Divided(req'.got["event"])
                      /\ Quiet' => req'.got["event"] = EventCounts(Rows)'
                 /\ "extra" \in DOMAIN req'.got /\ Quiet' => req'.got["extra"] = Extra'
                 /\ ~req'.done
      <3>1. Divided(EventCounts(Rows))
        BY EventCountsDivide DEF Typed
      <3>2. QED
        BY <2>2, <3>1, AnswerKeeps, SameTables DEF OverviewInv, Quiet
    <2>3. ASSUME Answer("extra", Extra)
          PROVE  /\ "event" \in DOMAIN req'.got =>
                      /\ Divided(req'.got["event"])
                      /\ Quiet' => req'.got["event"] = EventCounts(Rows)'
                 /\ "extra" \in DOMAIN req'.got /\ Quiet' => req'.got["extra"] = Extra'
                 /\ ~req'.done
      BY <2>3, AnswerKeeps, SameTables DEF OverviewInv, Quiet
    <2>4. QED
      BY <1>3, <2>1, <2>2, <2>3 DEF AnswerOverview
  <1>4. CASE AnswerTree \/ AnswerReasons
    <2>1. req.view = "tree"
      BY <1>4 DEF AnswerTree, AnswerReasons
    <2>2. req'.view = "tree"
      BY <1>4, <2>1, AnswerKeeps DEF AnswerTree, AnswerReasons
    <2>3. QED
      BY <2>2
  <1>5. CASE Respond
    BY <1>5, RespondKeeps, SameTables DEF OverviewInv, Quiet, Asked
  <1>6. CASE StartWalk \/ CountPage \/ ListPage
    <2>1. req.view = "list"
      BY <1>6 DEF StartWalk, CountPage, ListPage
    <2>2. req'.view = "list"
      BY <1>6, <2>1, AnswerKeeps, WalkKinds DEF StartWalk, Stepped, TurnPage
    <2>3. QED
      BY <2>2
  <1>7. CASE UNCHANGED vars
    BY <1>7, SameTables DEF vars, OverviewInv, Quiet
  <1>8. QED
    BY <1>1, <1>2, <1>3, <1>4, <1>5, <1>6, <1>7 DEF Next

LEMMA OverviewCounts ==
    ASSUME TypedTables, OverviewInv
    PROVE  EveryEventIsCountedOnce
  <1> SUFFICES ASSUME Answered("overview")
               PROVE  /\ Divided(req.got["event"])
                      /\ Quiet /\ Known => Cardinality(Rows) =
                             req.got["event"].expected + req.got["event"].sendFailed
                             + req.got["event"].parseFailed + req.got["extra"]
    BY DEF EveryEventIsCountedOnce, Divided
  <1>1. Known => \A k \in Keys : event[k].send # 0
    BY DEF Known
  <1>2. /\ "event" \in DOMAIN req.got /\ "extra" \in DOMAIN req.got
        /\ Divided(req.got["event"])
        /\ Quiet => req.got["event"] = EventCounts(Rows) /\ req.got["extra"] = Extra
    BY DEF Answered, OverviewInv
  <1>3. /\ EventCounts(Rows).expected = Cardinality(Sent(Rows, 1))
        /\ EventCounts(Rows).sendFailed = Cardinality(Sent(Rows, 2))
        /\ EventCounts(Rows).parseFailed = Cardinality(Sent(Rows, 3))
    BY DEF EventCounts
  <1>4. QED
    BY <1>1, <1>2, <1>3, RowsDivide

-----------------------------------------------------------------------------
(* The pipeline tree                                                       *)

\* What a failure of the tree counts: the bags, and the rows it finds reasons of.
OfFailure(type) ==
    IF type = "bag_failed" THEN {b \in BagRows : bag[b] \in {2}}
    ELSE {k \in Selected(req.f) : OfType(type, k)}

Failing == [type \in FailureTypes |-> Cardinality(OfFailure(type))]

\* A count that is no farther from the table than what was written since the request
\* began; from above only where rows that were not sent have reasons too.
Near(n, type) ==
    /\ n \in Nat /\ n <= Failing[type] + req.late
    /\ type \notin OfConsumer => Failing[type] <= n + req.late

\* What the counts of a tree are worth now: exact if nothing was written meanwhile, and
\* near if something was.
CountsWorth ==
    /\ "bag" \in DOMAIN req.got =>
           /\ Quiet => req.got["bag"] = BagCounts
           /\ Near(req.got["bag"].failed, "bag_failed")
    /\ "parse" \in DOMAIN req.got =>
           /\ Quiet => req.got["parse"] = ParseCounts(Selected(req.f))
           /\ Near(req.got["parse"].failed, "parse_failed")
           /\ Near(req.got["parse"].sendFailed, "send_failed")
    /\ "land" \in DOMAIN req.got =>
           /\ Quiet => req.got["land"] = Landed(Selected(req.f))
           /\ Near(req.got["land"].convert, "convert_failed")
           /\ Near(req.got["land"].landing, "landing_failed")

\* The reasons of a failure are worth its count.
Explained(type) ==
    /\ Total(req.got[type]) \in Nat /\ FailureCount(type) \in Nat
    /\ Cardinality(DOMAIN req.got[type]) < MaxReasons =>
           Total(req.got[type]) + req.late >= FailureCount(type)
    /\ type \notin OfConsumer => Total(req.got[type]) <= FailureCount(type) + req.late

TreeInv ==
    req.view = "tree" =>
        /\ CountsWorth
        /\ \A type \in FailureTypes \cap DOMAIN req.got : Counted /\ Explained(type)
        /\ req.done => Counted /\ Due \subseteq DOMAIN req.got

LEMMA FailuresAreFinite ==
    ASSUME NEW type
    PROVE  IsFiniteSet(OfFailure(type)) /\ Cardinality(OfFailure(type)) \in Nat
  <1>1. CASE type = "bag_failed"
    <2>1. OfFailure(type) \subseteq Bags
      BY <1>1 DEF OfFailure, BagRows
    <2>2. QED
      BY <2>1, TableAssumption, FS_Subset, FS_CardinalityType
  <1>2. CASE type # "bag_failed"
    <2>1. OfFailure(type) \subseteq Keys
      BY <1>2 DEF OfFailure, Selected, Rows
    <2>2. QED
      BY <2>1, RowsAreFinite
  <1>3. QED
    BY <1>1, <1>2

\* Sets that differ in one element differ by one.
LEMMA OneApart ==
    ASSUME NEW A, NEW B, IsFiniteSet(A), IsFiniteSet(B), NEW x, A \ {x} = B \ {x}
    PROVE  /\ Cardinality(A) \in Nat /\ Cardinality(B) \in Nat
           /\ Cardinality(A) <= Cardinality(B) + 1
  <1>1. A \subseteq B \cup {x}
    OBVIOUS
  <1>2. IsFiniteSet(B \cup {x}) /\ Cardinality(B \cup {x}) <= Cardinality(B) + 1
    <2>1. x \in B => B \cup {x} = B
      OBVIOUS
    <2>2. /\ IsFiniteSet(B \cup {x}) /\ Cardinality(B) \in Nat
          /\ x \notin B => Cardinality(B \cup {x}) = Cardinality(B) + 1
      BY FS_AddElement, FS_CardinalityType
    <2>3. QED
      BY <2>1, <2>2
  <1>3. Cardinality(A) <= Cardinality(B \cup {x})
    BY <1>1, <1>2, FS_Subset
  <1>4. Cardinality(A) \in Nat /\ Cardinality(B) \in Nat /\ Cardinality(B \cup {x}) \in Nat
    BY <1>2, FS_CardinalityType
  <1>5. QED
    BY <1>2, <1>3, <1>4

\* One write adds or removes one failure at most.
LEMMA OneFailureApart ==
    ASSUME Typed, OneWrite, NEW type \in FailureTypes
    PROVE  \E x : OfFailure(type) \ {x} = OfFailure(type)' \ {x}
  <1>1. CASE bag' = bag /\ \E k \in Keys : \A l \in Keys : l # k => event'[l] = event[l]
    <2>1. PICK k \in Keys : \A l \in Keys : l # k => event'[l] = event[l]
      BY <1>1
    <2>2. CASE type = "bag_failed"
      BY <1>1, <2>2 DEF OfFailure, BagRows
    <2>3. CASE type # "bag_failed"
      <3>1. ASSUME NEW l \in Keys, l # k
            PROVE  l \in OfFailure(type) <=> l \in OfFailure(type)'
        <4>1. event'[l] = event[l] /\ req'.f = req.f
          BY <2>1, <3>1 DEF OneWrite
        <4>2. /\ OfType(type, l)' <=> OfType(type, l)
              /\ InModule(req.f, l)' <=> InModule(req.f, l)
              /\ OfDecode(req.f, l)' <=> OfDecode(req.f, l)
          BY <4>1 DEF OfType, InModule, OfDecode
        <4>3. QED
          BY <2>3, <4>1, <4>2 DEF OfFailure, Selected, Rows
      <3>2. OfFailure(type) \subseteq Keys /\ OfFailure(type)' \subseteq Keys
        BY <2>3 DEF OfFailure, Selected, Rows
      <3>3. OfFailure(type) \ {k} = OfFailure(type)' \ {k}
        BY <3>1, <3>2
      <3>4. QED
        BY <3>3
    <2>4. QED
      BY <2>2, <2>3
  <1>2. CASE event' = event /\ \E b \in Bags : \A c \in Bags : c # b => bag'[c] = bag[c]
    <2>1. PICK b \in Bags : \A c \in Bags : c # b => bag'[c] = bag[c]
      BY <1>2
    <2>2. CASE type = "bag_failed"
      <3>1. OfFailure(type) \ {b} = OfFailure(type)' \ {b}
        BY <2>1, <2>2 DEF OfFailure, BagRows
      <3>2. QED
        BY <3>1
    <2>3. CASE type # "bag_failed"
      <3>1. \A k : OfType(type, k)' <=> OfType(type, k)
        BY <1>2 DEF OfType
      <3>2. Selected(req.f)' = Selected(req.f)
        BY <1>2 DEF OneWrite, Selected, Rows, InModule, OfDecode
      <3>3. OfFailure(type)' = OfFailure(type)
        BY <2>3, <3>1, <3>2 DEF OfFailure
      <3>4. QED
        BY <3>3
    <2>4. QED
      BY <2>2, <2>3
  <1>3. QED
    BY <1>1, <1>2 DEF OneWrite

LEMMA OneWriteFails ==
    ASSUME Typed, OneWrite, NEW type \in FailureTypes
    PROVE  /\ Failing[type] \in Nat /\ Failing'[type] \in Nat
           /\ Failing[type] <= Failing'[type] + 1 /\ Failing'[type] <= Failing[type] + 1
  <1>1. PICK x : OfFailure(type) \ {x} = OfFailure(type)' \ {x}
    BY OneFailureApart
  <1>2. IsFiniteSet(OfFailure(type)) /\ IsFiniteSet(OfFailure(type)')
    <2>1. CASE type = "bag_failed"
      <3>1. OfFailure(type) \subseteq Bags /\ OfFailure(type)' \subseteq Bags
        BY <2>1 DEF OfFailure, BagRows
      <3>2. QED
        BY <3>1, TableAssumption, FS_Subset
    <2>2. CASE type # "bag_failed"
      <3>1. OfFailure(type) \subseteq Keys /\ OfFailure(type)' \subseteq Keys
        BY <2>2 DEF OfFailure, Selected, Rows
      <3>2. QED
        BY <3>1, TableAssumption, FS_Subset
    <2>3. QED
      BY <2>1, <2>2
  <1>3. Failing[type] = Cardinality(OfFailure(type)) /\ Failing'[type] = Cardinality(OfFailure(type)')
    BY DEF Failing
  <1>4. QED
    BY <1>1, <1>2, <1>3, OneApart

\* The counts of the queries, as long as the table is what they found
LEMMA CountsAreNear ==
    ASSUME req.late \in Nat
    PROVE  /\ Near(BagCounts.failed, "bag_failed")
           /\ Near(ParseCounts(Selected(req.f)).failed, "parse_failed")
           /\ Near(ParseCounts(Selected(req.f)).sendFailed, "send_failed")
           /\ Near(Landed(Selected(req.f)).convert, "convert_failed")
           /\ Near(Landed(Selected(req.f)).landing, "landing_failed")
  <1> DEFINE rows == Selected(req.f)
  <1>1. BagCounts.failed = Cardinality(OfFailure("bag_failed"))
    BY DEF BagCounts, CountBags, OfFailure
  <1>2. /\ ParseCounts(rows).failed = Cardinality(Sent(rows, 3))
        /\ ParseCounts(rows).sendFailed = Cardinality(Sent(rows, 2))
    BY DEF ParseCounts
  <1>3. Sent(rows, 3) = OfFailure("parse_failed") /\ Sent(rows, 2) = OfFailure("send_failed")
    BY DEF Sent, OfFailure, OfType
  <1>4. /\ Landed(rows).convert = Cardinality({k \in Sent(rows, 1) : event[k].fate \in {"convert"}})
        /\ Landed(rows).landing = Cardinality({k \in Sent(rows, 1) : event[k].fate \in {"landing"}})
    BY DEF Landed
  <1>5. /\ {k \in Sent(rows, 1) : event[k].fate \in {"convert"}} \subseteq OfFailure("convert_failed")
        /\ {k \in Sent(rows, 1) : event[k].fate \in {"landing"}} \subseteq OfFailure("landing_failed")
    BY DEF Sent, OfFailure, OfType
  <1>6. /\ Landed(rows).convert <= Cardinality(OfFailure("convert_failed"))
        /\ Landed(rows).landing <= Cardinality(OfFailure("landing_failed"))
        /\ Landed(rows).convert \in Nat /\ Landed(rows).landing \in Nat
    BY <1>4, <1>5, FailuresAreFinite, FS_Subset, FS_CardinalityType
  <1>7. QED
    <2>1. \A type \in FailureTypes : /\ Failing[type] = Cardinality(OfFailure(type))
                                     /\ Failing[type] \in Nat
      BY FailuresAreFinite DEF Failing
    <2>2. {"convert_failed", "landing_failed"} \subseteq OfConsumer
      BY DEF OfConsumer
    <2>3. /\ Near(BagCounts.failed, "bag_failed") /\ Near(ParseCounts(rows).failed, "parse_failed")
          /\ Near(ParseCounts(rows).sendFailed, "send_failed")
      BY <2>1, <1>1, <1>2, <1>3 DEF Near, FailureTypes
    <2>4. /\ Near(Landed(rows).convert, "convert_failed")
          /\ Near(Landed(rows).landing, "landing_failed")
      BY <2>1, <2>2, <1>6 DEF Near, FailureTypes
    <2>5. QED
      BY <2>3, <2>4

\* Failure reasons that are grouped are worth the rows they are grouped from.
LEMMA GroupedExplains ==
    ASSUME NEW type, NEW rows, rows \subseteq Keys, NEW reasons \in Grouped(type, rows)
    PROVE  /\ Total(reasons) \in Nat
           /\ Total(reasons) <= Cardinality({k \in rows : OfType(type, k)})
           /\ Cardinality(DOMAIN reasons) < MaxReasons =>
                  Total(reasons) >= Cardinality({k \in rows : OfType(type, k)})
  <1> DEFINE S == {k \in rows : OfType(type, k)}
             all == {Module(k) : k \in S}
             Group(m) == {k \in rows : OfType(type, k) /\ Module(k) = m}
             key == [k \in S |-> Module(k)]
  <1>1. IsFiniteSet(S) /\ Cardinality(S) \in Nat
    BY RowsAreFinite
  <1>2. key \in [S -> all] /\ \A m \in all : \E k \in S : key[k] = m
    OBVIOUS
  <1>3. IsFiniteSet(all)
    <2> HIDE DEF all, key, S
    <2> QED  BY <1>1, <1>2, FiniteImage
  <1>4. PICK top \in SUBSET all :
          /\ Cardinality(top) = Min({Cardinality(all), MaxReasons})
          /\ reasons = [m \in top |-> Cardinality(Group(m))]
    BY DEF Grouped
  <1>5. ASSUME NEW m \in all
        PROVE  Group(m) = Fibre(key, S, m) /\ Cardinality(Group(m)) \in Nat
    <2>1. Group(m) = Fibre(key, S, m)
      BY DEF Fibre
    <2>2. Cardinality(Group(m)) \in Nat
      BY RowsAreFinite
    <2>3. QED
      BY <2>1, <2>2
  <1>6. DOMAIN reasons = top /\ Total(reasons) = SumFunctionOnSet(reasons, top)
    BY <1>4 DEF Total, SumFunction
  <1>7. IsFiniteSet(top) /\ Nats(reasons, top)
    <2>1. \A m \in top : reasons[m] = Cardinality(Group(m)) /\ m \in all
      BY <1>4
    <2> HIDE DEF all, Group
    <2>2. QED
      BY <2>1, <1>3, <1>5, FS_Subset DEF Nats
  <1> DEFINE f == [m \in all |-> Cardinality(Fibre(key, S, m))]
  <1>8. /\ SumFunctionOnSet(f, all) = Cardinality(S)
        /\ Ints(f, all) /\ Nats(f, all)
        /\ SumFunctionOnSet(reasons, top) = SumFunctionOnSet(f, top)
    <2>1. SumFunctionOnSet(f, all) = Cardinality(S)
      <3> HIDE DEF all, key, S
      <3> QED  BY <1>1, <1>2, <1>3, SumOfFibres
    <2>2. \A m \in all : f[m] = Cardinality(Group(m)) /\ f[m] \in Nat
      BY <1>5
    <2>3. \A m \in top : reasons[m] = f[m]
      BY <1>4, <2>2
    <2>4. Ints(f, all) /\ Nats(f, all)
      <3>1. \A m \in all : f[m] \in Nat
        BY <2>2
      <3> HIDE DEF f, all
      <3>2. QED
        BY <3>1 DEF Ints, Nats
    <2>5. SumFunctionOnSet(reasons, top) = SumFunctionOnSet(f, top)
      <3> HIDE DEF f, all
      <3> QED  BY <1>7, <2>3, SumSame
    <2>6. QED
      BY <2>1, <2>4, <2>5
  <1>9. ASSUME Cardinality(DOMAIN reasons) < MaxReasons
        PROVE  Total(reasons) >= Cardinality(S)
    <2>1. Cardinality(all) \in Nat /\ MaxReasons \in Nat
      BY <1>3, FS_CardinalityType, TableAssumption
    <2>2. Cardinality(top) = Cardinality(all)
      <3> HIDE DEF all
      <3>1. Min({Cardinality(all), MaxReasons}) \in {Cardinality(all), MaxReasons}
        <4>1. Cardinality(all) \in Int /\ MaxReasons \in Int
          BY <2>1
        <4>2. QED
          BY <4>1, MinOfTwo, Zenon
      <3>2. Cardinality(top) \in {Cardinality(all), MaxReasons}
        BY <1>4, <3>1
      <3>3. QED
        BY <1>6, <1>9, <2>1, <3>2
    <2>3. top = all
      <3> HIDE DEF all
      <3> QED  BY <1>3, <1>4, <2>2, FS_Subset
    <2>4. Total(reasons) = Cardinality(S)
      <3> HIDE DEF f, all, S
      <3> QED  BY <1>6, <1>8, <2>3
    <2>5. QED
      BY <2>4, <1>1
  <1>10. Total(reasons) \in Nat /\ Total(reasons) <= Cardinality(S)
    <2> HIDE DEF f, all, S
    <2>1. SumFunctionOnSet(reasons, top) \in Nat
      BY <1>7, SumNat
    <2>2. /\ SumFunctionOnSet(f, all) = SumFunctionOnSet(f, top) + SumFunctionOnSet(f, all \ top)
          /\ IsFiniteSet(all \ top) /\ Nats(f, all \ top)
      BY <1>3, <1>4, <1>8, SumUnion, FS_Subset DEF Nats
    <2>3. SumFunctionOnSet(f, all \ top) \in Nat
      BY <2>2, SumNat
    <2>4. QED
      BY <1>6, <1>8, <2>1, <2>2, <2>3
  <1>11. QED
    BY <1>9, <1>10

LEMMA SameFailures ==
    ASSUME bag' = bag, event' = event, req'.f = req.f
    PROVE  /\ BagCounts' = BagCounts
           /\ ParseCounts(Selected(req.f))' = ParseCounts(Selected(req.f))
           /\ Landed(Selected(req.f))' = Landed(Selected(req.f))
  BY DEF BagCounts, CountBags, BagRows, ParseCounts, Landed, Sent, Selected, Rows, InModule, OfDecode

LEMMA SameFailing ==
    ASSUME bag' = bag, event' = event, req'.f = req.f
    PROVE  Failing' = Failing
  <1>1. ASSUME NEW type \in FailureTypes
        PROVE  OfFailure(type)' = OfFailure(type)
    <2>1. CASE type = "bag_failed"
      BY <2>1 DEF OfFailure, BagRows
    <2>2. CASE type # "bag_failed"
      <3>1. \A k : OfType(type, k)' <=> OfType(type, k)
        BY DEF OfType
      <3>2. Selected(req.f)' = Selected(req.f)
        BY DEF Selected, Rows, InModule, OfDecode
      <3>3. QED
        BY <2>2, <3>1, <3>2 DEF OfFailure
    <2>3. QED
      BY <2>1, <2>2
  <1>2. FailureTypes' = FailureTypes
    BY DEF FailureTypes
  <1>3. QED
    BY <1>1, <1>2 DEF Failing

\* An answer stays worth what it was: to a table with one write more, or the same.
LEMMA CountsStay ==
    ASSUME Typed, Typed', CountsWorth,
           NEW q, DOMAIN req'.got \subseteq DOMAIN req.got \cup {q},
           \A x \in DOMAIN req.got : x \in DOMAIN req'.got => req'.got[x] = req.got[x],
           q \in {"bag", "parse", "land"} => q \notin DOMAIN req'.got,
           \/ OneWrite /\ req'.late = req.late + 1
           \/ bag' = bag /\ event' = event /\ req'.f = req.f /\ req'.late = req.late
    PROVE  CountsWorth'
  <1> DEFINE NearNow(n, type) ==
               /\ n \in Nat /\ n <= Failing'[type] + req'.late
               /\ type \notin OfConsumer => Failing'[type] <= n + req'.late
  <1>1. ASSUME NEW n, NEW type \in FailureTypes,
               n \in Nat /\ n <= Failing[type] + req.late,
               type \notin OfConsumer => Failing[type] <= n + req.late
        PROVE  NearNow(n, type)
    <2>1. CASE OneWrite /\ req'.late = req.late + 1
      <3>1. /\ Failing[type] \in Nat /\ Failing'[type] \in Nat
            /\ Failing[type] <= Failing'[type] + 1 /\ Failing'[type] <= Failing[type] + 1
        BY <2>1, OneWriteFails
      <3>2. req.late \in Nat /\ req'.late = req.late + 1
        BY <2>1 DEF Typed
      <3>3. QED
        BY <1>1, <3>1, <3>2
    <2>2. CASE bag' = bag /\ event' = event /\ req'.f = req.f /\ req'.late = req.late
      BY <1>1, <2>2, SameFailing
    <2>3. QED
      BY <2>1, <2>2
  <1> HIDE DEF NearNow
  <1>2. ASSUME NEW x \in {"bag", "parse", "land"}, x \in DOMAIN req'.got
        PROVE  x \in DOMAIN req.got /\ req'.got[x] = req.got[x]
    BY <1>2
  <1>3. Quiet' =>
          /\ Quiet /\ BagCounts' = BagCounts
          /\ ParseCounts(Selected(req.f))' = ParseCounts(Selected(req.f))
          /\ Landed(Selected(req.f))' = Landed(Selected(req.f))
    <2>1. OneWrite /\ req'.late = req.late + 1 => ~Quiet'
      BY DEF Quiet, Typed
    <2>2. QED
      BY <2>1, SameFailures DEF Quiet
  <1>4. FailureTypes = {"bag_failed", "parse_failed", "send_failed", "convert_failed", "landing_failed"}
    BY DEF FailureTypes
  <1>5. ASSUME "bag" \in DOMAIN req'.got
        PROVE  /\ Quiet' => req'.got["bag"] = BagCounts'
               /\ NearNow(req'.got["bag"].failed, "bag_failed")
    BY <1>1, <1>2, <1>3, <1>4, <1>5 DEF CountsWorth, Near
  <1>6. ASSUME "parse" \in DOMAIN req'.got
        PROVE  /\ Quiet' => req'.got["parse"] = ParseCounts(Selected(req.f))'
               /\ NearNow(req'.got["parse"].failed, "parse_failed")
               /\ NearNow(req'.got["parse"].sendFailed, "send_failed")
    BY <1>1, <1>2, <1>3, <1>4, <1>6 DEF CountsWorth, Near
  <1>7. ASSUME "land" \in DOMAIN req'.got
        PROVE  /\ Quiet' => req'.got["land"] = Landed(Selected(req.f))'
               /\ NearNow(req'.got["land"].convert, "convert_failed")
               /\ NearNow(req'.got["land"].landing, "landing_failed")
    BY <1>1, <1>2, <1>3, <1>4, <1>7 DEF CountsWorth, Near
  <1>8. QED
    BY <1>5, <1>6, <1>7 DEF CountsWorth, Near, NearNow

LEMMA CountsOfFailures ==
    ASSUME CountsWorth, Counted, NEW type \in FailureTypes
    PROVE  Near(FailureCount(type), type)
  <1>1. CASE type = "bag_failed"
    BY <1>1 DEF CountsWorth, Counted, Asked, FailureCount
  <1>2. CASE type = "parse_failed"
    BY <1>2 DEF CountsWorth, Counted, Asked, FailureCount
  <1>3. CASE type = "send_failed"
    BY <1>3 DEF CountsWorth, Counted, Asked, FailureCount
  <1>4. CASE type = "convert_failed"
    BY <1>4 DEF CountsWorth, Counted, Asked, FailureCount
  <1>5. CASE type = "landing_failed"
    BY <1>5 DEF CountsWorth, Counted, Asked, FailureCount
  <1>6. QED
    BY <1>1, <1>2, <1>3, <1>4, <1>5 DEF FailureTypes

LEMMA ReasonsExplain ==
    ASSUME CountsWorth, Counted, req.late \in Nat, NEW type \in Due, NEW reasons \in Reasons(type)
    PROVE  /\ type \in FailureTypes /\ FailureCount(type) \in Nat /\ Total(reasons) \in Nat
           /\ Cardinality(DOMAIN reasons) < MaxReasons =>
                  Total(reasons) + req.late >= FailureCount(type)
           /\ type \notin OfConsumer => Total(reasons) <= FailureCount(type) + req.late
  <1> DEFINE n == Cardinality(OfFailure(type))
             m == Total(reasons)
             c == FailureCount(type)
             few == Cardinality(DOMAIN reasons) < MaxReasons
  <1>1. type \in FailureTypes
    BY DEF Due
  <1>2. /\ c \in Nat /\ n \in Nat /\ c <= n + req.late
        /\ type \notin OfConsumer => n <= c + req.late
    <2>1. Near(FailureCount(type), type) /\ Failing[type] = n
      BY <1>1, CountsOfFailures DEF Failing
    <2>2. QED
      BY <2>1, FailuresAreFinite DEF Near
  <1>3. m \in Nat /\ m <= n /\ (few => m >= n)
    <2>1. CASE type = "bag_failed"
      <3> DEFINE f == [stage |-> CountBags({2})]
      <3>1. reasons = f /\ CountBags({2}) = n
        BY <2>1 DEF Reasons, CountBags, OfFailure
      <3>2. DOMAIN f = {"stage"} /\ f["stage"] = n
        BY <3>1
      <3> HIDE DEF f, n
      <3>3. SumFunctionOnSet(f, {"stage"}) = n
        BY <1>2, <3>2, SumSingleton
      <3>4. m = n
        BY <3>1, <3>2, <3>3 DEF Total, SumFunction
      <3>5. QED
        BY <1>2, <3>4
    <2>2. CASE type # "bag_failed"
      <3>1. /\ reasons \in Grouped(type, Selected(req.f)) /\ Selected(req.f) \subseteq Keys
            /\ OfFailure(type) = {k \in Selected(req.f) : OfType(type, k)}
        BY <2>2 DEF Reasons, OfFailure, Selected, Rows
      <3>2. QED
        BY <3>1, GroupedExplains
    <2>3. QED
      BY <2>1, <2>2
  <1> HIDE DEF n, m, c, few
  <1>4. /\ few => m + req.late >= c
        /\ type \notin OfConsumer => m <= c + req.late
    BY <1>2, <1>3
  <1>5. QED
    BY <1>1, <1>2, <1>3, <1>4 DEF m, c, few

\* Once all three counts are known, they and what is due are.
LEMMA CountedStays ==
    ASSUME Counted, DOMAIN req.got \subseteq DOMAIN req'.got,
           req.late \in Nat, req'.late \in Nat, req.late <= req'.late,
           \A x \in DOMAIN req.got : req'.got[x] = req.got[x]
    PROVE  /\ Counted' /\ Due' = Due
           /\ \A type \in FailureTypes : FailureCount(type)' = FailureCount(type)
           /\ \A type \in FailureTypes \cap DOMAIN req.got : Explained(type) => Explained(type)'
  <1>1. /\ {"bag", "parse", "land"} \subseteq DOMAIN req.got
        /\ req'.got["bag"] = req.got["bag"] /\ req'.got["parse"] = req.got["parse"]
        /\ req'.got["land"] = req.got["land"]
    BY DEF Counted, Asked
  <1>2. Counted'
    BY <1>1 DEF Counted, Asked
  <1>3. ASSUME NEW type \in FailureTypes
        PROVE  FailureCount(type)' = FailureCount(type)
    BY <1>1 DEF FailureCount
  <1>4. Due' = Due
    BY <1>2, <1>3 DEF Due
  <1>5. ASSUME NEW type \in FailureTypes \cap DOMAIN req.got, Explained(type)
        PROVE  Explained(type)'
    <2>1. req'.got[type] = req.got[type] /\ FailureCount(type)' = FailureCount(type)
      BY <1>3
    <2>2. Total(req.got[type])' = Total(req.got[type])
      BY <2>1
    <2> DEFINE few == Cardinality(DOMAIN req.got[type]) < MaxReasons
               m == Total(req.got[type])
               c == FailureCount(type)
    <2>3. /\ m \in Nat /\ c \in Nat /\ (few => m + req.late >= c)
          /\ type \notin OfConsumer => m <= c + req.late
      BY <1>5 DEF Explained
    <2> HIDE DEF few, m, c
    <2>4. /\ few => m + req'.late >= c
          /\ type \notin OfConsumer => m <= c + req'.late
      BY <2>3
    <2>5. QED
      BY <2>1, <2>2, <2>3, <2>4 DEF Explained, few, m, c
  <1>6. QED
    BY <1>2, <1>3, <1>4, <1>5

LEMMA TreeHolds ==
    ASSUME Typed, TreeInv, [Next]_vars
    PROVE  TreeInv'
  <1> SUFFICES ASSUME req'.view = "tree"
               PROVE  /\ CountsWorth'
                      /\ \A type \in FailureTypes \cap DOMAIN req'.got : Counted' /\ Explained(type)'
                      /\ req'.done => Counted' /\ Due' \subseteq DOMAIN req'.got
    BY DEF TreeInv
  <1>1. Typed'
    BY TypedHolds
  <1>2. CASE Write
    <2>1. /\ OneWrite /\ req.view = "tree" /\ ~req'.done /\ req'.got = req.got
          /\ req.late \in Nat /\ req'.late = req.late + 1
      BY <1>2, WriteIsOne DEF OneWrite, Typed
    <2>2. CountsWorth'
      <3>1. CountsWorth /\ "none" \notin {"bag", "parse", "land"}
        BY <2>1 DEF TreeInv
      <3>2. DOMAIN req'.got \subseteq DOMAIN req.got \cup {"none"}
        BY <2>1
      <3>3. QED
        BY <1>1, <2>1, <3>1, <3>2, CountsStay
    <2>3. ASSUME NEW type \in FailureTypes \cap DOMAIN req'.got
          PROVE  Counted' /\ Explained(type)'
      BY <2>1, CountedStays DEF TreeInv
    <2>4. QED
      BY <2>1, <2>2, <2>3
  <1>3. CASE Fail \/ \E view \in Views, f \in Filters : Ask(view, f)
    BY <1>3, ResetForgets DEF CountsWorth
  <1>4. CASE AnswerOverview
    BY <1>4, AnswerKeeps DEF AnswerOverview
  <1>5. CASE AnswerTree
    <2>1. PICK q, answer :
            /\ Answer(q, answer) /\ q \in {"bag", "parse", "land"}
            /\ q = "bag" => answer = BagCounts
            /\ q = "parse" => answer = ParseCounts(Selected(req.f))
            /\ q = "land" => answer = Landed(Selected(req.f))
      <3>1. CASE Answer("bag", BagCounts)
        BY <3>1
      <3>2. CASE Answer("parse", ParseCounts(Selected(req.f)))
        BY <3>2
      <3>3. CASE Answer("land", Landed(Selected(req.f)))
        BY <3>3
      <3>4. QED
        BY <1>5, <3>1, <3>2, <3>3 DEF AnswerTree
    <2>2. /\ bag' = bag /\ event' = event
          /\ req'.view = req.view /\ req'.f = req.f /\ req'.late = req.late
          /\ ~req'.done /\ q \notin DOMAIN req.got
          /\ DOMAIN req'.got = DOMAIN req.got \cup {q} /\ req'.got[q] = answer
          /\ \A x \in DOMAIN req.got : req'.got[x] = req.got[x]
      BY <2>1, AnswerKeeps DEF Asked
    <2>3. TreeInv /\ req.view = "tree" /\ ~Counted
      BY <2>1, <2>2 DEF Counted, Asked
    <2>4. CountsWorth /\ FailureTypes \cap DOMAIN req'.got = {}
      BY <2>1, <2>2, <2>3 DEF TreeInv, FailureTypes
    <2>5. CountsWorth'
      <3>1. /\ BagCounts' = BagCounts /\ Failing' = Failing /\ Quiet' = Quiet
            /\ ParseCounts(Selected(req.f))' = ParseCounts(Selected(req.f))
            /\ Landed(Selected(req.f))' = Landed(Selected(req.f))
        BY <2>2, SameFailures, SameFailing DEF Quiet
      <3>2. ASSUME "bag" \in DOMAIN req'.got
            PROVE  /\ Quiet => req'.got["bag"] = BagCounts
                   /\ Near(req'.got["bag"].failed, "bag_failed")
        BY <2>1, <2>2, <2>4, <3>2, CountsAreNear DEF CountsWorth, Typed
      <3>3. ASSUME "parse" \in DOMAIN req'.got
            PROVE  /\ Quiet => req'.got["parse"] = ParseCounts(Selected(req.f))
                   /\ Near(req'.got["parse"].failed, "parse_failed")
                   /\ Near(req'.got["parse"].sendFailed, "send_failed")
        BY <2>1, <2>2, <2>4, <3>3, CountsAreNear DEF CountsWorth, Typed
      <3>4. ASSUME "land" \in DOMAIN req'.got
            PROVE  /\ Quiet => req'.got["land"] = Landed(Selected(req.f))
                   /\ Near(req'.got["land"].convert, "convert_failed")
                   /\ Near(req'.got["land"].landing, "landing_failed")
        BY <2>1, <2>2, <2>4, <3>4, CountsAreNear DEF CountsWorth, Typed
      <3>5. QED
        BY <2>2, <3>1, <3>2, <3>3, <3>4 DEF CountsWorth, Near
    <2>6. QED
      BY <2>2, <2>4, <2>5
  <1>6. CASE AnswerReasons
    <2>1. PICK q \in Due : \E r \in Reasons(q) : Answer(q, r) /\ req.view = "tree"
      BY <1>6 DEF AnswerReasons
    <2>2. PICK reasons \in Reasons(q) : Answer(q, reasons) /\ req.view = "tree"
      BY <2>1
    <2>3. /\ bag' = bag /\ event' = event
          /\ req'.view = req.view /\ req'.f = req.f /\ req'.late = req.late
          /\ ~req'.done
          /\ DOMAIN req'.got = DOMAIN req.got \cup {q} /\ req'.got[q] = reasons
          /\ \A x \in DOMAIN req.got : req'.got[x] = req.got[x]
      BY <2>2, AnswerKeeps
    <2>4. Counted /\ CountsWorth /\ q \in FailureTypes
      BY <2>2 DEF Due, TreeInv
    <2>5. CountsWorth'
      <3>1. q \notin {"bag", "parse", "land"}
        BY <2>4 DEF FailureTypes
      <3>2. QED
        BY <1>1, <2>3, <2>4, <3>1, CountsStay
    <2>6. /\ Counted' /\ FailureCount(q)' = FailureCount(q)
          /\ \A type \in FailureTypes \cap DOMAIN req.got : Explained(type) => Explained(type)'
      BY <2>3, <2>4, CountedStays DEF Typed
    <2>7. Explained(q)'
      <3>1. /\ FailureCount(q) \in Nat /\ Total(reasons) \in Nat
            /\ Cardinality(DOMAIN reasons) < MaxReasons =>
                   Total(reasons) + req.late >= FailureCount(q)
            /\ q \notin OfConsumer => Total(reasons) <= FailureCount(q) + req.late
        BY <2>2, <2>4, ReasonsExplain DEF Typed
      <3>2. QED
        BY <2>3, <2>6, <3>1 DEF Explained
    <2>8. \A type \in FailureTypes \cap DOMAIN req.got : Explained(type)
      BY <2>2 DEF TreeInv
    <2>9. QED
      BY <2>3, <2>5, <2>6, <2>7, <2>8
  <1>7. CASE Respond
    <2>1. /\ bag' = bag /\ event' = event /\ req'.view = req.view /\ req'.f = req.f
          /\ req'.late = req.late /\ req'.got = req.got
          /\ Counted /\ \A type \in Due : Asked(type)
      BY <1>7, RespondKeeps
    <2>2. CountsWorth /\ \A type \in FailureTypes \cap DOMAIN req.got : Explained(type)
      BY <2>1 DEF TreeInv
    <2>3. CountsWorth'
      <3>1. "none" \notin {"bag", "parse", "land"}
        OBVIOUS
      <3>2. DOMAIN req'.got \subseteq DOMAIN req.got \cup {"none"}
        BY <2>1
      <3>3. QED
        BY <1>1, <2>1, <2>2, <3>1, <3>2, CountsStay
    <2>4. /\ Counted' /\ Due' = Due
          /\ \A type \in FailureTypes \cap DOMAIN req.got : Explained(type)'
      BY <2>1, <2>2, CountedStays DEF Typed
    <2>5. QED
      BY <2>1, <2>3, <2>4 DEF Asked
  <1>8. CASE StartWalk \/ CountPage \/ ListPage
    <2>1. req.view = "list"
      BY <1>8 DEF StartWalk, CountPage, ListPage
    <2>2. req'.view = "list"
      BY <1>8, <2>1, AnswerKeeps, WalkKinds DEF StartWalk, Stepped, TurnPage
    <2>3. QED
      BY <2>2
  <1>9. CASE UNCHANGED vars
    <2>1. bag' = bag /\ event' = event /\ req' = req /\ req.view = "tree"
      BY <1>9 DEF vars
    <2>2. CountsWorth'
      <3>1. CountsWorth /\ "none" \notin {"bag", "parse", "land"}
        BY <2>1 DEF TreeInv
      <3>2. DOMAIN req'.got \subseteq DOMAIN req.got \cup {"none"}
        BY <2>1
      <3>3. QED
        BY <1>1, <2>1, <3>1, <3>2, CountsStay
    <2>3. Counted => Counted' /\ Due' = Due
      BY <2>1, CountedStays DEF Typed
    <2>4. ASSUME NEW type \in FailureTypes \cap DOMAIN req'.got
          PROVE  Counted' /\ Explained(type)'
      BY <2>1, CountedStays DEF TreeInv, Typed
    <2>5. QED
      BY <2>1, <2>2, <2>3, <2>4 DEF TreeInv
  <1>10. QED
    BY <1>2, <1>3, <1>4, <1>5, <1>6, <1>7, <1>8, <1>9 DEF Next

\* Bags are received, and succeed, fail or are parsed in part.
LEMMA BagsDivide ==
    ASSUME TypedTables, Known
    PROVE  /\ BagCounts.total = BagCounts.parsed + BagCounts.failed
           /\ BagCounts.parsed \in Int /\ BagCounts.failed \in Int
  <1> DEFINE a == {b \in BagRows : bag[b] \in {1, 3}}
             c == {b \in BagRows : bag[b] \in {2}}
  <1>1. a \cap c = {}
    OBVIOUS
  <1>2. BagRows = a \cup c
    <2>1. ASSUME NEW b \in BagRows
          PROVE  bag[b] \in {1, 2, 3}
      <3>1. bag[b] \in {Absent} \cup BagStatuses /\ bag[b] # Absent /\ bag[b] # 0
        BY DEF BagRows, TypedTables, Known
      <3>2. bag[b] \in 0 .. 3
        BY <3>1, TableAssumption
      <3>3. QED
        BY <3>1, <3>2
    <2>2. QED
      BY <2>1
  <1>3. IsFiniteSet(a) /\ IsFiniteSet(c)
    BY TableAssumption, FS_Subset DEF BagRows
  <1>4. BagCounts.total = Cardinality(BagRows) /\ BagCounts.parsed = Cardinality(a)
        /\ BagCounts.failed = Cardinality(c)
    BY DEF BagCounts, CountBags
  <1> HIDE DEF a, c
  <1>5. /\ Cardinality(BagRows) = Cardinality(a) + Cardinality(c)
        /\ Cardinality(a) \in Nat /\ Cardinality(c) \in Nat
    BY <1>1, <1>2, <1>3, CountDisjoint
  <1>6. QED
    BY <1>4, <1>5

\* Parsed events were sent or failed to be sent; with those that were not parsed they
\* are what the decoder wrote.
LEMMA ParsedDivide ==
    ASSUME TypedTables, NEW rows, rows \subseteq Keys, \A k \in Keys : event[k].send # 0
    PROVE  /\ ParseCounts(rows).success = ParseCounts(rows).sent + ParseCounts(rows).sendFailed
           /\ ParseCounts(rows).sent = Cardinality(Sent(rows, 1))
           /\ ParseCounts(rows).sent \in Int /\ ParseCounts(rows).sendFailed \in Int
           /\ ParseCounts(rows).success \in Int /\ ParseCounts(rows).failed \in Int
           /\ ParseCounts(rows).success + ParseCounts(rows).failed =
                  Cardinality({k \in rows : event[k].send # Absent})
  <1> DEFINE a == Sent(rows, 1)
             b == Sent(rows, 2)
             c == Sent(rows, 3)
             d == {k \in rows : event[k].send # Absent}
  <1>1. /\ a \cap b = {} /\ (a \cup b) \cap c = {}
        /\ IsFiniteSet(a) /\ IsFiniteSet(b) /\ IsFiniteSet(c)
    BY RowsAreFinite DEF Sent
  <1>2. d = (a \cup b) \cup c
    <2>1. \A k \in rows : event[k].send \in {Absent, 1, 2, 3}
      BY DEF TypedTables, Columns, SendStatuses
    <2>2. QED
      BY <2>1 DEF Sent, Absent
  <1>3. /\ ParseCounts(rows).success = Cardinality(a \cup b)
        /\ ParseCounts(rows).failed = Cardinality(c)
        /\ ParseCounts(rows).sent = Cardinality(a) /\ ParseCounts(rows).sendFailed = Cardinality(b)
    BY DEF ParseCounts
  <1> HIDE DEF a, b, c, d
  <1>4. /\ Cardinality(a \cup b) = Cardinality(a) + Cardinality(b) /\ IsFiniteSet(a \cup b)
        /\ Cardinality(a) \in Nat /\ Cardinality(b) \in Nat
    BY <1>1, CountDisjoint
  <1>5. /\ Cardinality(d) = Cardinality(a \cup b) + Cardinality(c)
        /\ Cardinality(a \cup b) \in Nat /\ Cardinality(c) \in Nat
    BY <1>1, <1>2, <1>4, CountDisjoint
  <1>6. QED
    BY <1>3, <1>4, <1>5 DEF a, d

LEMMA LandedAreNumbers ==
    ASSUME NEW rows, rows \subseteq Keys
    PROVE  LET land == Landed(rows)
           IN  /\ land.matched \in Int /\ land.convert \in Int
               /\ land.landing \in Int /\ land.missing \in Int
  <1>1. \A fates : Cardinality({k \in Sent(rows, 1) : event[k].fate \in fates}) \in Int
    BY RowsAreFinite DEF Sent
  <1>2. QED
    BY <1>1 DEF Landed

LEMMA TreeAddsUp ==
    ASSUME Typed, TreeInv
    PROVE  QuietTreeAddsUp
  <1> SUFFICES ASSUME Answered("tree"), Quiet, Known
               PROVE  /\ \A node \in DOMAIN Tree \ {"tar_parse_success"} : AddsUp(Tree[node])
                      /\ SumFunction(Tree["tar_parse_success"].children) =
                             Cardinality({k \in Selected(req.f) : event[k].send # Absent})
    BY DEF QuietTreeAddsUp
  <1> DEFINE rows == Selected(req.f)
             bags == req.got["bag"]
             parse == req.got["parse"]
             land == req.got["land"]
  <1>1. bags = BagCounts /\ parse = ParseCounts(rows) /\ land = Landed(rows)
    BY DEF TreeInv, CountsWorth, Answered, Counted, Asked
  <1>2. /\ bags.total = bags.parsed + bags.failed /\ bags.parsed \in Int /\ bags.failed \in Int
    BY <1>1, BagsDivide DEF Typed
  <1>3. rows \subseteq Keys /\ \A k \in rows : event[k].fate # "odd"
    BY DEF Selected, Rows, Known
  <1>4. /\ parse.success = parse.sent + parse.sendFailed
        /\ parse.sent = Cardinality(Sent(rows, 1))
        /\ parse.sent \in Int /\ parse.sendFailed \in Int
        /\ parse.success \in Int /\ parse.failed \in Int
        /\ parse.success + parse.failed = Cardinality({k \in rows : event[k].send # Absent})
    BY <1>1, <1>3, ParsedDivide DEF Known, Typed
  <1>5. /\ Cardinality(Sent(rows, 1)) = Sum(land)
        /\ land.matched \in Int /\ land.convert \in Int /\ land.landing \in Int /\ land.missing \in Int
    BY <1>1, <1>3, LandedOfKnown, LandedAreNumbers DEF Typed
  <1>6. parse.sent = land.matched + land.convert + land.landing + land.missing
    BY <1>4, <1>5 DEF Sum
  <1> HIDE DEF rows, bags, parse, land
  <1>7. /\ SumFunction(<<bags.parsed, bags.failed>>) = bags.total
        /\ SumFunction(<<parse.sent, parse.sendFailed>>) = parse.success
        /\ SumFunction(<<parse.success, parse.failed>>) = parse.success + parse.failed
    BY <1>2, <1>4, SumPair
  <1>8. SumFunction(<<land.matched, land.convert, land.landing, land.missing>>) = parse.sent
    BY <1>5, <1>6, SumFour
  <1> DEFINE node(count, children) == [count |-> count, children |-> children]
             root == node(bags.total, <<bags.parsed, bags.failed>>)
             tar == node(bags.parsed, <<parse.success, parse.failed>>)
             events == node(parse.success, <<parse.sent, parse.sendFailed>>)
             sent == node(parse.sent, <<land.matched, land.convert, land.landing, land.missing>>)
  <1>9. Tree = [tar_received |-> root, tar_parse_success |-> tar,
                event_parse_success |-> events, event_send_success |-> sent]
    BY DEF Tree, bags, parse, land
  <1>10. /\ root.count = SumFunction(root.children)
         /\ events.count = SumFunction(events.children)
         /\ sent.count = SumFunction(sent.children)
         /\ SumFunction(tar.children) = Cardinality({k \in rows : event[k].send # Absent})
    BY <1>4, <1>7, <1>8
  <1> HIDE DEF root, tar, events, sent
  <1>11. QED
    BY <1>9, <1>10 DEF AddsUp, rows

LEMMA TreeExplains ==
    ASSUME TreeInv
    PROVE  ReasonsCoverCounts
  <1> SUFFICES ASSUME Answered("tree"), NEW type \in Due
               PROVE  Explained(type)
    BY Zenon DEF ReasonsCoverCounts, Explained
  <1>1. type \in FailureTypes /\ type \in DOMAIN req.got
    BY DEF TreeInv, Answered, Due
  <1>2. QED
    BY <1>1 DEF TreeInv, Answered

-----------------------------------------------------------------------------
(* The walk through an event list                                          *)

\* No two rows have the same place in the order.
Strict(rows) == \A k, l \in rows : k # l => Before(k, l) \/ Before(l, k)

\* Rows with places of their own have one order.
LEMMA OneOrder ==
    ASSUME NEW rows, rows \subseteq Keys, Strict(rows),
           NEW s \in Orders(rows), NEW t \in Orders(rows)
    PROVE  s = t
  <1> DEFINE n == Cardinality(rows)
             T == {i \in 1 .. n : s[i] # t[i]}
  <1>1. n \in Nat /\ IsFiniteSet(rows)
    BY RowsAreFinite
  <1>2. /\ s \in [1 .. n -> rows] /\ t \in [1 .. n -> rows]
        /\ \A i, j \in 1 .. n : i # j => s[i] # s[j] /\ t[i] # t[j]
        /\ \A i, j \in 1 .. n : Before(s[i], s[j]) => i < j
        /\ \A i, j \in 1 .. n : Before(t[i], t[j]) => i < j
    BY DEF Orders, SetToSeqs
  <1>3. /\ \A k \in rows : \E i \in 1 .. n : s[i] = k
        /\ \A k \in rows : \E i \in 1 .. n : t[i] = k
    <2>1. IsFiniteSet(1 .. n) /\ Cardinality(1 .. n) = n
      BY <1>1, FS_Interval
    <2>2. s \in Injection(1 .. n, rows) /\ t \in Injection(1 .. n, rows)
      BY <1>2 DEF Injection, IsInjective
    <2>3. s \in Surjection(1 .. n, rows) /\ t \in Surjection(1 .. n, rows)
      BY <1>1, <2>1, <2>2, FS_Injection
    <2>4. QED
      BY <2>3 DEF Surjection
  <1>4. T = {}
    <2>1. SUFFICES ASSUME T # {}
                   PROVE  FALSE
      OBVIOUS
    <2>2. PICK i \in T : \A m \in T : i <= m
      <3>1. T \in SUBSET Nat
        BY <1>1
      <3> HIDE DEF T
      <3>2. QED
        BY <2>1, <3>1, NatMin
    <2>3. i \in 1 .. n /\ s[i] # t[i] /\ i \in Int
      BY <1>1
    <2>4. ASSUME NEW m \in 1 .. n, m < i
          PROVE  s[m] = t[m]
      BY <1>1, <2>2, <2>3, <2>4
    <2>5. s[i] \in rows /\ t[i] \in rows
      BY <1>2, <2>3
    <2>6. PICK j \in 1 .. n : s[j] = t[i]
      BY <1>3, <2>5
    <2>7. PICK l \in 1 .. n : t[l] = s[i]
      BY <1>3, <2>5
    <2>8. ~(j < i) /\ ~(l < i)
      <3>1. ASSUME j < i
            PROVE  FALSE
        BY <1>2, <2>3, <2>4, <2>6, <3>1
      <3>2. ASSUME l < i
            PROVE  FALSE
        BY <1>2, <2>3, <2>4, <2>7, <3>2
      <3>3. QED
        BY <3>1, <3>2
    <2>9. Before(s[i], s[j]) \/ Before(s[j], s[i])
      BY <2>3, <2>5, <2>6 DEF Strict
    <2>10. CASE Before(s[j], s[i])
      BY <1>2, <2>3, <2>6, <2>8, <2>10
    <2>11. CASE Before(s[i], s[j])
      <3>1. Before(t[l], t[i])
        BY <2>6, <2>7, <2>11
      <3>2. l < i
        BY <1>2, <2>3, <3>1
      <3>3. QED
        BY <2>8, <3>2
    <2>12. QED
      BY <2>9, <2>10, <2>11
  <1>5. \A i \in 1 .. n : s[i] = t[i]
    BY <1>4
  <1>6. s \in [1 .. n -> rows] /\ t \in [1 .. n -> rows]
    BY <1>2
  <1>7. s = [i \in 1 .. n |-> s[i]] /\ t = [i \in 1 .. n |-> t[i]]
    BY <1>6
  <1>8. [i \in 1 .. n |-> s[i]] = [i \in 1 .. n |-> t[i]]
    BY <1>5
  <1>9. QED
    BY <1>7, <1>8

LEMMA OrderIsAll ==
    ASSUME NEW rows, rows \subseteq Keys, NEW s \in Orders(rows)
    PROVE  /\ s \in Seq(Keys) /\ Len(s) = Cardinality(rows) /\ Cardinality(rows) \in Nat
           /\ IsInjective(s) /\ ToSet(s) = rows
  <1> DEFINE n == Cardinality(rows)
  <1>1. n \in Nat /\ IsFiniteSet(rows)
    BY RowsAreFinite
  <1>2. /\ s \in [1 .. n -> rows]
        /\ \A i, j \in 1 .. n : i # j => s[i] # s[j]
    BY DEF Orders, SetToSeqs
  <1>3. s \in Injection(1 .. n, rows) /\ IsInjective(s)
    BY <1>2 DEF Injection, IsInjective
  <1>4. s \in Surjection(1 .. n, rows)
    <2>1. IsFiniteSet(1 .. n) /\ Cardinality(1 .. n) = n
      BY <1>1, FS_Interval
    <2>2. QED
      BY <1>1, <1>3, <2>1, FS_Injection
  <1>5. ToSet(s) = rows
    BY <1>2, <1>4 DEF ToSet, Surjection
  <1>6. s \in Seq(Keys) /\ Len(s) = n
    BY <1>1, <1>2
  <1>7. QED
    BY <1>1, <1>3, <1>5, <1>6

LEMMA EmptyOrder ==
    ASSUME NEW rows, IsFiniteSet(rows), Cardinality(rows) = 0
    PROVE  <<>> \in Orders(rows)
  <1>1. 1 .. Cardinality(rows) = {} /\ <<>> \in [{} -> rows]
    OBVIOUS
  <1>2. <<>> \in SetToSeqs(rows)
    BY <1>1 DEF SetToSeqs
  <1>3. DOMAIN <<>> = {}
    OBVIOUS
  <1>4. QED
    BY <1>2, <1>3 DEF Orders

Turned == (Walk.page - 1) * Walk.size
WalkRows == Listed(Walk.type, req.f)
WalkStrict == Strict(WalkRows)
WalkCount == Cardinality(WalkRows)
WalkOrders == Orders(WalkRows)

\* While nobody writes: the pages that were turned are the first rows of the order, and
\* there are more; after the walk they are all rows.
WalkSeen ==
    IF req.done THEN Walk.seen \in WalkOrders
    ELSE /\ Turned = 0 \/ Turned < WalkCount
         /\ Walk.total \in {-1, WalkCount}
         /\ \A s \in WalkOrders : Walk.seen = SubSeq(s, 1, Turned)

WalkInv ==
    req.view = "list" =>
        /\ DOMAIN req.got \subseteq {"walk"} /\ (req.done => Asked("walk"))
        /\ Asked("walk") =>
             /\ Walk = [type |-> Walk.type, size |-> Walk.size, page |-> Walk.page,
                        total |-> Walk.total, seen |-> Walk.seen]
             /\ Walk.size \in Nat \ {0} /\ Walk.page \in Nat \ {0} /\ Walk.total \in Int
             /\ Quiet /\ WalkStrict => WalkSeen

LEMMA PageSizes ==
    ASSUME NEW asked \in Sizes
    PROVE  PageSize(asked) \in Nat \ {0}
  <1>1. asked \in Int /\ DefaultSize \in Int /\ MaxSize \in Int /\ DefaultSize >= 1 /\ MaxSize >= 1
    BY TableAssumption
  <1>2. CASE asked <= 0
    BY <1>1, <1>2 DEF PageSize
  <1>3. CASE ~(asked <= 0)
    <2>1. Min({asked, MaxSize}) \in {asked, MaxSize}
      BY <1>1, MinOfTwo
    <2>2. PageSize(asked) = Min({asked, MaxSize})
      BY <1>3 DEF PageSize
    <2>3. QED
      BY <1>1, <1>3, <2>1, <2>2
  <1>4. QED
    BY <1>2, <1>3

\* One page more of an order: up to the page, or all of it.
LEMMA PagesJoin ==
    ASSUME NEW s \in Seq(Keys), NEW page \in Nat \ {0}, NEW size \in Nat \ {0},
           (page - 1) * size = 0 \/ (page - 1) * size < Len(s)
    PROVE  SubSeq(s, 1, (page - 1) * size) \o Page(s, page, size) =
             IF page * size < Len(s) THEN SubSeq(s, 1, page * size) ELSE s
  <1> DEFINE off == (page - 1) * size
             n == Len(s)
             last == Min({n, off + size})
  <1>1. n \in Nat /\ off \in Nat /\ off <= n /\ page * size = off + size
    <2>1. page - 1 \in Nat /\ size \in Nat /\ page \in Nat
      OBVIOUS
    <2>2. \A a, b \in Nat : a * b \in Nat
      OBVIOUS
    <2>3. off \in Nat
      BY <2>1, <2>2
    <2>4. \A a, b \in Nat : (a + 1) * b = a * b + b
      OBVIOUS
    <2>5. ((page - 1) + 1) * size = off + size
      BY <2>1, <2>4
    <2>6. (page - 1) + 1 = page
      OBVIOUS
    <2>7. n \in Nat
      OBVIOUS
    <2>8. off <= n
      <3> HIDE DEF n
      <3>1. off = 0 \/ off < n
        BY DEF n
      <3> HIDE DEF off
      <3>2. QED
        BY <2>3, <2>7, <3>1
    <2>9. QED
      BY <2>3, <2>5, <2>6, <2>7, <2>8
  <1>2. Page(s, page, size) = SubSeq(s, off + 1, last)
    BY DEF Page
  <1>3. last \in {n, off + size} /\ last <= n /\ last <= off + size /\ last \in Int
    <2>1. n \in Int /\ off + size \in Int
      BY <1>1
    <2> HIDE DEF n, off
    <2>2. QED
      BY <2>1, MinOfTwo
  <1> HIDE DEF off, n, last
  <1>4. last \in Nat /\ off <= last /\ last <= n
    BY <1>1, <1>3
  <1>5. SubSeq(s, 1, off) \o SubSeq(s, off + 1, last) = SubSeq(s, 1, last)
    BY <1>1, <1>4, ConcatAdjacentSubSeq DEF n
  <1>6. CASE page * size < n
    BY <1>1, <1>2, <1>3, <1>5, <1>6 DEF off, n
  <1>7. CASE ~(page * size < n)
    <2>1. last = n
      BY <1>1, <1>3, <1>7
    <2>2. SubSeq(s, 1, n) = s
      BY SubSeqFull DEF n
    <2>3. QED
      BY <1>2, <1>5, <1>7, <2>1, <2>2 DEF off, n
  <1>8. QED
    BY <1>6, <1>7

LEMMA SameWalk ==
    ASSUME bag' = bag, event' = event, req'.f = req.f, Walk'.type = Walk.type
    PROVE  /\ WalkRows' = WalkRows /\ WalkStrict' = WalkStrict
           /\ WalkCount' = WalkCount /\ WalkOrders' = WalkOrders
  <1>1. WalkRows' = WalkRows
    <2>1. \A k \in Keys : OfType(Walk.type, k)' <=> OfType(Walk.type, k)
      BY DEF OfType
    <2>2. \A k \in Keys : /\ InModule(req.f, k)' <=> InModule(req.f, k)
                          /\ OfDecode(req.f, k)' <=> OfDecode(req.f, k)
                          /\ OfConsume(req.f, k)' <=> OfConsume(req.f, k)
      BY DEF InModule, OfDecode, OfConsume
    <2>3. Rows' = Rows /\ Rows \subseteq Keys
      BY DEF Rows
    <2>4. QED
      BY <2>1, <2>2, <2>3 DEF WalkRows, Listed
  <1>2. WalkStrict' = WalkStrict
    BY <1>1 DEF WalkStrict, Strict, Before
  <1>3. WalkCount' = WalkCount
    BY <1>1 DEF WalkCount
  <1>4. WalkOrders' = WalkOrders
    BY <1>1 DEF WalkOrders, Orders, SetToSeqs, Before
  <1>5. QED
    BY <1>1, <1>2, <1>3, <1>4

LEMMA WalkRowsAreKeys == WalkRows \subseteq Keys
  BY DEF WalkRows, Listed, Rows

\* A walk begins before the first page.
LEMMA WalkBegins ==
    ASSUME Typed, WalkInv, StartWalk
    PROVE  WalkInv'
  <1>1. PICK type \in ListTypes : \E a \in Sizes :
          Answer("walk", [type |-> type, size |-> PageSize(a), page |-> 1,
                          total |-> -1, seen |-> <<>>])
    BY DEF StartWalk
  <1>2. PICK asked \in Sizes :
          Answer("walk", [type |-> type, size |-> PageSize(asked), page |-> 1,
                          total |-> -1, seen |-> <<>>])
    BY <1>1
  <1> DEFINE size == PageSize(asked)
             walk == [type |-> type, size |-> size, page |-> 1, total |-> -1, seen |-> <<>>]
  <1>3. size \in Nat \ {0}
    BY PageSizes
  <1> HIDE DEF size
  <1>4. Answer("walk", walk) /\ req.view = "list"
    BY <1>2 DEF size, StartWalk
  <1>5. /\ Walk' = walk /\ ~req'.done /\ DOMAIN req'.got = DOMAIN req.got \cup {"walk"}
    BY <1>4, AnswerKeeps DEF Walk
  <1>6. Turned' = 0
    BY <1>3, <1>5 DEF Turned
  <1>7. \A s : SubSeq(s, 1, 0) = <<>>
    BY SubSeqEmpty
  <1>8. WalkSeen'
    BY <1>5, <1>6, <1>7 DEF WalkSeen
  <1>9. DOMAIN req.got \subseteq {"walk"}
    BY <1>4 DEF WalkInv
  <1>10. QED
    BY <1>3, <1>5, <1>8, <1>9 DEF WalkInv, Asked

\* What both steps of a page start from
LEMMA WalkGoesOn ==
    ASSUME WalkInv, CountPage \/ ListPage
    PROVE  /\ req.view = "list" /\ Asked("walk") /\ ~req.done
           /\ DOMAIN req.got \subseteq {"walk"}
           /\ Walk = [type |-> Walk.type, size |-> Walk.size, page |-> Walk.page,
                      total |-> Walk.total, seen |-> Walk.seen]
           /\ Walk.size \in Nat \ {0} /\ Walk.page \in Nat \ {0} /\ Walk.total \in Int
           /\ Quiet /\ WalkStrict =>
                /\ Turned = 0 \/ Turned < WalkCount
                /\ Walk.total \in {-1, WalkCount}
                /\ \A s \in WalkOrders : Walk.seen = SubSeq(s, 1, Turned)
           /\ ListPage => Walk.total > 0
  <1>1. req.view = "list" /\ Asked("walk") /\ ~req.done /\ (ListPage => Walk.total > 0)
    BY DEF CountPage, ListPage
  <1>2. QED
    BY <1>1 DEF WalkInv, WalkSeen

LEMMA WalkCounts ==
    ASSUME Typed, WalkInv, CountPage
    PROVE  WalkInv'
  <1> DEFINE total == WalkCount
             next == [Walk EXCEPT !.total = total]
             done == (total = 0)
  <1>1. Stepped(next, done)
    BY WalkKinds DEF WalkCount, WalkRows
  <1>2. total \in Nat
    BY WalkRowsAreKeys, RowsAreFinite DEF WalkCount
  <1>3. next = [type |-> Walk.type, size |-> Walk.size, page |-> Walk.page,
                total |-> total, seen |-> Walk.seen]
    BY WalkGoesOn
  <1> HIDE DEF total
  <1>4. /\ Walk' = next /\ req'.view = req.view /\ DOMAIN req'.got = DOMAIN req.got
        /\ Quiet' = Quiet /\ req'.done = done
    BY <1>1 DEF Stepped, Walk, Quiet
  <1>5. Walk'.type = Walk.type /\ Walk'.page = Walk.page /\ Walk'.size = Walk.size
        /\ Walk'.total = total /\ Walk'.seen = Walk.seen
    BY <1>3, <1>4
  <1>6. /\ WalkStrict' = WalkStrict /\ WalkCount' = WalkCount /\ WalkOrders' = WalkOrders
        /\ Turned' = Turned
    BY <1>1, <1>5, SameWalk DEF Stepped, Turned
  <1>7. ASSUME Quiet', WalkStrict'
        PROVE  WalkSeen'
    <2>1. /\ Turned = 0 \/ Turned < WalkCount
          /\ \A s \in WalkOrders : Walk.seen = SubSeq(s, 1, Turned)
      BY <1>4, <1>6, <1>7, WalkGoesOn
    <2>2. CASE total = 0
      <3>1. Turned = 0
        <4>1. Turned \in Int
          BY WalkGoesOn DEF Turned
        <4>2. Turned = 0 \/ Turned < 0
          BY <2>1, <2>2 DEF total
        <4>3. ASSUME Turned < 0
              PROVE  FALSE
          <5>1. \A a, b \in Nat : a * b \in Nat
            OBVIOUS
          <5>2. Walk.page - 1 \in Nat /\ Walk.size \in Nat
            BY WalkGoesOn
          <5>3. Turned \in Nat
            BY <5>1, <5>2 DEF Turned
          <5>4. QED
            BY <4>3, <5>3
        <4>4. QED
          BY <4>2, <4>3
      <3>2. <<>> \in WalkOrders
        BY <2>2, WalkRowsAreKeys, RowsAreFinite, EmptyOrder DEF total, WalkCount, WalkOrders
      <3>3. Walk.seen = SubSeq(<<>>, 1, 0)
        BY <2>1, <3>1, <3>2
      <3>4. SubSeq(<<>>, 1, 0) = <<>>
        BY SubSeqEmpty
      <3>5. req'.done
        BY <1>4, <2>2
      <3>6. Walk'.seen \in WalkOrders'
        BY <1>5, <1>6, <3>2, <3>3, <3>4
      <3>7. QED
        BY <3>5, <3>6 DEF WalkSeen
    <2>3. CASE total # 0
      BY <2>1, <2>3, <1>4, <1>5, <1>6 DEF WalkSeen, total
    <2>4. QED
      BY <2>2, <2>3
  <1>8. QED
    BY <1>2, <1>3, <1>4, <1>5, <1>7, WalkGoesOn DEF WalkInv, Asked

LEMMA WalkLists ==
    ASSUME Typed, WalkInv, ListPage
    PROVE  WalkInv'
  <1>1. PICK s \in WalkOrders : TurnPage(s)
    BY WalkKinds DEF WalkOrders, WalkRows
  <1> DEFINE more == Walk.page * Walk.size < Walk.total
             seen == Walk.seen \o Page(s, Walk.page, Walk.size)
             next == IF more THEN [Walk EXCEPT !.seen = seen, !.page = @ + 1, !.total = -1]
                     ELSE [Walk EXCEPT !.seen = seen]
  <1>2. Stepped(next, ~more)
    BY <1>1 DEF TurnPage
  <1>3. next = [type |-> Walk.type, size |-> Walk.size,
                page |-> IF more THEN Walk.page + 1 ELSE Walk.page,
                total |-> IF more THEN -1 ELSE Walk.total, seen |-> seen]
    BY WalkGoesOn
  <1>4. /\ Walk' = next /\ req'.view = req.view /\ DOMAIN req'.got = DOMAIN req.got
        /\ Quiet' = Quiet /\ req'.done = ~more
    BY <1>2 DEF Stepped, Walk, Quiet
  <1> HIDE DEF seen, more
  <1>5. /\ Walk'.type = Walk.type /\ Walk'.size = Walk.size /\ Walk'.seen = seen
        /\ Walk'.page = IF more THEN Walk.page + 1 ELSE Walk.page
        /\ Walk'.total = IF more THEN -1 ELSE Walk.total
    BY <1>3, <1>4
  <1>6. /\ WalkStrict' = WalkStrict /\ WalkCount' = WalkCount /\ WalkOrders' = WalkOrders
    BY <1>2, <1>5, SameWalk DEF Stepped
  <1>7. ASSUME Quiet', WalkStrict'
        PROVE  WalkSeen'
    <2>1. /\ Turned = 0 \/ Turned < WalkCount
          /\ Walk.total \in {-1, WalkCount} /\ Walk.total > 0
          /\ Walk.seen = SubSeq(s, 1, Turned)
      BY <1>4, <1>6, <1>7, WalkGoesOn
    <2>2. s \in Seq(Keys) /\ Len(s) = WalkCount
      BY WalkRowsAreKeys, OrderIsAll DEF WalkOrders, WalkCount
    <2>3. Walk.total = Len(s)
      BY <2>1, <2>2
    <2>4. Walk.page \in Nat \ {0} /\ Walk.size \in Nat \ {0}
      BY WalkGoesOn
    <2>5. seen = IF Walk.page * Walk.size < Len(s) THEN SubSeq(s, 1, Walk.page * Walk.size) ELSE s
      BY <2>1, <2>2, <2>4, PagesJoin DEF seen, Turned
    <2>6. CASE more
      <3>1. Turned' = Walk.page * Walk.size
        <4>1. Walk'.page = Walk.page + 1 /\ (Walk.page + 1) - 1 = Walk.page
          BY <1>5, <2>4, <2>6
        <4>2. QED
          BY <1>5, <4>1 DEF Turned
      <3>2. Walk.page * Walk.size < WalkCount
        BY <2>2, <2>3, <2>6 DEF more
      <3>3. \A t \in WalkOrders : t = s
        BY <1>6, <1>7, OneOrder, WalkRowsAreKeys DEF WalkOrders, WalkStrict
      <3>4. seen = SubSeq(s, 1, Turned')
        BY <2>2, <2>5, <3>1, <3>2
      <3>5. Walk'.total = -1 /\ ~req'.done /\ Walk'.seen = seen
        BY <1>4, <1>5, <2>6
      <3>6. QED
        BY <1>6, <3>1, <3>2, <3>3, <3>4, <3>5 DEF WalkSeen
    <2>7. CASE ~more
      <3>1. seen = s
        BY <2>3, <2>5, <2>7 DEF more
      <3>2. req'.done
        BY <1>4, <2>7
      <3>3. Walk'.seen \in WalkOrders'
        BY <1>5, <1>6, <3>1
      <3>4. QED
        BY <3>2, <3>3 DEF WalkSeen
    <2>8. QED
      BY <2>6, <2>7
  <1>8. /\ Walk'.page \in Nat \ {0} /\ Walk'.size \in Nat \ {0} /\ Walk'.total \in Int
        /\ Walk' = [type |-> Walk'.type, size |-> Walk'.size, page |-> Walk'.page,
                    total |-> Walk'.total, seen |-> Walk'.seen]
    BY <1>3, <1>4, <1>5, WalkGoesOn
  <1>9. QED
    BY <1>4, <1>7, <1>8, WalkGoesOn DEF WalkInv, Asked

LEMMA WalkHolds ==
    ASSUME Typed, WalkInv, [Next]_vars
    PROVE  WalkInv'
  <1>1. CASE Write
    <2>1. /\ req'.view = req.view /\ req'.got = req.got /\ ~req'.done
          /\ req.view = "list" => ~Quiet'
      BY <1>1, WriteIsOne DEF OneWrite, Quiet, Typed
    <2>2. QED
      BY <2>1 DEF WalkInv, Asked, Walk
  <1>2. CASE Fail \/ \E view \in Views, f \in Filters : Ask(view, f)
    BY <1>2, ResetForgets DEF WalkInv, Asked
  <1>3. CASE AnswerOverview
    <2>1. req'.view = "overview"
      BY <1>3, AnswerKeeps DEF AnswerOverview
    <2>2. QED
      BY <2>1 DEF WalkInv
  <1>4. CASE AnswerTree \/ AnswerReasons
    <2>1. req'.view = "tree"
      BY <1>4, AnswerKeeps DEF AnswerTree, AnswerReasons
    <2>2. QED
      BY <2>1 DEF WalkInv
  <1>5. CASE Respond
    BY <1>5, RespondKeeps DEF WalkInv
  <1>6. CASE StartWalk
    BY <1>6, WalkBegins
  <1>7. CASE CountPage
    BY <1>7, WalkCounts
  <1>8. CASE ListPage
    BY <1>8, WalkLists
  <1>9. CASE UNCHANGED vars
    <2>1. bag' = bag /\ event' = event /\ req' = req
      BY <1>9 DEF vars
    <2>2. Walk' = Walk /\ Quiet' = Quiet /\ Turned' = Turned
      BY <2>1 DEF Walk, Quiet, Turned
    <2>3. /\ WalkStrict' = WalkStrict /\ WalkCount' = WalkCount /\ WalkOrders' = WalkOrders
      BY <2>1, <2>2, SameWalk
    <2>4. QED
      BY <2>1, <2>2, <2>3 DEF WalkInv, WalkSeen, Asked
  <1>10. QED
    BY <1>1, <1>2, <1>3, <1>4, <1>5, <1>6, <1>7, <1>8, <1>9 DEF Next

LEMMA WalkSees ==
    ASSUME WalkInv
    PROVE  WalkSeesEachOnce
  <1> SUFFICES ASSUME Answered("list"), Quiet, Strict(WalkRows)
               PROVE  IsInjective(Walk.seen) /\ ToSet(Walk.seen) = WalkRows
    BY DEF WalkSeesEachOnce, Strict, WalkRows
  <1>1. Walk.seen \in Orders(WalkRows)
    BY DEF WalkInv, WalkSeen, WalkOrders, WalkStrict, Answered
  <1>2. QED
    BY <1>1, OrderIsAll, WalkRowsAreKeys

-----------------------------------------------------------------------------
(* Theorems                                                                *)

IInv == Typed /\ OverviewInv /\ TreeInv /\ WalkInv

\* The parts of the invariant hold together, for every set of rows and of writers.
THEOREM Invariant == Spec => []IInv
  <1>1. Init => IInv
    <2> SUFFICES ASSUME Init
                 PROVE  IInv
      OBVIOUS
    <2>1. /\ bag = [b \in Bags |-> Absent] /\ event = [k \in Keys |-> Unwritten]
          /\ req = [view |-> "none", f |-> NoFilter, got |-> <<>>, late |-> 0, done |-> FALSE]
      BY DEF Init, NoRequest
    <2>2. TypedTables
      BY <2>1 DEF TypedTables, Columns, Unwritten, Absent
    <2>3. QED
      BY <2>1, <2>2 DEF IInv, Typed, OverviewInv, TreeInv, WalkInv
  <1>2. IInv /\ [Next]_vars => IInv'
    BY TypedHolds, OverviewHolds, TreeHolds, WalkHolds DEF IInv
  <1>3. QED
    BY <1>1, <1>2, PTL DEF Spec

\* GetOverview counts every event once, if none is pending and nothing is written while
\* its three queries run; and what was expected to land is divided up, whatever is written.
THEOREM EventsAreCountedOnce == Spec => []EveryEventIsCountedOnce
  <1>1. IInv => EveryEventIsCountedOnce
    BY OverviewCounts DEF IInv, Typed
  <1>2. QED
    BY <1>1, Invariant, PTL

\* The overview, the modules and the event lists of one table agree.
THEOREM OneStory == Spec => []ViewsAgree
  <1>1. IInv => ViewsAgree
    BY OneTableOneStory DEF IInv, Typed
  <1>2. QED
    BY <1>1, Invariant, PTL

\* The pipeline tree of a table that nobody writes adds up under every filter: bags to
\* bags, events to events, and the children of the parsed bags to what the decoder wrote.
THEOREM TreesAddUp == Spec => []QuietTreeAddsUp
  <1>1. IInv => QuietTreeAddsUp
    BY TreeAddsUp DEF IInv
  <1>2. QED
    BY <1>1, Invariant, PTL

\* The failures of a tree are explained by reasons that are read later, up to the
\* number of writes that came in meanwhile, whatever they replaced.
THEOREM ReasonsAreEnough == Spec => []ReasonsCoverCounts
  <1>1. IInv => ReasonsCoverCounts
    BY TreeExplains DEF IInv
  <1>2. QED
    BY <1>1, Invariant, PTL

\* A walk through the pages of an event list sees each row of a quiet table once, with
\* any page size, if no two rows have the same place in the order.
THEOREM WalksSeeEachOnce == Spec => []WalkSeesEachOnce
  <1>1. IInv => WalkSeesEachOnce
    BY WalkSees DEF IInv
  <1>2. QED
    BY <1>1, Invariant, PTL

=============================================================================
