--------------------------- MODULE DimCacheProofs ---------------------------
(***************************************************************************)
(* Theorems about the cache of the dimension lists, for any requests, any  *)
(* lists and any number of versions.  The invariant says who fetches: the  *)
(* leader of the flight, while nothing is cached, or the request that set  *)
(* the flag of the cached entry.  The flag of an entry that was replaced   *)
(* stays set for good; that is why a request that loaded an old entry can  *)
(* never start another refresh.                                            *)
(***************************************************************************)
EXTENDS DimCache, SequenceTheorems, TLAPS

Leaders == \A r \in Requests : pc[r] \in {"lead", "stored"} => flight = r
Flights == \A r \in Requests : fetch[r] = "flight" => pc[r] = "lead" /\ Cached = 0
Refreshes ==
    \A r \in Requests : fetch[r] = "refresh" =>
        /\ pc[r] = "answered" /\ held[r] = Cached
        /\ Cached > 0 /\ entries[Cached].refreshing
OldFlags == \A i \in 1 .. Cached : i < Cached => entries[i].refreshing
Loaded == \A r \in Requests : pc[r] \in {"hit", "stored"} => held[r] > 0

IInv ==
    /\ TypeOK /\ Leaders /\ Flights /\ Refreshes /\ OldFlags /\ Loaded
    /\ OneFetch /\ NoLostRefresh

Stamp == 1 .. MaxVersion
EntryType == [lists : [Lists -> Stamp], expired : BOOLEAN, refreshing : BOOLEAN]
GotType == UNION {[some -> Stamp] : some \in SUBSET Lists}

-----------------------------------------------------------------------------
\* Setting the refreshing flag of an entry leaves the others and all lists alone.
LEMMA RefreshingKeepsType ==
    ASSUME entries \in Seq(EntryType), NEW i \in 1 .. Cached, NEW b \in BOOLEAN,
           NEW after, after = [entries EXCEPT ![i].refreshing = b]
    PROVE  /\ after \in Seq(EntryType) /\ Len(after) = Cached
           /\ after[i].refreshing = b
           /\ \A j \in 1 .. Cached : j # i => after[j] = entries[j]
           /\ \A j \in 1 .. Cached : after[j].lists = entries[j].lists
  <1> DEFINE new == [entries[i] EXCEPT !.refreshing = b]
  <1>1. Len(entries) \in Nat /\ DOMAIN entries = 1 .. Len(entries)
    OBVIOUS
  <1>2. i \in 1 .. Len(entries) /\ entries[i] \in EntryType
    BY <1>1 DEF Cached
  <1>3. new \in EntryType /\ new.refreshing = b /\ new.lists = entries[i].lists
    BY <1>2 DEF EntryType
  <1>4. after = [entries EXCEPT ![i] = new]
    OBVIOUS
  <1> HIDE DEF new
  <1>5. after \in Seq(EntryType) /\ Len(after) = Len(entries)
    BY <1>2, <1>3, <1>4
  <1>6. after[i] = new /\ \A j \in 1 .. Len(entries) : j # i => after[j] = entries[j]
    BY <1>1, <1>2, <1>4
  <1> QED BY <1>3, <1>5, <1>6 DEF Cached

\* Setting the expired flag of an entry leaves the other flags and all lists alone.
LEMMA ExpiredKeepsType ==
    ASSUME entries \in Seq(EntryType), NEW i \in 1 .. Cached, NEW b \in BOOLEAN,
           NEW after, after = [entries EXCEPT ![i].expired = b]
    PROVE  /\ after \in Seq(EntryType) /\ Len(after) = Cached
           /\ \A j \in 1 .. Cached : /\ after[j].refreshing = entries[j].refreshing
                                     /\ after[j].lists = entries[j].lists
  <1> DEFINE new == [entries[i] EXCEPT !.expired = b]
  <1>1. Len(entries) \in Nat /\ DOMAIN entries = 1 .. Len(entries)
    OBVIOUS
  <1>2. i \in 1 .. Len(entries) /\ entries[i] \in EntryType
    BY <1>1 DEF Cached
  <1>3. new \in EntryType /\ new.refreshing = entries[i].refreshing /\ new.lists = entries[i].lists
    BY <1>2 DEF EntryType
  <1>4. after = [entries EXCEPT ![i] = new]
    OBVIOUS
  <1> HIDE DEF new
  <1>5. after \in Seq(EntryType) /\ Len(after) = Len(entries)
    BY <1>2, <1>3, <1>4
  <1>6. after[i] = new /\ \A j \in 1 .. Len(entries) : j # i => after[j] = entries[j]
    BY <1>1, <1>2, <1>4
  <1> QED BY <1>3, <1>5, <1>6 DEF Cached

\* A complete list of answers makes an entry.
LEMMA EntryIsTyped ==
    ASSUME NEW g \in GotType, DOMAIN g = Lists
    PROVE  Entry(g) \in EntryType
  <1>1. PICK some \in SUBSET Lists : g \in [some -> Stamp]
    BY DEF GotType
  <1>2. g \in [Lists -> Stamp]
    BY <1>1
  <1> QED BY <1>2 DEF Entry, EntryType

\* One more answer is one more list.
LEMMA GotIsTyped ==
    ASSUME NEW g \in GotType, NEW list \in Lists, NEW v \in Stamp
    PROVE  [l \in DOMAIN g \cup {list} |-> IF l = list THEN v ELSE g[l]] \in GotType
  <1>1. PICK some \in SUBSET Lists : g \in [some -> Stamp]
    BY DEF GotType
  <1> DEFINE more == some \cup {list}
             h == [l \in DOMAIN g \cup {list} |-> IF l = list THEN v ELSE g[l]]
  <1>2. h \in [more -> Stamp] /\ more \in SUBSET Lists
    BY <1>1
  <1> HIDE DEF h, more
  <1>3. h \in GotType
    BY <1>2 DEF GotType
  <1> QED BY <1>3 DEF h

LEMMA InitialInvariant == Init => IInv
  <1> SUFFICES ASSUME Init PROVE IInv
    OBVIOUS
  <1>1. <<>> \in GotType
    <2>1. <<>> \in [{} -> Stamp]
      OBVIOUS
    <2> QED BY <2>1 DEF GotType
  <1>2. TypeOK
    <2>1. got \in [Requests -> GotType]
      BY <1>1 DEF Init
    <2>2. version \in 1 .. MaxVersion /\ Len(entries) = 0
      BY CacheAssumption DEF Init
    <2>3. held \in [Requests -> 0 .. Len(entries)]
      BY <2>2 DEF Init
    <2>4. entries \in Seq(EntryType)
      BY DEF Init
    <2>5. /\ flight \in Requests \cup {NoRequest}
          /\ pc \in [Requests -> {"idle", "hit", "miss", "wait", "lead", "stored", "answered"}]
          /\ fetch \in [Requests -> {"nothing", "flight", "refresh"}]
          /\ failed \in [Requests -> BOOLEAN] /\ before \in [Requests -> SUBSET Requests]
      BY DEF Init
    <2> QED BY <2>1, <2>2, <2>3, <2>4, <2>5 DEF TypeOK, EntryType, GotType, Stamp
  <1> QED BY <1>2, CacheAssumption
       DEF Init, IInv, Leaders, Flights, Refreshes, OldFlags, Loaded, OneFetch,
           NoLostRefresh, Cached

-----------------------------------------------------------------------------
(* The steps                                                               *)

LEMMA ChangeKeeps == IInv /\ Change => IInv'
  BY CacheAssumption
  DEF IInv, Change, TypeOK, job, Leaders, Flights, Refreshes, OldFlags, Loaded, OneFetch,
      NoLostRefresh, Cached

LEMMA ExpireKeeps == IInv /\ Expire => IInv'
  <1> SUFFICES ASSUME IInv, Expire PROVE IInv'
    OBVIOUS
  <1>1. entries \in Seq(EntryType) /\ Cached \in 1 .. Cached
    BY DEF IInv, TypeOK, Expire, Cached, EntryType, Stamp
  <1>2. /\ entries' \in Seq(EntryType) /\ Cached' = Cached
        /\ \A j \in 1 .. Cached : entries'[j].refreshing = entries[j].refreshing
    <2> DEFINE on == TRUE
    <2>1. on \in BOOLEAN /\ entries' = [entries EXCEPT ![Cached].expired = on]
      BY DEF Expire
    <2> HIDE DEF on
    <2>2. /\ entries' \in Seq(EntryType) /\ Len(entries') = Cached
          /\ \A j \in 1 .. Cached : entries'[j].refreshing = entries[j].refreshing
      BY <1>1, <2>1, ExpiredKeepsType
    <2> QED BY <2>2 DEF Cached
  <1>3. TypeOK'
    BY <1>2 DEF IInv, TypeOK, Expire, job, EntryType, Stamp, Cached
  <1> QED BY <1>1, <1>2, <1>3
       DEF IInv, Expire, job, Leaders, Flights, Refreshes, OldFlags, Loaded, OneFetch,
           NoLostRefresh

LEMMA LoadKeeps == ASSUME NEW r \in Requests PROVE IInv /\ Load(r) => IInv'
  <1> SUFFICES ASSUME IInv, Load(r) PROVE IInv'
    OBVIOUS
  <1>0. Cached \in Nat
    BY DEF IInv, TypeOK, Cached
  <1>1. TypeOK'
    BY <1>0 DEF IInv, TypeOK, Load, job, Answered, Cached
  <1> QED BY <1>0, <1>1
       DEF IInv, TypeOK, Load, job, Leaders, Flights, Refreshes, OldFlags, Loaded, OneFetch,
           NoLostRefresh, Cached

LEMMA HitKeeps == ASSUME NEW r \in Requests PROVE IInv /\ Hit(r) => IInv'
  <1> SUFFICES ASSUME IInv, Hit(r) PROVE IInv'
    OBVIOUS
  <1> DEFINE i == held[r]
  <1>1. entries \in Seq(EntryType) /\ i \in 1 .. Cached /\ Cached \in Nat
    BY DEF IInv, TypeOK, Loaded, Hit, Cached, EntryType, Stamp
  <1>2. CASE entries[i].expired /\ ~entries[i].refreshing
    <2>1. i = Cached
      BY <1>1, <1>2 DEF IInv, OldFlags
    <2>2. \A q \in Requests : fetch[q] = "nothing"
      BY <1>1, <1>2, <2>1 DEF IInv, TypeOK, Flights, Refreshes
    <2>3. /\ entries' \in Seq(EntryType) /\ Cached' = Cached
          /\ entries'[i].refreshing
          /\ \A j \in 1 .. Cached : j # i => entries'[j] = entries[j]
      <3> DEFINE on == TRUE
      <3>1. on \in BOOLEAN /\ entries' = [entries EXCEPT ![i].refreshing = on]
        BY <1>2 DEF Hit
      <3> HIDE DEF i, on
      <3>2. /\ entries' \in Seq(EntryType) /\ Len(entries') = Cached
            /\ entries'[i].refreshing = on
            /\ \A j \in 1 .. Cached : j # i => entries'[j] = entries[j]
        BY <1>1, <3>1, RefreshingKeepsType
      <3> QED BY <3>2 DEF Cached, on
    <2>4. <<>> \in GotType
      <3>1. <<>> \in [{} -> Stamp]
        OBVIOUS
      <3> QED BY <3>1 DEF GotType
    <2>5. TypeOK'
      BY <1>2, <2>3, <2>4 DEF IInv, TypeOK, Hit, Start, EntryType, GotType, Stamp, Cached
    <2>6. fetch' = [fetch EXCEPT ![r] = "refresh"] /\ pc' = [pc EXCEPT ![r] = "answered"]
          /\ flight' = flight /\ held' = held
      BY <1>2 DEF Hit, Start
    <2>7. OneFetch' /\ NoLostRefresh'
      BY <2>1, <2>2, <2>3, <2>6 DEF IInv, TypeOK, OneFetch, NoLostRefresh
    <2>8. Leaders' /\ Loaded'
      BY <2>6 DEF IInv, TypeOK, Leaders, Loaded
    <2>9. Flights' /\ Refreshes'
      <3>1. \A q \in Requests : fetch'[q] # "nothing" => q = r /\ fetch'[q] = "refresh"
        BY <2>2, <2>6 DEF IInv, TypeOK
      <3>2. pc'[r] = "answered"
        BY <2>6 DEF IInv, TypeOK
      <3> QED BY <1>1, <2>1, <2>3, <2>6, <3>1, <3>2 DEF Flights, Refreshes
    <2>10. OldFlags'
      BY <2>1, <2>3 DEF IInv, OldFlags
    <2> QED BY <2>5, <2>7, <2>8, <2>9, <2>10 DEF IInv
  <1>3. CASE ~(entries[i].expired /\ ~entries[i].refreshing)
    <2>1. UNCHANGED <<entries, job, version, flight, held, before>>
      BY <1>3 DEF Hit
    <2> QED BY <1>3, <2>1
         DEF IInv, TypeOK, Hit, job, Leaders, Flights, Refreshes, OldFlags, Loaded, OneFetch,
             NoLostRefresh, Cached
  <1> QED BY <1>2, <1>3

LEMMA MissKeeps == ASSUME NEW r \in Requests PROVE IInv /\ Miss(r) => IInv'
  <1> SUFFICES ASSUME IInv, Miss(r) PROVE IInv'
    OBVIOUS
  <1>1. /\ UNCHANGED <<version, entries, held, fetch, got, failed, before>>
        /\ \/ flight = NoRequest /\ flight' = r /\ pc' = [pc EXCEPT ![r] = "lead"]
           \/ flight' = flight /\ pc' = [pc EXCEPT ![r] = "wait"]
    BY DEF Miss, job
  <1>2. TypeOK'
    BY <1>1 DEF IInv, TypeOK
  <1>3. Leaders' /\ Loaded'
    BY <1>1, CacheAssumption DEF IInv, TypeOK, Leaders, Loaded, Miss
  <1>4. Flights' /\ Refreshes'
    BY <1>1 DEF IInv, TypeOK, Flights, Refreshes, Miss, Cached
  <1> QED BY <1>1, <1>2, <1>3, <1>4 DEF IInv, OldFlags, OneFetch, NoLostRefresh, Cached

\* The end of a flight, whose leader is r and which fetches no more.
LEMMA LandKeeps ==
    ASSUME NEW r \in Requests, NEW entry \in 0 .. Cached,
           IInv, flight = r, pc[r] \in {"lead", "stored"}, Land(r, entry),
           UNCHANGED <<version, entries, got, failed, before>>,
           fetch' = [fetch EXCEPT ![r] = "nothing"]
    PROVE  IInv'
  <1>1. \A q \in Requests : q # r => pc[q] \notin {"lead", "stored"}
    BY CacheAssumption DEF IInv, Leaders
  <1>2. \A q \in Requests : fetch'[q] # "nothing" =>
            /\ fetch'[q] = fetch[q] /\ pc'[q] = pc[q] /\ held'[q] = held[q]
            /\ fetch[q] = "refresh"
    BY <1>1 DEF IInv, TypeOK, Flights, Refreshes, Land
  <1>3. TypeOK'
    BY DEF IInv, TypeOK, Land, Cached
  <1>4. Leaders' /\ Loaded'
    BY <1>1 DEF IInv, TypeOK, Leaders, Loaded, Land
  <1>5. Flights' /\ Refreshes' /\ OldFlags' /\ OneFetch'
    BY <1>2 DEF IInv, Flights, Refreshes, OldFlags, OneFetch, Cached
  <1>6. NoLostRefresh'
    <2>1. \A q \in Requests : fetch[q] = "refresh" => fetch'[q] = "refresh" /\ held'[q] = held[q]
      BY DEF IInv, TypeOK, Refreshes, Land
    <2> QED BY <2>1 DEF IInv, NoLostRefresh, Cached
  <1> QED BY <1>3, <1>4, <1>5, <1>6 DEF IInv

LEMMA LeadKeeps == ASSUME NEW r \in Requests PROVE IInv /\ Lead(r) => IInv'
  <1> SUFFICES ASSUME IInv, Lead(r) PROVE IInv'
    OBVIOUS
  <1>0. Cached \in Nat /\ flight = r
    BY DEF IInv, TypeOK, Lead, Leaders, Cached
  <1>1. CASE Cached > 0
    <2>1. fetch' = [fetch EXCEPT ![r] = "nothing"] /\ Land(r, Cached)
          /\ UNCHANGED <<version, entries, got, failed, before>>
      BY <1>1 DEF IInv, TypeOK, Lead, job
    <2>2. pc[r] \in {"lead", "stored"} /\ Cached \in 0 .. Cached
      BY <1>0 DEF Lead
    <2> QED BY <1>0, <2>1, <2>2, LandKeeps
  <1>2. CASE ~(Cached > 0)
    <2>1. Start(r, "flight") /\ UNCHANGED <<version, entries, flight, pc, held, before>>
      BY <1>2 DEF Lead
    <2>2. \A q \in Requests : fetch[q] = "nothing"
      BY <1>0, <1>2 DEF IInv, TypeOK, Flights, Refreshes, Leaders, Lead
    <2>3. <<>> \in GotType
      <3>1. <<>> \in [{} -> Stamp]
        OBVIOUS
      <3> QED BY <3>1 DEF GotType
    <2>4. TypeOK'
      BY <2>1, <2>3 DEF IInv, TypeOK, Start, GotType, Stamp, Cached
    <2>5. OneFetch' /\ NoLostRefresh'
      BY <1>0, <1>2, <2>1, <2>2 DEF IInv, TypeOK, Start, OneFetch, NoLostRefresh, Cached
    <2>6. \A q \in Requests : fetch'[q] # "nothing" => q = r /\ fetch'[q] = "flight"
      BY <2>1, <2>2 DEF IInv, TypeOK, Start
    <2>7. Cached' = 0
      BY <1>0, <1>2, <2>1 DEF Cached
    <2>8. Flights' /\ Refreshes'
      BY <2>1, <2>6, <2>7 DEF Flights, Refreshes, Lead
    <2>9. Leaders' /\ Loaded' /\ OldFlags'
      BY <2>1 DEF IInv, Leaders, Loaded, OldFlags, Cached
    <2> QED BY <2>4, <2>5, <2>8, <2>9 DEF IInv
  <1> QED BY <1>1, <1>2

LEMMA ReturnKeeps == ASSUME NEW r \in Requests PROVE IInv /\ Return(r) => IInv'
  <1> SUFFICES ASSUME IInv, Return(r) PROVE IInv'
    OBVIOUS
  <1>1. flight = r /\ held[r] \in 0 .. Cached /\ fetch[r] = "nothing"
    BY DEF IInv, TypeOK, Return, Leaders, Flights, Refreshes, Cached
  <1>2. fetch' = [fetch EXCEPT ![r] = "nothing"] /\ UNCHANGED <<version, entries, got, failed, before>>
    BY <1>1 DEF IInv, TypeOK, Return, job
  <1> QED BY <1>1, <1>2, LandKeeps DEF Return

LEMMA QueryKeeps ==
    ASSUME NEW r \in Requests, NEW list \in Lists, NEW ok \in BOOLEAN
    PROVE  IInv /\ Query(r, list, ok) => IInv'
  <1> SUFFICES ASSUME IInv, Query(r, list, ok) PROVE IInv'
    OBVIOUS
  <1>1. got[r] \in GotType /\ version \in Stamp
    BY DEF IInv, TypeOK, GotType, Stamp
  <1> DEFINE more == [l \in DOMAIN got[r] \cup {list} |-> IF l = list THEN version ELSE got[r][l]]
  <1>2. more \in GotType
    BY <1>1, GotIsTyped
  <1>3. got' = [got EXCEPT ![r] = more] /\ got \in [Requests -> GotType]
    BY DEF Query, IInv, TypeOK, GotType, Stamp
  <1>4. got' \in [Requests -> GotType]
    <2> HIDE DEF more
    <2> QED BY <1>2, <1>3
  <1>5. TypeOK'
    BY <1>4 DEF IInv, TypeOK, Query, GotType, Stamp
  <1> QED BY <1>5
       DEF IInv, Query, Leaders, Flights, Refreshes, OldFlags, Loaded, OneFetch,
           NoLostRefresh, Cached

LEMMA RefreshFailedKeeps == ASSUME NEW r \in Requests PROVE IInv /\ RefreshFailed(r) => IInv'
  <1> SUFFICES ASSUME IInv, RefreshFailed(r) PROVE IInv'
    OBVIOUS
  <1>1. entries \in Seq(EntryType) /\ Cached \in 1 .. Cached /\ held[r] = Cached
    BY DEF IInv, TypeOK, RefreshFailed, Complete, Refreshes, Cached, EntryType, Stamp
  <1>2. /\ entries' \in Seq(EntryType) /\ Cached' = Cached
        /\ ~entries'[Cached].refreshing
        /\ \A j \in 1 .. Cached : j # Cached => entries'[j] = entries[j]
    <2> DEFINE off == FALSE
    <2>1. off \in BOOLEAN /\ entries' = [entries EXCEPT ![Cached].refreshing = off]
      BY <1>1 DEF RefreshFailed
    <2> HIDE DEF off
    <2>2. /\ entries' \in Seq(EntryType) /\ Len(entries') = Cached
          /\ entries'[Cached].refreshing = off
          /\ \A j \in 1 .. Cached : j # Cached => entries'[j] = entries[j]
      BY <1>1, <2>1, RefreshingKeepsType
    <2> QED BY <2>2 DEF Cached, off
  <1>3. fetch' = [fetch EXCEPT ![r] = "nothing"] /\ UNCHANGED <<version, got, failed, before, flight, pc, held>>
    BY DEF RefreshFailed, Complete
  <1>4. TypeOK'
    BY <1>2, <1>3 DEF IInv, TypeOK, EntryType, Stamp, Cached
  <1>5. \A q \in Requests : fetch'[q] = "nothing"
    BY <1>3 DEF IInv, TypeOK, OneFetch, RefreshFailed, Complete
  <1> QED BY <1>1, <1>2, <1>3, <1>4, <1>5
       DEF IInv, Leaders, Flights, Refreshes, OldFlags, Loaded, OneFetch, NoLostRefresh

LEMMA RefreshedKeeps == ASSUME NEW r \in Requests PROVE IInv /\ Refreshed(r) => IInv'
  <1> SUFFICES ASSUME IInv, Refreshed(r) PROVE IInv'
    OBVIOUS
  <1>1. got[r] \in GotType /\ DOMAIN got[r] = Lists
    BY DEF IInv, TypeOK, Refreshed, Complete, GotType, Stamp
  <1>2. entries \in Seq(EntryType) /\ Cached \in Nat /\ Cached > 0 /\ entries[Cached].refreshing
    BY DEF IInv, TypeOK, Refreshed, Complete, Refreshes, Cached, EntryType, Stamp
  <1>3. /\ entries' \in Seq(EntryType) /\ Cached' = Cached + 1
        /\ \A j \in 1 .. Cached : entries'[j] = entries[j]
        /\ entries'[Cached + 1] = Entry(got[r])
    BY <1>1, <1>2, EntryIsTyped DEF Refreshed, Cached
  <1>4. fetch' = [fetch EXCEPT ![r] = "nothing"] /\ UNCHANGED <<version, got, failed, before, flight, pc, held>>
    BY DEF Refreshed, Complete
  <1>5. TypeOK'
    BY <1>2, <1>3, <1>4 DEF IInv, TypeOK, EntryType, Stamp, Cached
  <1>6. \A q \in Requests : fetch'[q] = "nothing"
    BY <1>4 DEF IInv, TypeOK, OneFetch, Refreshed, Complete
  <1>7. ~entries'[Cached + 1].refreshing
    BY <1>3 DEF Entry
  <1>8. OldFlags'
    BY <1>2, <1>3 DEF IInv, OldFlags
  <1> QED BY <1>3, <1>4, <1>5, <1>6, <1>7, <1>8
       DEF IInv, Leaders, Flights, Refreshes, Loaded, OneFetch, NoLostRefresh

LEMMA FlightFailedKeeps == ASSUME NEW r \in Requests PROVE IInv /\ FlightFailed(r) => IInv'
  <1> SUFFICES ASSUME IInv, FlightFailed(r) PROVE IInv'
    OBVIOUS
  <1>1. pc[r] = "lead" /\ flight = r /\ 0 \in 0 .. Cached
    BY DEF IInv, TypeOK, FlightFailed, Complete, Flights, Leaders, Cached
  <1> QED BY <1>1, LandKeeps DEF FlightFailed, Complete

LEMMA StoredKeeps == ASSUME NEW r \in Requests PROVE IInv /\ Stored(r) => IInv'
  <1> SUFFICES ASSUME IInv, Stored(r) PROVE IInv'
    OBVIOUS
  <1>1. got[r] \in GotType /\ DOMAIN got[r] = Lists
    BY DEF IInv, TypeOK, Stored, Complete, GotType, Stamp
  <1>2. entries \in Seq(EntryType) /\ Cached = 0 /\ pc[r] = "lead" /\ flight = r
    BY DEF IInv, TypeOK, Stored, Complete, Flights, Leaders, Cached, EntryType, Stamp
  <1>3. /\ entries' \in Seq(EntryType) /\ Cached' = 1
        /\ entries'[1] = Entry(got[r])
    BY <1>1, <1>2, EntryIsTyped DEF Stored, Cached
  <1>4. /\ fetch' = [fetch EXCEPT ![r] = "nothing"] /\ pc' = [pc EXCEPT ![r] = "stored"]
        /\ held' = [held EXCEPT ![r] = 1] /\ UNCHANGED <<version, got, failed, before, flight>>
    BY <1>2 DEF Stored, Complete
  <1>5. TypeOK'
    BY <1>2, <1>3, <1>4 DEF IInv, TypeOK, EntryType, Stamp, Cached
  <1>6. \A q \in Requests : fetch'[q] = "nothing"
    BY <1>4 DEF IInv, TypeOK, OneFetch, Stored, Complete
  <1>7. ~entries'[1].refreshing
    BY <1>3 DEF Entry
  <1> QED BY <1>2, <1>3, <1>4, <1>5, <1>6, <1>7
       DEF IInv, TypeOK, Leaders, Flights, Refreshes, OldFlags, Loaded, OneFetch, NoLostRefresh

-----------------------------------------------------------------------------
LEMMA NextKeepsInvariant == IInv /\ [Next]_vars => IInv'
  <1> SUFFICES ASSUME IInv, [Next]_vars PROVE IInv'
    OBVIOUS
  <1>1. CASE UNCHANGED vars
    BY <1>1 DEF vars, job, IInv, TypeOK, Leaders, Flights, Refreshes, OldFlags, Loaded,
                OneFetch, NoLostRefresh, Cached
  <1>2. CASE Change \/ Expire
    BY <1>2, ChangeKeeps, ExpireKeeps
  <1>3. CASE \E r \in Requests : Load(r) \/ Asking(r)
    BY <1>3, LoadKeeps, HitKeeps, MissKeeps, LeadKeeps, ReturnKeeps DEF Asking
  <1>4. CASE \E r \in Requests : Fetching(r)
    BY <1>4, QueryKeeps, RefreshFailedKeeps, RefreshedKeeps, FlightFailedKeeps, StoredKeeps
       DEF Fetching
  <1> QED BY <1>1, <1>2, <1>3, <1>4 DEF Next

\* The invariant of the cache holds in every state of every behavior.
THEOREM Invariant == Spec => []IInv
  BY InitialInvariant, NextKeepsInvariant, PTL DEF Spec

\* Type correctness of the cache, its requests and their fetches.
THEOREM TypeCorrect == Spec => []TypeOK
  <1>1. IInv => TypeOK
    BY DEF IInv
  <1> QED BY <1>1, Invariant, PTL

\* GetDimensions has at most one fetch at Doris, whatever the number of
\* requests: a cold start and a refresh never run at once either.
THEOREM OneFetchHolds == Spec => []OneFetch
  <1>1. IInv => OneFetch
    BY DEF IInv
  <1> QED BY <1>1, Invariant, PTL

\* The refreshing flag of the cached entry is never left behind.
THEOREM NoLostRefreshHolds == Spec => []NoLostRefresh
  <1>1. IInv => NoLostRefresh
    BY DEF IInv
  <1> QED BY <1>1, Invariant, PTL

\* GetDimensions fails no request that is answered while an entry is cached.
THEOREM ServedOnceCachedHolds == Spec => ServedOnceCached
  <1> DEFINE Served ==
        \A r \in Requests : Cached > 0 /\ r \in Answered' \ Answered => held'[r] # 0
  <1>1. IInv /\ [Next]_vars => [Served]_vars
    <2> SUFFICES ASSUME IInv, Next, NEW r \in Requests, Cached > 0,
                        pc[r] # "answered", pc'[r] = "answered"
                 PROVE  held'[r] # 0
      BY DEF Answered
    <2>1. CASE Hit(r)
      BY <2>1 DEF IInv, TypeOK, Loaded, Hit, Cached
    <2>2. CASE \E q \in Requests : Lead(q)
      <3>1. PICK q \in Requests : Lead(q)
        BY <2>2
      <3>2. Land(q, Cached)
        BY <3>1 DEF Lead
      <3> QED BY <3>2 DEF Land, IInv, TypeOK
    <2>3. CASE \E q \in Requests : Return(q)
      <3>1. PICK q \in Requests : Return(q)
        BY <2>3
      <3>2. held[q] > 0 /\ held[q] \in Nat
        BY <3>1 DEF Return, IInv, TypeOK, Loaded
      <3> QED BY <3>1, <3>2 DEF Return, Land, IInv, TypeOK
    <2>4. CASE \E q \in Requests : FlightFailed(q)
      BY <2>4 DEF FlightFailed, Complete, IInv, Flights
    <2>5. CASE \E q \in Requests : Load(q) \/ Miss(q) \/ Stored(q) \/ (q # r /\ Hit(q))
      BY <2>5 DEF Load, Miss, Stored, Hit, IInv, TypeOK
    <2>6. CASE \/ Change \/ Expire
               \/ \E q \in Requests :
                     \/ RefreshFailed(q) \/ Refreshed(q)
                     \/ \E list \in Lists, ok \in BOOLEAN : Query(q, list, ok)
      BY <2>6 DEF Change, Expire, RefreshFailed, Refreshed, Query
    <2> QED BY <2>1, <2>2, <2>3, <2>4, <2>5, <2>6 DEF Next, Asking, Fetching
  <1>2. ServedOnceCached <=> [][Served]_vars
    BY PTL DEF ServedOnceCached
  <1> QED BY <1>1, <1>2, Invariant, PTL DEF Spec

-----------------------------------------------------------------------------
(* The versions of the lists.  A later entry is newer, list by list, because *)
(* its fetch began after the entry before it was stored; and a request never *)
(* gets an earlier entry than one that was answered before it came.          *)

NewerEntries == \A i, j \in 1 .. Cached : i <= j =>
    \A l \in Lists : entries[i].lists[l] <= entries[j].lists[l]
PastEntries == \A i \in 1 .. Cached, l \in Lists : entries[i].lists[l] <= version
NewerFetch == \A r \in Requests : fetch[r] # "nothing" => \A l \in DOMAIN got[r] :
    /\ got[r][l] <= version
    /\ Cached > 0 => entries[Cached].lists[l] <= got[r][l]

LaterEntry == \A r \in Requests : \A q \in before[r] :
    /\ pc[r] # "idle" /\ pc[q] = "answered"
    /\ pc[r] \in {"miss", "wait", "lead"} => held[q] = 0
    /\ held[r] # 0 => held[q] <= held[r]

OrderInv == NewerEntries /\ PastEntries /\ NewerFetch /\ LaterEntry

LEMMA OrderFollows == ASSUME IInv, OrderInv PROVE ReadsAreMonotone
  <1> SUFFICES ASSUME NEW r \in Answered, NEW q \in before[r], held[r] # 0, held[q] # 0,
                      NEW l \in Lists
               PROVE  entries[held[q]].lists[l] <= entries[held[r]].lists[l]
    BY DEF ReadsAreMonotone
  <1>1. r \in Requests /\ q \in Requests
    BY DEF Answered, IInv, TypeOK
  <1>2. Cached \in Nat /\ held[r] \in 0 .. Cached /\ held[q] \in 0 .. Cached
    BY <1>1 DEF IInv, TypeOK, Cached
  <1>3. held[q] <= held[r]
    BY <1>1 DEF OrderInv, LaterEntry
  <1>4. held[q] \in 1 .. Cached /\ held[r] \in 1 .. Cached
    BY <1>2
  <1>5. QED
    BY <1>3, <1>4 DEF OrderInv, NewerEntries

\* What a step may do to the entries: set flags, or add the lists of a fetch
\* that is complete, after which nobody fetches.
Adds(r) ==
    /\ fetch[r] # "nothing" /\ DOMAIN got[r] = Lists
    /\ Cached' = Cached + 1 /\ entries'[Cached + 1].lists = got[r]
    /\ \A q \in Requests : fetch'[q] = "nothing"

LEMMA EntriesStay ==
    ASSUME IInv, [Next]_vars
    PROVE  /\ \A i \in 1 .. Cached : entries'[i].lists = entries[i].lists
           /\ Cached' = Cached \/ \E r \in Requests : Adds(r)
  <1>1. entries \in Seq(EntryType) /\ Cached \in Nat /\ \A r \in Requests : held[r] \in 0 .. Cached
    BY DEF IInv, TypeOK, Cached, EntryType, Stamp
  <1>2. CASE entries' = entries
    BY <1>2 DEF Cached
  <1>3. CASE Expire
    <2> DEFINE on == TRUE
    <2>1. on \in BOOLEAN /\ Cached \in 1 .. Cached /\ entries' = [entries EXCEPT ![Cached].expired = on]
      BY <1>1, <1>3 DEF Expire
    <2> HIDE DEF on
    <2>2. Len(entries') = Cached /\ \A j \in 1 .. Cached : entries'[j].lists = entries[j].lists
      BY <1>1, <2>1, ExpiredKeepsType
    <2>3. QED
      BY <2>2 DEF Cached
  <1>4. ASSUME NEW r \in Requests, NEW b \in BOOLEAN, held[r] > 0,
               entries' = [entries EXCEPT ![held[r]].refreshing = b]
        PROVE  Cached' = Cached /\ \A i \in 1 .. Cached : entries'[i].lists = entries[i].lists
    <2> DEFINE k == held[r]
    <2>1. k \in 1 .. Cached /\ entries' = [entries EXCEPT ![k].refreshing = b]
      BY <1>1, <1>4
    <2> HIDE DEF k
    <2>2. Len(entries') = Cached /\ \A j \in 1 .. Cached : entries'[j].lists = entries[j].lists
      BY <1>1, <2>1, RefreshingKeepsType
    <2>3. QED
      BY <2>2 DEF Cached
  <1>5. ASSUME NEW r \in Requests, Refreshed(r) \/ Stored(r)
        PROVE  Adds(r) /\ \A i \in 1 .. Cached : entries'[i].lists = entries[i].lists
    <2>1. /\ fetch[r] # "nothing" /\ DOMAIN got[r] = Lists /\ got[r] \in GotType
          /\ entries' = Append(entries, Entry(got[r]))
          /\ fetch' = [fetch EXCEPT ![r] = "nothing"]
      BY <1>5 DEF Refreshed, Stored, Complete, IInv, TypeOK, GotType, Stamp
    <2>2. Entry(got[r]) \in EntryType
      BY <2>1, EntryIsTyped
    <2>3. /\ Len(entries') = Cached + 1 /\ entries'[Cached + 1] = Entry(got[r])
          /\ \A i \in 1 .. Cached : entries'[i] = entries[i]
      BY <1>1, <2>1, <2>2, AppendProperties DEF Cached
    <2>4. \A q \in Requests : fetch'[q] = "nothing"
      BY <2>1 DEF IInv, TypeOK, OneFetch
    <2>5. QED
      BY <2>1, <2>3, <2>4 DEF Adds, Cached, Entry
  <1>6. ASSUME NEW r \in Requests, Hit(r) PROVE entries' = entries \/
              (held[r] > 0 /\ entries' = [entries EXCEPT ![held[r]].refreshing = TRUE])
    BY <1>6 DEF Hit, IInv, Loaded
  <1>7. ASSUME NEW r \in Requests, RefreshFailed(r)
        PROVE  held[r] > 0 /\ entries' = [entries EXCEPT ![held[r]].refreshing = FALSE]
    BY <1>7 DEF RefreshFailed, Complete, IInv, Refreshes
  <1>8. CASE Change \/ UNCHANGED vars
    BY <1>2, <1>8 DEF Change, vars
  <1>9. ASSUME NEW r \in Requests, Load(r) \/ Asking(r)
        PROVE  Cached' = Cached /\ \A i \in 1 .. Cached : entries'[i].lists = entries[i].lists
    <2>1. CASE Hit(r)
      BY <1>2, <1>4, <1>6, <2>1 DEF Cached
    <2>2. CASE entries' = entries
      BY <2>2 DEF Cached
    <2>3. QED
      BY <1>9, <2>1, <2>2 DEF Load, Asking, Miss, Lead, Return
  <1>10. ASSUME NEW r \in Requests, Fetching(r)
         PROVE  /\ \A i \in 1 .. Cached : entries'[i].lists = entries[i].lists
                /\ Cached' = Cached \/ Adds(r)
    <2>1. CASE RefreshFailed(r)
      BY <1>4, <1>7, <2>1
    <2>2. CASE entries' = entries
      BY <2>2 DEF Cached
    <2>3. QED
      BY <1>5, <1>10, <2>1, <2>2 DEF Fetching, Query, FlightFailed
  <1>11. QED
    BY <1>3, <1>8, <1>9, <1>10 DEF Next

\* What is fetched was read since the fetch began, the newest of it just now.
LEMMA FetchSteps ==
    ASSUME IInv, [Next]_vars, NEW r \in Requests, fetch'[r] # "nothing"
    PROVE  \/ DOMAIN got'[r] = {}
           \/ /\ fetch[r] # "nothing"
              /\ \A l \in DOMAIN got'[r] :
                     (l \in DOMAIN got[r] /\ got'[r][l] = got[r][l]) \/ got'[r][l] = version
  <1> DEFINE Kept == fetch[r] # "nothing" /\ got'[r] = got[r]
             Fresh == DOMAIN got'[r] = {}
             More == \A l \in DOMAIN got'[r] :
                         (l \in DOMAIN got[r] /\ got'[r][l] = got[r][l]) \/ got'[r][l] = version
  <1>1. ASSUME UNCHANGED vars \/ Change \/ Expire PROVE Kept
    BY <1>1 DEF vars, job, Change, Expire
  <1>2. ASSUME NEW q \in Requests, Load(q) \/ Miss(q) \/ Return(q) PROVE Kept
    BY <1>2 DEF Load, Miss, Return, job
  <1>3. ASSUME NEW q \in Requests, Hit(q) \/ Lead(q) PROVE Kept \/ Fresh
    BY <1>3 DEF Hit, Lead, Start, job, IInv, TypeOK
  <1>4. ASSUME NEW q \in Requests, RefreshFailed(q) \/ Refreshed(q) \/ FlightFailed(q) \/ Stored(q)
        PROVE  Kept
    BY <1>4 DEF RefreshFailed, Refreshed, FlightFailed, Stored, Complete, IInv, TypeOK
  <1>5. ASSUME NEW q \in Requests, NEW list \in Lists, NEW ok \in BOOLEAN, Query(q, list, ok)
        PROVE  fetch[r] # "nothing" /\ (Kept \/ More)
    <2>1. fetch' = fetch /\ got' = [got EXCEPT ![q] =
              [l \in DOMAIN got[q] \cup {list} |-> IF l = list THEN version ELSE got[q][l]]]
      BY <1>5 DEF Query
    <2>2. CASE q = r
      <3>1. got'[r] = [l \in DOMAIN got[r] \cup {list} |-> IF l = list THEN version ELSE got[r][l]]
        BY <2>1, <2>2 DEF IInv, TypeOK
      <3>2. More
        BY <3>1
      <3>3. QED
        BY <2>1, <3>2
    <2>3. CASE q # r
      BY <2>1, <2>3 DEF IInv, TypeOK
    <2>4. QED
      BY <2>2, <2>3
  <1>6. Kept => More
    OBVIOUS
  <1> HIDE DEF Kept, Fresh, More
  <1>7. Fresh \/ (fetch[r] # "nothing" /\ More)
    <2>1. Kept => fetch[r] # "nothing"
      BY DEF Kept
    <2>2. QED
      BY <1>1, <1>2, <1>3, <1>4, <1>5, <1>6, <2>1 DEF Next, Asking, Fetching
  <1>8. QED
    BY <1>7 DEF Fresh, More

\* The requests' answers are given by Load, Hit and the end of a flight.
LEMMA LandLater ==
    ASSUME IInv, LaterEntry, NEW r \in Requests, pc[r] \in {"lead", "stored"},
           NEW entry \in Nat, entry = 0 \/ entry = held[r] \/ pc[r] = "lead",
           Land(r, entry), before' = before
    PROVE  LaterEntry'
  <1> SUFFICES ASSUME NEW s \in Requests, NEW q \in before[s]
               PROVE  /\ pc'[s] # "idle" /\ pc'[q] = "answered"
                      /\ pc'[s] \in {"miss", "wait", "lead"} => held'[q] = 0
                      /\ held'[s] # 0 => held'[q] <= held'[s]
    BY DEF LaterEntry
  <1>1. q \in Requests
    BY DEF IInv, TypeOK
  <1>2. pc[q] = "answered" /\ pc[s] # "idle"
    BY DEF LaterEntry
  <1>3. pc'[q] = "answered" /\ held'[q] = held[q]
    BY <1>1, <1>2 DEF Land
  <1>4. CASE s = r \/ pc[s] = "wait"
    <2>1. pc'[s] = "answered" /\ held'[s] = entry
      BY <1>4 DEF Land
    <2>2. entry # 0 => held[q] <= entry
      BY <1>1, <1>4 DEF LaterEntry, IInv, TypeOK
    <2>3. QED
      BY <1>2, <1>3, <2>1, <2>2
  <1>5. CASE s # r /\ pc[s] # "wait"
    <2>1. pc'[s] = pc[s] /\ held'[s] = held[s]
      BY <1>5 DEF Land
    <2>2. QED
      BY <1>2, <1>3, <2>1 DEF LaterEntry
  <1>6. QED
    BY <1>4, <1>5

LEMMA NextLater == ASSUME IInv, LaterEntry, [Next]_vars PROVE LaterEntry'
  <1>1. CASE UNCHANGED <<pc, held, before>>
    BY <1>1 DEF LaterEntry
  <1>2. ASSUME NEW r \in Requests, Load(r) PROVE LaterEntry'
    <2>1. /\ pc' = [pc EXCEPT ![r] = IF Cached > 0 THEN "hit" ELSE "miss"] /\ pc[r] = "idle"
          /\ held' = [held EXCEPT ![r] = Cached] /\ before' = [before EXCEPT ![r] = Answered]
      BY <1>2 DEF Load
    <2>2. \A q \in Requests : held[q] \in 0 .. Cached /\ Cached \in Nat
      BY DEF IInv, TypeOK, Cached
    <2>3. ASSUME NEW q \in before'[r]
          PROVE  /\ pc'[r] # "idle" /\ pc'[q] = "answered"
                 /\ pc'[r] \in {"miss", "wait", "lead"} => held'[q] = 0
                 /\ held'[r] # 0 => held'[q] <= held'[r]
      BY <2>1, <2>2, <2>3 DEF IInv, TypeOK, Answered
    <2>4. ASSUME NEW s \in Requests \ {r}, NEW q \in before'[s]
          PROVE  /\ pc'[s] # "idle" /\ pc'[q] = "answered"
                 /\ pc'[s] \in {"miss", "wait", "lead"} => held'[q] = 0
                 /\ held'[s] # 0 => held'[q] <= held'[s]
      BY <2>1, <2>4 DEF IInv, TypeOK, LaterEntry
    <2>5. QED
      BY <2>3, <2>4 DEF LaterEntry
  <1>3. ASSUME NEW r \in Requests, Hit(r) \/ Miss(r) PROVE LaterEntry'
    BY <1>3 DEF Hit, Miss, LaterEntry, IInv, TypeOK
  <1>4. ASSUME NEW r \in Requests, Lead(r) PROVE LaterEntry'
    <2>1. CASE Cached > 0
      BY <1>4, <2>1, LandLater DEF Lead, IInv, TypeOK, Cached
    <2>2. CASE ~(Cached > 0)
      BY <1>1, <1>4, <2>2 DEF Lead
    <2>3. QED
      BY <2>1, <2>2
  <1>5. ASSUME NEW r \in Requests, Return(r) PROVE LaterEntry'
    <2>1. held[r] \in Nat
      BY DEF IInv, TypeOK
    <2>2. QED
      BY <1>5, <2>1, LandLater DEF Return
  <1>6. ASSUME NEW r \in Requests, FlightFailed(r) PROVE LaterEntry'
    BY <1>6, LandLater DEF FlightFailed, Complete, IInv, Flights
  <1>7. ASSUME NEW r \in Requests, Stored(r) PROVE LaterEntry'
    <2>1. pc' = [pc EXCEPT ![r] = "stored"] /\ before' = before /\ held' = [held EXCEPT ![r] = Cached + 1]
      BY <1>7 DEF Stored, Complete
    <2>2. pc[r] = "lead" /\ Cached = 0
      BY <1>7 DEF Stored, Complete, IInv, Flights
    <2>3. QED
      BY <2>1, <2>2 DEF LaterEntry, IInv, TypeOK
  <1>8. ASSUME NEW r \in Requests, Fetching(r), ~FlightFailed(r), ~Stored(r)
        PROVE  UNCHANGED <<pc, held, before>>
    BY <1>8 DEF Fetching, Query, RefreshFailed, Refreshed, Complete
  <1>9. QED
    BY <1>1, <1>2, <1>3, <1>4, <1>5, <1>6, <1>7, <1>8 DEF Next, Asking, Fetching, Change, Expire, vars

LEMMA NextOrder == IInv /\ OrderInv /\ [Next]_vars => OrderInv'
  <1> SUFFICES ASSUME IInv, OrderInv, [Next]_vars PROVE OrderInv'
    OBVIOUS
  <1>1. version \in Nat /\ version' \in Nat /\ version <= version' /\ Cached \in Nat
    <2>1. version \in Nat /\ Cached \in Nat
      BY DEF IInv, TypeOK, Cached
    <2>2. version' = version \/ version' = version + 1
      BY DEF Next, Change, Expire, Load, Asking, Hit, Miss, Lead, Return, Fetching, Query,
             RefreshFailed, Refreshed, FlightFailed, Stored, Complete, vars
    <2>3. QED
      BY <2>1, <2>2
  <1>2. \A i \in 1 .. Cached, l \in Lists : entries[i].lists[l] \in Nat
    <2>1. \A i \in 1 .. Cached : entries[i] \in EntryType
      BY ElementOfSeq DEF IInv, TypeOK, Cached, EntryType, Stamp
    <2>2. QED
      BY <2>1 DEF EntryType, Stamp
  <1>3. \A i \in 1 .. Cached : entries'[i].lists = entries[i].lists
    BY EntriesStay
  <1>4. CASE Cached' = Cached
    <2>1. NewerEntries' /\ PastEntries'
      BY <1>1, <1>2, <1>3, <1>4 DEF OrderInv, NewerEntries, PastEntries
    <2>2. NewerFetch'
      <3> SUFFICES ASSUME NEW r \in Requests, fetch'[r] # "nothing", NEW l \in DOMAIN got'[r]
                   PROVE  /\ got'[r][l] <= version'
                          /\ Cached > 0 => entries[Cached].lists[l] <= got'[r][l]
        BY <1>1, <1>3, <1>4 DEF NewerFetch
      <3>1. l \in Lists
        BY NextKeepsInvariant DEF IInv, TypeOK
      <3>2. CASE got'[r][l] = version
        BY <1>1, <3>1, <3>2 DEF OrderInv, PastEntries
      <3>3. CASE fetch[r] # "nothing" /\ l \in DOMAIN got[r] /\ got'[r][l] = got[r][l]
        <4>1. got[r][l] \in Nat
          BY <3>3 DEF IInv, TypeOK
        <4>2. got[r][l] <= version /\ (Cached > 0 => entries[Cached].lists[l] <= got[r][l])
          BY <3>3 DEF OrderInv, NewerFetch
        <4>3. QED
          BY <1>1, <3>3, <4>1, <4>2
      <3>4. QED
        BY <3>2, <3>3, FetchSteps
    <2>3. QED
      BY <2>1, <2>2, NextLater DEF OrderInv
  <1>5. ASSUME NEW r \in Requests, Adds(r) PROVE OrderInv'
    <2>1. /\ Cached' = Cached + 1 /\ entries'[Cached + 1].lists = got[r]
          /\ \A i \in 1 .. Cached' : i \in 1 .. Cached \/ i = Cached + 1
      BY <1>1, <1>5 DEF Adds
    <2>2. \A l \in Lists : /\ got[r][l] \in Nat /\ got[r][l] <= version
                           /\ Cached > 0 => entries[Cached].lists[l] <= got[r][l]
      BY <1>5 DEF Adds, OrderInv, NewerFetch, IInv, TypeOK
    <2>3. \A i \in 1 .. Cached, l \in Lists : entries[i].lists[l] <= got[r][l]
      <3> SUFFICES ASSUME NEW i \in 1 .. Cached, NEW l \in Lists
                   PROVE  entries[i].lists[l] <= got[r][l]
        OBVIOUS
      <3>1. entries[i].lists[l] <= entries[Cached].lists[l]
        BY <1>1 DEF OrderInv, NewerEntries
      <3>2. Cached \in 1 .. Cached /\ Cached > 0
        BY <1>1
      <3>3. QED
        BY <1>2, <2>2, <3>1, <3>2
    <2>4. NewerEntries'
      <3> SUFFICES ASSUME NEW i \in 1 .. Cached', NEW j \in 1 .. Cached', i <= j, NEW l \in Lists
                   PROVE  entries'[i].lists[l] <= entries'[j].lists[l]
        BY DEF NewerEntries
      <3>1. CASE j \in 1 .. Cached
        <4>1. i \in 1 .. Cached
          BY <1>1, <2>1, <3>1
        <4>2. QED
          BY <1>3, <3>1, <4>1 DEF OrderInv, NewerEntries
      <3>2. CASE j = Cached + 1 /\ i \in 1 .. Cached
        BY <1>3, <2>1, <2>3, <3>2
      <3>3. CASE j = Cached + 1 /\ i = Cached + 1
        BY <2>1, <2>2, <3>3
      <3>4. QED
        BY <2>1, <3>1, <3>2, <3>3
    <2>5. PastEntries'
      <3> SUFFICES ASSUME NEW i \in 1 .. Cached', NEW l \in Lists
                   PROVE  entries'[i].lists[l] <= version'
        BY DEF PastEntries
      <3>1. CASE i \in 1 .. Cached
        BY <1>1, <1>2, <1>3, <3>1 DEF OrderInv, PastEntries
      <3>2. CASE i = Cached + 1
        BY <1>1, <2>1, <2>2, <3>2
      <3>3. QED
        BY <2>1, <3>1, <3>2
    <2>6. NewerFetch'
      BY <1>5 DEF Adds, NewerFetch
    <2>7. QED
      BY <2>4, <2>5, <2>6, NextLater DEF OrderInv
  <1>6. QED
    BY <1>4, <1>5, EntriesStay

LEMMA InitialOrder == Init => OrderInv
    BY DEF Init, OrderInv, NewerEntries, PastEntries, NewerFetch, LaterEntry, Cached

\* Who asks after an answer was given gets lists no older than it, whatever
\* fails and whoever fetched them (GetDimensions, fetchDimensions).
THEOREM ReadsAreMonotoneHolds == Spec => []ReadsAreMonotone
  <1>1. IInv /\ OrderInv => ReadsAreMonotone
    BY OrderFollows
  <1> QED BY <1>1, InitialOrder, NextOrder, Invariant, PTL DEF Spec

=============================================================================
