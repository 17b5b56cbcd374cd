------------------------------ MODULE DimCache ------------------------------
(***************************************************************************)
(* The cache of the dimension lists that the dashboards' drop-downs and    *)
(* the AI's get_dimensions tool read: GetDimensions and fetchDimensions    *)
(* (internal/data/dashboard_fo.go 25-36, 1810-1850, 1880-1970).            *)
(*                                                                         *)
(* An entry is served even when it has expired; the request that finds it  *)
(* so refreshes it behind the answer, one at a time.  Requests that find   *)
(* no entry share one flight, led by the first of them.  A fetch asks the  *)
(* database for every list at once, and each answer comes when it comes.   *)
(* A query fails because the database does, after its timeout, or, in a    *)
(* flight, because the browser of the leader left: all are a failed query. *)
(***************************************************************************)
EXTENDS Naturals, Sequences, FiniteSets

CONSTANTS
    Requests,   \* each asks once
    Lists,      \* filter, project and event names, car types
    MaxVersion, \* bound: the versions of the tables behind the lists
    NoRequest

ASSUME CacheAssumption == NoRequest \notin Requests /\ MaxVersion \in Nat \ {0}

VARIABLES
    version,  \* of the tables in Doris
    entries,  \* every entry that was stored; the last one is the cached one
    flight,   \* the leader of the singleflight call in progress
    pc,       \* the place of a request in GetDimensions
    held,     \* the entry a request loaded or answers with; 0 is none, an error
    fetch,    \* what a request, or the goroutine it left behind, fetches for
    got,      \* the lists of that fetch that were read, with their version
    failed,   \* one of its queries failed
    before    \* the requests that were answered when this one came

job == <<fetch, got, failed>>
vars == <<version, entries, flight, pc, held, job, before>>

Entry(lists) == [lists |-> lists, expired |-> FALSE, refreshing |-> FALSE]
Cached == Len(entries)
Answered == {r \in Requests : pc[r] = "answered"}

TypeOK ==
    /\ version \in 1 .. MaxVersion
    /\ entries \in Seq([lists : [Lists -> 1 .. MaxVersion],
                        expired : BOOLEAN, refreshing : BOOLEAN])
    /\ flight \in Requests \cup {NoRequest}
    /\ pc \in [Requests -> {"idle", "hit", "miss", "wait", "lead", "stored", "answered"}]
    /\ held \in [Requests -> 0 .. Len(entries)]
    /\ fetch \in [Requests -> {"nothing", "flight", "refresh"}]
    /\ got \in [Requests -> UNION {[some -> 1 .. MaxVersion] : some \in SUBSET Lists}]
    /\ failed \in [Requests -> BOOLEAN]
    /\ before \in [Requests -> SUBSET Requests]

Init ==
    /\ version = 1 /\ entries = <<>> /\ flight = NoRequest
    /\ pc = [r \in Requests |-> "idle"]
    /\ held = [r \in Requests |-> 0]
    /\ fetch = [r \in Requests |-> "nothing"]
    /\ got = [r \in Requests |-> <<>>]
    /\ failed = [r \in Requests |-> FALSE]
    /\ before = [r \in Requests |-> {}]

-----------------------------------------------------------------------------
(* The world                                                               *)

\* New data arrives in the tables.
Change ==
    /\ version < MaxVersion /\ version' = version + 1
    /\ UNCHANGED <<entries, flight, pc, held, job, before>>

\* expiresAt passes.
Expire ==
    /\ Cached > 0 /\ ~entries[Cached].expired
    /\ entries' = [entries EXCEPT ![Cached].expired = TRUE]
    /\ UNCHANGED <<version, flight, pc, held, job, before>>

-----------------------------------------------------------------------------
(* A request                                                               *)

Load(r) ==
    /\ pc[r] = "idle"
    /\ pc' = [pc EXCEPT ![r] = IF Cached > 0 THEN "hit" ELSE "miss"]
    /\ held' = [held EXCEPT ![r] = Cached]
    /\ before' = [before EXCEPT ![r] = Answered]
    /\ UNCHANGED <<version, entries, flight, job>>

Start(r, purpose) ==
    /\ fetch' = [fetch EXCEPT ![r] = purpose]
    /\ got' = [got EXCEPT ![r] = <<>>]
    /\ failed' = [failed EXCEPT ![r] = FALSE]

\* The loaded entry is the answer.  The swap of its flag lets one request
\* start the refresh.
Hit(r) ==
    /\ pc[r] = "hit" /\ pc' = [pc EXCEPT ![r] = "answered"]
    /\ IF entries[held[r]].expired /\ ~entries[held[r]].refreshing
       THEN entries' = [entries EXCEPT ![held[r]].refreshing = TRUE] /\ Start(r, "refresh")
       ELSE UNCHANGED <<entries, job>>
    /\ UNCHANGED <<version, flight, held, before>>

\* Mutant of Miss: every request that misses fetches for itself.
MissAlone(r) ==
    /\ pc[r] = "miss" /\ flight' = r /\ pc' = [pc EXCEPT ![r] = "lead"]
    /\ UNCHANGED <<version, entries, held, job, before>>

\* singleflight.Do
Miss(r) ==
    /\ pc[r] = "miss"
    /\ IF flight = NoRequest
       THEN flight' = r /\ pc' = [pc EXCEPT ![r] = "lead"]
       ELSE pc' = [pc EXCEPT ![r] = "wait"] /\ UNCHANGED flight
    /\ UNCHANGED <<version, entries, held, job, before>>

\* Mutant of Land: a flight that failed ends for its leader alone.
LandAlone(r, entry) ==
    LET all == {r} \cup {q \in Requests : pc[q] = "wait" /\ entry > 0}
    IN  /\ flight' = NoRequest
        /\ pc' = [q \in Requests |-> IF q \in all THEN "answered" ELSE pc[q]]
        /\ held' = [q \in Requests |-> IF q \in all THEN entry ELSE held[q]]

\* The flight ends: its leader and all who wait for it get what it got.
Land(r, entry) ==
    LET all == {r} \cup {q \in Requests : pc[q] = "wait"}
    IN  /\ flight' = NoRequest
        /\ pc' = [q \in Requests |-> IF q \in all THEN "answered" ELSE pc[q]]
        /\ held' = [q \in Requests |-> IF q \in all THEN entry ELSE held[q]]

\* Mutant of Lead: the leader does not look again.
LeadAtOnce(r) ==
    /\ pc[r] = "lead" /\ fetch[r] = "nothing"
    /\ Start(r, "flight")
    /\ UNCHANGED <<version, entries, flight, pc, held, before>>

\* The leader looks again before it fetches.
Lead(r) ==
    /\ pc[r] = "lead" /\ fetch[r] = "nothing"
    /\ IF Cached > 0 THEN Land(r, Cached) /\ UNCHANGED job
       ELSE Start(r, "flight") /\ UNCHANGED <<flight, pc, held>>
    /\ UNCHANGED <<version, entries, before>>

Return(r) ==
    /\ pc[r] = "stored"
    /\ Land(r, held[r])
    /\ UNCHANGED <<version, entries, job, before>>

-----------------------------------------------------------------------------
(* A fetch                                                                 *)

Query(r, list, ok) ==
    /\ fetch[r] # "nothing" /\ list \in Lists \ DOMAIN got[r]
    /\ got' = [got EXCEPT ![r] = [l \in DOMAIN @ \cup {list} |->
                                    IF l = list THEN version ELSE @[l]]]
    /\ failed' = [failed EXCEPT ![r] = @ \/ ~ok]
    /\ UNCHANGED <<version, entries, flight, pc, held, fetch, before>>

\* Mutant of Complete: it does not wait for every query.
CompleteEarly(r, purpose) ==
    /\ fetch[r] = purpose /\ DOMAIN got[r] # {}
    /\ fetch' = [fetch EXCEPT ![r] = "nothing"]
    /\ UNCHANGED <<version, got, failed, before>>

\* The four queries were answered.
Complete(r, purpose) ==
    /\ fetch[r] = purpose /\ DOMAIN got[r] = Lists
    /\ fetch' = [fetch EXCEPT ![r] = "nothing"]
    /\ UNCHANGED <<version, got, failed, before>>

\* Mutant of RefreshFailed: the flag stays set.
RefreshGivenUp(r) ==
    /\ Complete(r, "refresh") /\ failed[r]
    /\ UNCHANGED <<entries, flight, pc, held>>

\* Any failed query fails the fetch, and another request may try.
RefreshFailed(r) ==
    /\ Complete(r, "refresh") /\ failed[r]
    /\ entries' = [entries EXCEPT ![held[r]].refreshing = FALSE]
    /\ UNCHANGED <<flight, pc, held>>

Refreshed(r) ==
    /\ Complete(r, "refresh") /\ ~failed[r]
    /\ entries' = Append(entries, Entry(got[r]))
    /\ UNCHANGED <<flight, pc, held>>

FlightFailed(r) ==
    /\ Complete(r, "flight") /\ failed[r]
    /\ Land(r, 0)
    /\ UNCHANGED entries

Stored(r) ==
    /\ Complete(r, "flight") /\ ~failed[r]
    /\ entries' = Append(entries, Entry(got[r]))
    /\ pc' = [pc EXCEPT ![r] = "stored"]
    /\ held' = [held EXCEPT ![r] = Cached + 1]
    /\ UNCHANGED flight

-----------------------------------------------------------------------------
Fetching(r) ==
    \/ \E list \in Lists, ok \in BOOLEAN : Query(r, list, ok)
    \/ RefreshFailed(r) \/ Refreshed(r) \/ FlightFailed(r) \/ Stored(r)

Asking(r) == Hit(r) \/ Miss(r) \/ Lead(r) \/ Return(r)

Next == Change \/ Expire \/ \E r \in Requests : Load(r) \/ Asking(r) \/ Fetching(r)

Spec == Init /\ [][Next]_vars

\* A request goes on once it came, and every query ends, by its timeout.
FairSpec == Spec /\ \A r \in Requests : WF_vars(Asking(r)) /\ WF_vars(Fetching(r))

-----------------------------------------------------------------------------
(* Properties                                                              *)

\* However requests, expiry and failures interleave, one fetch at most is at
\* the database: the flight of a cold start and a refresh never meet either.
OneFetch == \A r, q \in Requests : fetch[r] # "nothing" /\ fetch[q] # "nothing" => r = q

\* The flag of the cached entry is set only while its refresh runs: a refresh
\* that fails never leaves the lists frozen for good.
NoLostRefresh ==
    Cached > 0 /\ entries[Cached].refreshing =>
        \E r \in Requests : fetch[r] = "refresh" /\ held[r] = Cached

\* Who asks after an answer was given gets lists that are no older, list by
\* list; an answer that is an error says nothing.
ReadsAreMonotone ==
    \A r \in Answered : \A q \in before[r] : held[r] # 0 /\ held[q] # 0 =>
        \A l \in Lists : entries[held[q]].lists[l] <= entries[held[r]].lists[l]

\* Once the lists were fetched no request fails: the cached ones are served.
ServedOnceCached ==
    [][\A r \in Requests : Cached > 0 /\ r \in Answered' \ Answered => held'[r] # 0]_vars

\* A request that came is answered, also when it waits for a leader whose
\* queries fail.
EveryRequestIsAnswered ==
    \A r \in Requests : pc[r] # "idle" ~> pc[r] = "answered"
=============================================================================
