------------------------------ MODULE TaskLock ------------------------------
(***************************************************************************)
(* What withTaskLock (etl_server.go) promises its caller, for one lock     *)
(* key: an instance works on the daily table only while it is the owner,   *)
(* and nobody else can become the owner until it has stopped working.      *)
(* Time, leases and renewals do not appear; EtlLease implements this.      *)
(***************************************************************************)
CONSTANTS Inst,     \* the instances of the program that share the key
          Nobody,   \* the key does not exist
          Orphan    \* the key holds a token no live instance knows

VARIABLES owner,    \* whose token the key holds
          inside    \* the instances that are working under the key

vars == <<owner, inside>>

Init == owner = Nobody /\ inside = {}

Take(i) ==                       \* SETNX succeeds
    /\ owner = Nobody
    /\ owner' = i
    /\ UNCHANGED inside

Enter(i) ==                      \* the task begins with a date
    /\ owner = i
    /\ inside' = inside \cup {i}
    /\ UNCHANGED owner

Leave(i) ==                      \* the task pauses between two dates, or ends
    /\ inside' = inside \ {i}
    /\ UNCHANGED owner

Free ==                          \* a release, or the end of a lease
    /\ owner \notin inside
    /\ owner' = Nobody
    /\ UNCHANGED inside

Die(i) ==                        \* the process, or what it knew of SETNX, is gone
    /\ inside' = inside \ {i}
    /\ owner' = IF owner = i THEN Orphan ELSE owner

Next == Free \/ \E i \in Inst : Take(i) \/ Enter(i) \/ Leave(i) \/ Die(i)

Spec == Init /\ [][Next]_vars

\* Whoever works under the key owns it.
Exclusive == inside \subseteq {owner}
=============================================================================
