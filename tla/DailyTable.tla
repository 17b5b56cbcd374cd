----------------------------- MODULE DailyTable -----------------------------
(***************************************************************************)
(* What the ETL promises the dashboards that read fdi.ads_do_cfdi_daily:   *)
(* a date the job log reports as successful holds exactly one copy of its  *)
(* aggregate, and is not touched before the log says otherwise.            *)
(***************************************************************************)
EXTENDS Naturals

CONSTANT Dates

VARIABLES published,  \* the dates the log reports as successful
          copies      \* how often the aggregate of a date is in the table

vars == <<published, copies>>

Init == published = {} /\ copies = [d \in Dates |-> 0]

\* A run declares the date in progress before it touches it.
Withdraw(d) == published' = published \ {d} /\ UNCHANGED copies

Change(d) ==
    /\ d \notin published
    /\ copies' \in [Dates -> Nat]
    /\ \A e \in Dates \ {d} : copies'[e] = copies[e]
    /\ UNCHANGED published

Publish(d) ==
    /\ copies[d] = 1
    /\ published' = published \cup {d}
    /\ UNCHANGED copies

Next == \E d \in Dates : Withdraw(d) \/ Change(d) \/ Publish(d)

Spec == Init /\ [][Next]_vars
=============================================================================
