------------------------------ MODULE MCBoard ------------------------------
(* A small fleet: four uuids on two days, of two events that share nothing *)
(* but a car type and a filter, and a log that is never counted.           *)
EXTENDS Board

MCUuids == {"u1", "u2", "u3", "u4"}
MCIdent ==
    LET id(d, e, f, p, v, c) == [day |-> d, event |-> e, filter |-> f, project |-> p,
                                 vehicle |-> v, car |-> c, version |-> "sw1"]
    IN  [u1 |-> id(5, "e1", "f1", "p1", "v1", "c1"), u2 |-> id(4, "e2", "f1", "p1", "v1", "c1"),
         u3 |-> id(4, "e1", "f2", "p2", "v2", "c1"), u4 |-> id(5, Forever, "f2", "p2", "v2", "c1")]

Out(fff, fdr, fcl, why) == [fff |-> fff, fdr |-> fdr, fcl |-> fcl, why |-> why]
Done == Out("success", "success", "success", "odd")
MCOutcomes ==
    {Done, Out("discard", "null", "null", "cooldown"), Out("discard", "null", "null", ""),
     Out("success", "discard", "null", "files"), Out("success", "discard", "null", "gc"),
     Out("success", "success", "discard", "quota"), Out("success", "dumping", "uploading", "odd"),
     Out("null", "success", "null", "odd"), Out("success", "discard", "success", "files")}
Some == {Done, Out("discard", "null", "null", "odd"), Out("success", "discard", "null", "files"),
         Out("success", "success", "discard", "quota")}
MCStarts ==
    {[u1 |-> a, u2 |-> b, u3 |-> Done, u4 |-> Done] : a \in MCOutcomes,
        b \in {Out("discard", "null", "null", "odd"), Out("success", "discard", "null", "")}}
    \cup {[u1 |-> a, u4 |-> Done] : a \in Some}

Beat(n, d, f, v, on) == [id |-> n, day |-> d, filter |-> f, project |-> "p1", car |-> "c1",
                         vehicle |-> v, on |-> on, ok |-> on]
MCBeats == {Beat(1, 5, "f1", "v1", TRUE), Beat(2, 5, "f1", "v2", FALSE), Beat(3, 4, "hot", "v1", TRUE)}
MCCloses == {[id |-> n, day |-> 5, filter |-> "f1", project |-> "p1", car |-> "c1", vehicle |-> "v1",
              why |-> "out of memory"] : n \in 1 .. 2}

Cond(s, e, f, evs, p, cs) == [start |-> s, end |-> e, filter |-> f, events |-> evs, project |-> p, cars |-> cs]
MCAsked ==
    {Cond(NoDay, NoDay, None, {}, None, {}), Cond(5, 4, None, {}, None, {}), Cond(4, 9, "f1", {}, None, {}),
     Cond(NoDay, NoDay, None, {"e1"}, None, {}), Cond(NoDay, 5, None, {}, None, {}),
     Cond(4, BadDay, None, {}, None, {}), Cond(4, 5, "f1", {"e1", "e2"}, "p1", {"c1"})}

ListOf(l, f, st, p, s) ==
    [list |-> l, f |-> f, event |-> {"e1"}, car |-> {}, vehicles |-> {}, vehicle |-> {}, also |-> {},
     stage |-> st, onlyFail |-> FALSE, page |-> p, size |-> s]
Plain == Cond(5, 4, None, {}, None, {})
MCAskedLists ==
    {ListOf("uuid", [Plain EXCEPT !.events = {"e1", "e2"}], <<"fff", "discard">>, 0, 0),
     ListOf("uuid", [Plain EXCEPT !.events = {"e1", "e2"}], <<"fcl", "discard">>, 1, 5),
     [ListOf("uuid", Plain, <<>>, 2, 1) EXCEPT !.onlyFail = TRUE, !.vehicle = {"v1"}],
     ListOf("fff", Plain, <<>>, 2, 1), ListOf("close", Plain, <<>>, 1, 1),
     [ListOf("fdr", Plain, <<>>, 1, 1) EXCEPT !.also = {<<"status", "discard">>}],
     ListOf("running", Plain, <<>>, 1, 1), ListOf("fcl", Cond(1, 5, None, {}, None, {}), <<>>, 1, 1),
     ListOf("fcl", Cond(NoDay, NoDay, None, {"e1"}, None, {}), <<>>, 1, 2)}

MCHotName == [o1 |-> "hot"]
Service(s, n) == [state |-> s, names |-> n]
Silent == {Service("off", {}), Service("down", {}), Service("up", {})}
MCFom == Silent \cup {Service("up", {"o1"})}
MCFfm == Silent \cup {Service("up", {"f1"})}
=============================================================================
