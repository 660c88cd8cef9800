------------------------------ MODULE MCRetrieval ------------------------------
EXTENDS Evaluation

MCPolicy == [m \in {"p1", "p2", "p3", "p4", "g1"} |->
                IF m = "p1" THEN "evidence_validated"
                ELSE IF m = "p2" THEN "explicit_confirmation" ELSE "reference_only"]
MCScopeOf == [m \in DOMAIN MCPolicy |-> IF m = "g1" THEN "global" ELSE "project"]
MCTypeOf == [m \in DOMAIN MCPolicy |-> IF m = "p4" THEN "decision" ELSE "lesson"]
MCIdOf == [m \in DOMAIN MCPolicy |->
              CASE m = "p1" -> <<"a">> [] m = "p2" -> <<"a", "b">>
                [] m = "p3" -> <<"a", "b", "c">>
                [] m = "p4" -> <<"c">> [] m = "g1" -> <<"a">>]
MCTie == [m \in DOMAIN MCPolicy |->
             CASE m = "p1" -> 1 [] m = "p2" -> 2 [] m = "p3" -> 3 [] m = "p4" -> 4 [] m = "g1" -> 5]
MCSplitOrder == <<"component", "memory_type", "stable_id_prefix">>
MCPolicies == {[id |-> "short", window |-> 2, aging |-> 4, types |-> {"review"}, at |-> 1]}

Rev(m, n, at, relates) ==
    [kind |-> "revision", ref |-> <<m, n>>, at |-> at, anchor |-> None, relates |-> relates]
Evid(m, n, k, at, refs, roots) ==
    [kind |-> "evidence", ref |-> <<m, n>>, n |-> k, at |-> at, refs |-> refs, roots |-> roots]
Event(m, n, op, at) == [kind |-> "event", ref |-> <<m, n>>, op |-> op, at |-> at]

Ref(id, s) == <<"review", id, s>>
First(m) == Evid(m, 1, 1, 1, {Ref(m, MCScopeOf[m])}, {"task1"})
All == {First(m) : m \in {"p1", "p2", "p3", "p4"}}
Three == Evid("p1", 1, 1, 1, {Ref("e1", "project"), Ref("e2", "project"), Ref("e3", "project")}, {"task1", "task2"})

Request(id, s, evidence, from, time) ==
    [id |-> id, store |-> s, revs |-> {e.ref : e \in evidence}, evidence |-> evidence,
     from |-> from, time |-> time, created |-> time]

Cand(m, n, rank) == [ref |-> <<m, n>>, rank |-> rank]
Receipt(status, rec, opt, explicit, excluded, conflicts) ==
    [status |-> status, recommended |-> rec, optional |-> opt, explicit |-> explicit,
     excluded |-> excluded, conflicts |-> conflicts]

\* Memories of three kinds in two stores; one is frozen, one superseded while
\* a publication is under way, and a receipt may still name either.
Retrieving ==
    [facts |-> [s \in Store |->
        IF s = "project" THEN {Rev("p1", 1, 1, {}), Rev("p2", 1, 1, {}), Rev("p3", 1, 1, {<<"p2", 1>>}),
                               Rev("p4", 1, 1, {})} \cup All
        ELSE {Rev("g1", 1, 1, {}), First("g1")}],
     later |-> [s \in Store |->
        IF s = "project" THEN {Event("p1", 1, "manual_freeze", 2), Rev("p2", 2, 2, {})} ELSE {}],
     requests |-> {Request("all", "project", All, None, 2),
                   Request("again", "project", All, None, 3),
                   Request("global", "global", {First("g1")}, None, 2)},
     receipts |-> {Receipt("found", <<Cand("p1", 1, 1), Cand("p2", 1, 1)>>, <<Cand("p3", 1, 1)>>,
                           {<<"p1", 1>>}, {}, {}),
                   Receipt("found", <<Cand("p2", 1, 1)>>, <<Cand("g1", 1, 1)>>, {}, {<<"p1", 1>>}, {}),
                   Receipt("no_candidate", <<>>, <<>>, {}, {},
                           {[project |-> <<"p2", 1>>, global |-> <<"g1", 1>>]})}]

World1 == [s \in Store |-> IF s = "project" THEN 1 ELSE None]
Review(type, at, result, sup, cites, against) ==
    [kind |-> "judgment", type |-> type, ref |-> <<"p1", 1>>, ctx |-> World1, at |-> at,
     result |-> result, sup |-> sup, sampled |-> FALSE, needs |-> cites, cites |-> cites,
     against |-> against]

\* A memory of the evidence_validated policy, with reviews that arrive out of
\* the order of their dates and newer evidence.
Reviewing ==
    [facts |-> [s \in Store |->
        IF s = "project" THEN {Rev("p1", 1, 1, {}), Rev("p2", 1, 1, {}), Three, First("p2")} ELSE {}],
     later |-> [s \in Store |->
        IF s = "project"
        THEN {Review("critic", 2, "passed", None, {Ref("e1", "project")}, {}),
              Review("conflict", 3, "clear", None, {Ref("p2", "project")}, {<<"p2", 1>>}),
              Review("conflict", 4, "conflict", 3, {}, {}),
              Evid("p1", 1, 2, 5, {Ref("e4", "project")}, {"task1"})}
        ELSE {}],
     requests |-> {Request("first", "project", {Three, First("p2")},
                           {Rev("p1", 1, 1, {}), Rev("p2", 1, 1, {}), Three, First("p2")}, 2),
                   Request("second", "project", {First("p2")}, None, 3)},
     receipts |-> {}]

On(evidence, judgments) == [memories |-> {<<"p2", 1>>}, evidence |-> evidence, judgments |-> judgments, policies |-> {"short"}]
Fresh3(at, evaluated, sup, policy, status, basis) ==
    [kind |-> "judgment", type |-> "freshness", ref |-> <<"p2", 1>>, at |-> at, evaluated |-> evaluated,
     sup |-> sup, policy |-> policy, status |-> status, basis |-> basis]

\* A memory that is evaluated again and again, once on evidence that comes
\* later and with a later date, and a retrieval that is judged.
Evaluating ==
    [facts |-> [s \in Store |->
        IF s = "project" THEN {Rev("p2", 1, 1, {}), First("p2")} ELSE {}],
     later |-> [s \in Store |->
        IF s = "project"
        THEN {Fresh3(2, 2, None, "short", "needs_revalidation", On({Ref("p2", "project")}, {})),
              Fresh3(3, 2, 2, "short", "fresh", On({Ref("e5", "project")}, {2})),
              Fresh3(4, 3, None, "long", "aging", On({}, {})),
              Evid("p2", 1, 2, 5, {Ref("e5", "project")}, {"task1"}),
              [kind |-> "relevance", at |-> 2, retrieval |-> "r1", source |-> "user_review",
               named |-> <<<<"p2", 1>>>>, cites |-> Ref("p2", "project")],
              [kind |-> "evaluation", at |-> 3, ctx |-> World1, judgment |-> 2, retrieval |-> "r1"]}
        ELSE {}],
     requests |-> {Request("first", "project", {First("p2")}, {Rev("p2", 1, 1, {}), First("p2")}, 2),
                   Request("empty", "project", {}, {}, 3)},
     receipts |-> {}]

MCScenario == {Retrieving, Reviewing, Evaluating}
=================================================================================
