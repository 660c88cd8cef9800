----------------------------- MODULE MCGovernance -----------------------------
(* Three small worlds: the third help of a revision, the third harm of one *)
(* that is governed, and a store of two memories that are revised.         *)
EXTENDS Governance, TLC

CONSTANTS P1, P2, M1, M2, T1, T2, T3, C1, C2, E1, E2, E3, R1, R2

MCPolicy == M1 :> "outcome_attributed" @@ M2 :> "explicit_confirmation"
Ep(t, c, n) == [task |-> t, ctx |-> c, at |-> n]
MCEpisode == E1 :> Ep(T1, C1, 0) @@ E2 :> Ep(T2, C1, 0) @@ E3 :> Ep(T3, C2, 1)

A == <<M1, 1>>
B == <<M2, 1>>
Rev(ref, content, anchor) ==
    [kind |-> "revision", ref |-> ref, content |-> content, anchor |-> anchor, at |-> 0]
Told(e) == [kind |-> "episode", ep |-> e]
Used(e, ret, ref) == [kind |-> "usage", id |-> <<MCEpisode[e].task, ret, ref>>, ref |-> ref,
                      stage |-> "evaluated", ep |-> e, at |-> MCEpisode[e].at]
Result(e, ret, ref, effect) ==
    [kind |-> "outcome", id |-> <<MCEpisode[e].task, ref, MCEpisode[e].ctx>>,
     usage |-> <<MCEpisode[e].task, ret, ref>>, ref |-> ref, effect |-> effect,
     external |-> FALSE, enriched |-> TRUE, stage |-> "evaluated", attribution |-> "confirmed",
     critic |-> IF effect = "harmed" THEN "supported" ELSE "not_required"]
Receipt(e, ret, refs, stage) == [kind |-> "usage", ep |-> e, ret |-> ret, candidates |-> refs,
                                 reached |-> refs \X {stage}]
Cand(e, ret, ref, effect, evidence) ==
    [usage |-> <<MCEpisode[e].task, ret, ref>>, effect |-> effect, attribution |-> "confirmed",
     critic |-> "supported", evidence |-> evidence, within |-> TRUE]
Report(e, cands, ext) == [kind |-> "outcome", ep |-> e, external |-> ext, candidates |-> cands]
Gov(ref, op) == [kind |-> "govern", ref |-> ref, op |-> op]

TwoOf(effect) == {Rev(A, "old", None), Told(E1), Told(E2), Used(E1, R1, A), Used(E2, R1, A),
                  Result(E1, R1, A, effect), Result(E2, R1, A, effect)}

ThirdHelp ==
    [facts |-> TwoOf("helped"),
     jobs |-> {[kind |-> "episode", ep |-> E3],
               Receipt(E3, R1, {A}, "evaluated"), Receipt(E2, R2, {A}, "evaluated"),
               Report(E3, {Cand(E3, R1, A, "helped", TRUE)}, FALSE),
               Report(E3, {Cand(E3, R1, A, "harmed", TRUE)}, FALSE),
               Report(E2, {Cand(E2, R2, A, "helped", TRUE)}, FALSE),
               [kind |-> "override", new |-> "helped"]}]

ThirdHarm ==
    [facts |-> TwoOf("harmed") \cup {Told(E3), Used(E3, R1, A)},
     jobs |-> {Receipt(E3, R2, {A}, "evaluated"),
               Report(E3, {Cand(E3, R1, A, "harmed", TRUE)}, FALSE),
               Report(E3, {Cand(E3, R2, A, "helped", FALSE)}, TRUE),
               [kind |-> "override", new |-> "neutral"],
               Gov(A, "manual_freeze"), Gov(A, "unfreeze"), Gov(A, "archive")}]

TwoMemories ==
    [facts |-> {Rev(A, "old", None), Rev(B, "old", 1), Told(E1),
                [kind |-> "judgment", type |-> "confirmation", ref |-> B, outcome |-> None,
                 new |-> None, status |-> "confirmed", at |-> 1, sup |-> None]},
     jobs |-> {Receipt(E1, R1, {A, B}, "evaluated"),
               Report(E1, {Cand(E1, R1, A, "harmed", TRUE), Cand(E1, R1, B, "helped", TRUE)}, FALSE),
               [kind |-> "judge", type |-> "confirmation", ref |-> B, status |-> "revoked"],
               [kind |-> "judge", type |-> "freshness", ref |-> A, status |-> "aging"],
               [kind |-> "revise", rev |-> Rev(<<M1, 2>>, "new", None)],
               [kind |-> "revise", rev |-> Rev(<<M1, 2>>, "other", None)],
               Gov(A, "manual_freeze"), Gov(A, "unfreeze"), Gov(<<M1, 2>>, "pin")}]

MCScenario == {ThirdHelp, ThirdHarm, TwoMemories}
=================================================================================
