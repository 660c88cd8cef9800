------------------------------ MODULE MCCuration ------------------------------
(* Two worlds: one project whose callers revise, merge and split at once,  *)
(* and three projects whose memories are generalized and promoted.         *)
EXTENDS Curation, TLC

CONSTANTS P1, P2, F1, F2, F3, G, M1, M2, M3, E1, E2, E3, K1, K2

Rev(mem, n, content, from) ==
    [kind |-> "revision", mem |-> mem, n |-> n, content |-> content, from |-> from]
Evidence(e) == [kind |-> "evidence", refs |-> {e}]
A == <<M1, 1, "a">>
B == <<M2, 1, "a">>
C == <<M3, 1, "a">>

Revise(source, target, E) ==
    [op |-> "revise", store |-> F1, source |-> source, target |-> target, evidence |-> E]
Merge(E) == [op |-> "merge", store |-> F1, inputs |-> {A, B}, evidence |-> E,
             target |-> Rev(MergeID({A, B}), 1, "m", {})]
Branch(key, content) == Rev(SplitID(A, key), 1, content, {})
Split(content) == [op |-> "split", store |-> F1, source |-> A,
                   branches |-> [k \in {K1, K2} |-> {E1}],
                   targets |-> {Branch(K1, content), Branch(K2, content)}]

Curating ==
    [facts |-> [s \in Store |-> IF s = F1 THEN {Rev(M1, 1, "a", {}), Rev(M2, 1, "a", {}), Evidence(E1)}
                                ELSE {}],
     requests |-> {Revise(A, Rev(M1, 2, "x", {}), {E1}), Revise(A, Rev(M1, 2, "y", {}), {E1}),
                   Revise(<<M1, 2, "x">>, Rev(M1, 3, "z", {}), {E1}),
                   Revise(A, Rev(M1, 2, "w", {}), {E2}),
                   Merge({E1}), Split("b"), Split("c"),
                   Revise(Ref(Branch(K1, "b")), Rev(SplitID(A, K1), 2, "v", {}), {E1})}]

Source(ref, store, family, e) ==
    [ref |-> ref, store |-> store, family |-> family, roots |-> {family}, evidence |-> {e},
     trusted |-> TRUE, frozen |-> FALSE, archived |-> FALSE]
Sources == {Source(A, F1, "f1", E1), Source(B, F2, "f2", E2), Source(C, F3, "f3", E3)}
Pair == {Source(A, F1, "f1", E1), Source(B, F1, "f2", E1)}
Wide(sources, policy, content, from) ==
    Rev(<<"global", {s.ref : s \in sources}, policy>>, 1, content, from)

Candidate(families) ==
    [kind |-> "candidate", id |-> "cand", status |-> "eligible", sources |-> {A, B, C},
     families |-> families, evidence |-> {E1, E3}]
Eligible == Candidate({"f1", "f2", "f3"})
FromCandidate(content) == Rev(<<"promoted">>, 1, content, {A, B, C})

Promoting ==
    [facts |-> F1 :> {Rev(M1, 1, "a", {}), Rev(M2, 1, "a", {}), Evidence(E1)}
            @@ F2 :> {Rev(M2, 1, "a", {}), Evidence(E2)}
            @@ F3 :> {Rev(M3, 1, "a", {}), Evidence(E3)}
            @@ G :> {},
     requests |->
        {[op |-> "generalize", store |-> F1, sources |-> Pair, policy |-> None,
          target |-> Wide(Pair, None, "g", {A, B})],
         [op |-> "generalize", store |-> F1, sources |-> Pair, policy |-> None,
          target |-> Wide(Pair, None, "g", {A})],
         [op |-> "promote", store |-> F1, sources |-> Pair, policy |-> "trust",
          target |-> Wide(Pair, "trust", "p", {A, B})],
         [op |-> "promote", store |-> F1, sources |-> Pair, policy |-> "trust",
          target |-> Wide(Pair, "trust", "p", {})],
         [op |-> "put_candidate", target |-> Eligible],
         [op |-> "candidate", candidate |-> Eligible, sources |-> Sources,
          target |-> FromCandidate("c")],
         [op |-> "candidate", candidate |-> Candidate({"f1", "f2"}),
          sources |-> {Source(A, F1, "f1", E1), Source(B, F2, "f2", E2), Source(C, F3, "f2", E3)},
          target |-> FromCandidate("c")],
         [op |-> "publish", candidate |-> Eligible, sources |-> Sources,
          target |-> FromCandidate("c"), compile |-> {Ref(FromCandidate("c"))}],
         [op |-> "publish", candidate |-> Eligible, sources |-> Sources,
          target |-> FromCandidate("d"), compile |-> {Ref(FromCandidate("c"))}]}]

MCWorld == {Curating, Promoting}
=================================================================================
