----------------------------- MODULE MCEvolution -----------------------------
(* Small instances of Evolution for TLC. *)
EXTENDS Evolution, TLC

CONSTANTS ca, cb, qa, qb, std, alt, bad, p1, p2

\* ca's key is before cb's; their patterns' ids make qa and qb.
ByName == [c \in Class |-> IF c = ca THEN 1 ELSE 2]
Hash == [c \in Class |-> IF c = ca THEN qa ELSE qb]

\* A model answers with an id and a text of its own: an id that a later
\* proposal has by default, and one that an earlier proposal has.
Generated ==
    {[id |-> qb, text |-> alt, at |-> 0], [id |-> qa, text |-> bad, at |-> 1]}
NoAnswers == {}

\* Every task fails.
Failing == Class \X {FALSE}

Mixed == Class \X BOOLEAN

\* Processes are interchangeable.
Symmetry == Permutations(Proc)
=============================================================================
