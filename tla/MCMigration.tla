----------------------------- MODULE MCMigration -----------------------------
(* A small instance of Migration for TLC. *)
EXTENDS Migration, TLC

CONSTANTS m1, m2, fa, fb, s1, s2

\* Two source generations share the input fa; fb is fa's identity with another
\* content.
SharedInput == [m \in Mig |-> {fa}]

OwnManifests == m1 :> s1 @@ m2 :> s2

TwoContents == fa :> "fa" @@ fb :> "fa" @@ s1 :> "s1" @@ s2 :> "s2"

Symmetry == Permutations(Proc)
=============================================================================
