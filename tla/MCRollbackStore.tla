--------------------------- MODULE MCRollbackStore ---------------------------
(* Small instances of RollbackStore for TLC. *)
EXTENDS RollbackStore, TLC

CONSTANTS g1, g2, g3, k1, k2

\* Two rollbacks to the first generation and one that can undo them.
Targets == k1 :> g1 @@ k2 :> g2

OneTarget == k1 :> g1

Symmetry == Permutations(Proc)
=============================================================================
