------------------------- MODULE MCGenerationStore -------------------------
(* Small instances of GenerationStore for TLC. *)
EXTENDS GenerationStore, TLC

CONSTANTS t1, t2, p1, p2, m1, m2, m3

\* t1 starts the store, t2 is built on t1; a second caller reuses t2's key for
\* another request.
ChainRequests == {<<t1, None>>, <<t2, t1>>, <<t2, None>>}

\* Processes are interchangeable, and so are the manifests that verify.
Symmetry == Permutations(Proc) \cup Permutations(Verified)
=============================================================================
