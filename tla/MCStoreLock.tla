----------------------------- MODULE MCStoreLock -----------------------------
(* A small instance of StoreLock for TLC. *)
EXTENDS StoreLock, TLC

CONSTANTS t1, t2, t3, s1, s2

\* Two threads share a store, a third has opened its own.
Sharing == t1 :> s1 @@ t2 :> s1 @@ t3 :> s2
=============================================================================
