----------------------------- MODULE CommitPoint -----------------------------
(***************************************************************************)
(* What the generation store promises a client, without locks, staging,    *)
(* audit records or crashes: an idempotency key is bound once to one       *)
(* request, that is to the CURRENT it was computed from, and a key takes   *)
(* effect at most once, as one atomic step, on exactly that base. The      *)
(* effective generations therefore form a single chain.                    *)
(***************************************************************************)
CONSTANTS
    Key,      \* idempotency keys; a key also names the generation it makes
    None      \* no CURRENT: an empty store

VARIABLES
    bound,      \* the keys a request is bound to
    base,       \* the CURRENT that request was computed from
    current,    \* CURRENT
    effective   \* the keys that have taken effect

cpVars == <<bound, base, current, effective>>

Init ==
    /\ bound = {}
    /\ base = [k \in Key |-> None]
    /\ current = None
    /\ effective = {}

\* The first request on a key wins it.
Bind(k, b) ==
    /\ k \notin bound
    /\ b \in bound \cup {None}
    /\ bound' = bound \cup {k}
    /\ base' = [base EXCEPT ![k] = b]
    /\ UNCHANGED <<current, effective>>

\* The key takes effect on the base it is bound to.
Switch(k) ==
    /\ k \in bound \ effective
    /\ current = base[k]
    /\ current' = k
    /\ effective' = effective \cup {k}
    /\ UNCHANGED <<bound, base>>

Next ==
    \/ \E k \in Key, b \in Key \cup {None} : Bind(k, b)
    \/ \E k \in Key : Switch(k)

Spec == Init /\ [][Next]_cpVars

=============================================================================
