------------------------------- MODULE Evaluation -------------------------------
(***************************************************************************)
(* What may be concluded, at an instant, about a memory in a fixed world:  *)
(* the pair ctx of generations, of the project and of the global store,    *)
(* that a retrieval pinned. Every answer is computed anew from the facts   *)
(* of the moment; only the world is fixed. So these are operators on the   *)
(* state of Retrieval, and their properties say how answers may change     *)
(* while generations come and go and facts arrive.                         *)
(*                                                                         *)
(* "refused" stands for every error, "unavailable" for the answer that     *)
(* nothing can be said. References carry content hashes: a chain of them   *)
(* has no cycle, and what is found under a name is what was meant.         *)
(***************************************************************************)
EXTENDS Retrieval

CONSTANTS
    FreshnessPolicies,   \* [id, window, aging, types, at]
    MaxTime

Instant == 1..MaxTime
Known == {f.ref : f \in UNION {Kind(facts[s], "revision") : s \in Store}}

\* verifyGenerationRef: a generation that is gone is rebuilt.
WorldOf(s, g, now) ==
    CASE g \notin 1..Len(gens[s]) -> "unavailable"
      [] g \in 1..Len(gens[s]) /\ gens[s][g].created > now -> "refused"
      [] OTHER -> IF InPlace(s, g) THEN "available" ELSE gens[s][g].again

\* verifyExpectedMemoryContext: the first side that cannot be had decides.
World(ctx, now) ==
    LET bad == {i \in 1..2 : ctx[Scopes[i]] # None /\ WorldOf(Scopes[i], ctx[Scopes[i]], now) # "available"}
        first == CHOOSE i \in bad : \A k \in bad : i <= k
    IN  IF bad = {} THEN "available" ELSE WorldOf(Scopes[first], ctx[Scopes[first]], now)

\* Mutant: the world is the one that CURRENT points at by now.
PinnedFactsCurrent(ctx, s) ==
    IF ctx[s] = None \/ current[s] = 0 THEN {} ELSE gens[s][current[s]].inputs

\* fixedMemoryWorld: what the manifest of a pinned generation names.
PinnedFacts(ctx, s) == IF ctx[s] = None THEN {} ELSE gens[s][ctx[s]].inputs
InWorld(ctx, ref) == Stored(PinnedFacts(ctx, ScopeOf[ref[1]]), ref)

\* Mutant: the evidence is what the store holds by now.
PinnedEvidenceLive(ctx, ref) == About(facts[ScopeOf[ref[1]]], "evidence", ref)

PinnedEvidence(ctx, ref) == About(PinnedFacts(ctx, ScopeOf[ref[1]]), "evidence", ref)

EvidenceSet(ctx, ref) == UNION {e.refs : e \in PinnedEvidence(ctx, ref)}
EvidenceInFuture(ctx, ref, now) == \E e \in PinnedEvidence(ctx, ref) : e.at > now

(***************************************************************************)
(* Reviews. A newer review may supersede an older one of the same type,    *)
(* memory and world, and no other: one edge that crosses makes every       *)
(* question of that type refuse. What nothing supersedes is in force.      *)
(***************************************************************************)
Reviews(s, type) == {j \in Kind(facts[s], "judgment") : j.type = type}

EdgesAgree(s, type) ==
    \A j \in Reviews(s, type) : j.sup # None =>
        \E t \in Reviews(s, type) : t.at = j.sup /\ t.ref = j.ref /\ t.ctx = j.ctx

Candidates(type, ctx, ref) == {j \in Reviews(ScopeOf[ref[1]], type) : j.ref = ref /\ j.ctx = ctx}
InForce(J) == {j \in J : \A k \in J : k.sup # j.at}

(***************************************************************************)
(* EvaluateCriticRequirement. Unlike a conflict review, a critic review    *)
(* that is dated after the instant counts.                                 *)
(***************************************************************************)
Critic(ctx, ref, now) ==
    LET cands == Candidates("critic", ctx, ref)
        results == {j.result : j \in InForce(cands)}
        needs == UNION {j.needs : j \in InForce(cands)}
    IN  IF ~ Stored(facts[ScopeOf[ref[1]]], ref) THEN "refused"
        ELSE IF World(ctx, now) # "available" THEN World(ctx, now)
        ELSE IF ~ InWorld(ctx, ref) THEN "unavailable"
        ELSE IF EvidenceInFuture(ctx, ref, now) THEN "refused"
        ELSE IF cands = {} THEN "unavailable"
        ELSE IF ~ EdgesAgree(ScopeOf[ref[1]], "critic") THEN "refused"
        ELSE IF results = {"passed"} /\ needs \subseteq EvidenceSet(ctx, ref) THEN "passed"
        ELSE IF results = {"failed"} THEN "failed"
        ELSE "unavailable"

(***************************************************************************)
(* EvaluateConflictRequirement. What a review in force refers to must be   *)
(* part of the pinned world.                                               *)
(***************************************************************************)
ReviewGrounded(j, ctx, ref, now) ==
    /\ \A other \in j.against :
        /\ other # ref /\ InWorld(ctx, other) /\ ~ EvidenceInFuture(ctx, other, now)
        /\ RevisionFact(facts[ScopeOf[other[1]]], other).at <= now
    /\ j.cites \subseteq EvidenceSet(ctx, ref) \cup UNION {EvidenceSet(ctx, other) : other \in j.against}

\* Mutant: a review counts whatever its date.
DatedAfterNever(J, now) == FALSE

DatedAfter(J, now) == \E j \in J : j.at > now

Conflict(ctx, ref, now) ==
    LET cands == Candidates("conflict", ctx, ref)
        live == InForce(cands)
        clear == {j \in live : j.result = "clear" /\ ~ j.sampled}
    IN  IF ctx[ScopeOf[ref[1]]] = None \/ ~ Stored(facts[ScopeOf[ref[1]]], ref) THEN "refused"
        ELSE IF RevisionFact(facts[ScopeOf[ref[1]]], ref).at > now THEN "refused"
        ELSE IF World(ctx, now) # "available" THEN World(ctx, now)
        ELSE IF ~ InWorld(ctx, ref) THEN "unavailable"
        ELSE IF \/ EvidenceInFuture(ctx, ref, now)
                \/ ~ EdgesAgree(ScopeOf[ref[1]], "conflict")
                \/ DatedAfter(cands, now) THEN "refused"
        ELSE IF cands = {} THEN "unavailable"
        ELSE IF \E j \in live : ~ ReviewGrounded(j, ctx, ref, now) THEN "refused"
        ELSE IF \E j \in live : j.result = "conflict" THEN "unresolved"
        ELSE IF live = clear THEN "clear"
        ELSE "unavailable"

(***************************************************************************)
(* EvaluateEvidenceValidatedGate                                           *)
(***************************************************************************)
EnoughEvidence == 3
EnoughRootTasks == 2

Gate(ctx, ref, now) ==
    LET roots == UNION {e.roots : e \in PinnedEvidence(ctx, ref)}
        answers == {Critic(ctx, ref, now), Conflict(ctx, ref, now)}
    IN  IF "refused" \in answers THEN "refused"
        ELSE IF answers = {"passed", "clear"} /\ Policy[ref[1]] = "evidence_validated"
                /\ Cardinality(EvidenceSet(ctx, ref)) >= EnoughEvidence
                /\ Cardinality(roots) >= EnoughRootTasks THEN "satisfied"
        ELSE "not_satisfied"

(***************************************************************************)
(* EvaluateRevalidation. A freshness judgment counts if it is not dated    *)
(* after the instant, cites the asked policy and is younger than its       *)
(* window; one that does not count supersedes nothing. Whatever one that   *)
(* counts is based on must be in the store, or everything is refused. When *)
(* the judgments in force disagree, and when there is none, the age of the *)
(* newest evidence of an allowed type decides, and evidence of another     *)
(* store's makes it refuse. The answer is a set of memories with their     *)
(* results; an empty one is a refusal.                                     *)
(***************************************************************************)
Younger(now, at, days) == now < at + days

FreshnessChainsAgree(s, ref) ==
    \A j \in Reviews(s, "freshness") : j.ref = ref /\ j.sup # None =>
        \E t \in Reviews(s, "freshness") : t.at = j.sup /\ t.ref = ref

Eligible(s, ref, policy, now) ==
    {j \in Reviews(s, "freshness") :
        /\ j.ref = ref /\ j.at <= now /\ j.evaluated <= now
        /\ j.policy = policy.id /\ Younger(now, j.evaluated, policy.window)}

\* validateFreshnessBasis: evidence counts whatever its date.
BasisStored(s, j) ==
    /\ \A ref \in j.basis.memories : ScopeOf[ref[1]] = s /\ Stored(facts[s], ref)
    /\ \A x \in j.basis.evidence :
        x[3] = s /\ \E e \in Kind(facts[s], "evidence") : x \in e.refs
    /\ \A at \in j.basis.judgments : \E k \in Kind(facts[s], "judgment") : k.at = at
    /\ j.basis.policies \subseteq {p.id : p \in FreshnessPolicies}

EvidenceElsewhere(s, ref) ==
    \E e \in About(facts[s], "evidence", ref) : \E x \in e.refs : x[3] # s

WindowResult(s, ref, policy, now) ==
    LET seen == {e \in About(facts[s], "evidence", ref) :
                    e.at <= now /\ \E x \in e.refs : x[1] \in policy.types}
        last == Newest(seen \cup {RevisionFact(facts[s], ref)}).at
    IN  IF Younger(now, last, policy.window) THEN "fresh"
        ELSE IF Younger(now, last, policy.aging) THEN "aging"
        ELSE "needs_revalidation"

Revalidation(s, ref, policy, now) ==
    LET counted == Eligible(s, ref, policy, now)
        results == {j.status : j \in InForce(counted)}
    IN  IF \/ ~ FreshnessChainsAgree(s, ref)
           \/ \E j \in counted : ~ BasisStored(s, j) THEN "refused"
        ELSE IF Cardinality(results) = 1 THEN CHOOSE x \in results : TRUE
        ELSE IF EvidenceElsewhere(s, ref) THEN "refused"
        ELSE WindowResult(s, ref, policy, now)

Revalidate(s, policy, now) ==
    LET latest == {f.ref : f \in Selected(facts[s], 0)}
    IN  IF \/ policy.at > now
           \/ \E ref \in latest : \/ RevisionFact(facts[s], ref).at > now
                                   \/ Revalidation(s, ref, policy, now) = "refused"
        THEN {} ELSE {<<ref, Revalidation(s, ref, policy, now)>> : ref \in latest}

(***************************************************************************)
(* ValidateRetrievalEvaluation: e binds a judgment about one retrieval to  *)
(* the world that the retrieval pinned.                                    *)
(***************************************************************************)
Sources == {"fixture_oracle", "retrieval_critic", "user_review"}

RetrievalEvaluated(s, e, now) ==
    LET sides == {t \in Store : e.ctx[t] # None}
        worlds == {WorldOf(t, e.ctx[t], now) : t \in sides}
        J == {j \in Kind(facts[s], "relevance") : j.at = e.judgment}
        j == CHOOSE x \in J : TRUE
        Shown(t) == UNION {v.refs : v \in Kind(PinnedFacts(e.ctx, t), "evidence")}
        Away(i) == ScopeOf[j.named[i][1]] \notin sides
        Lost(i) == Away(i) \/ ~ InWorld(e.ctx, j.named[i])
        lost == {i \in 1..Len(j.named) : Lost(i)}
        firstLost == CHOOSE i \in lost : \A k \in lost : i <= k
    IN  IF e.at > now \/ "refused" \in worlds THEN "refused"
        ELSE IF "unavailable" \in worlds THEN "unavailable"
        ELSE IF \/ J = {} \/ j.retrieval # e.retrieval
                \/ j.source \notin Sources \/ j.at > now THEN "refused"
        ELSE IF lost # {} THEN IF Away(firstLost) THEN "unavailable" ELSE "refused"
        ELSE IF j.cites[3] \notin sides THEN "unavailable"
        ELSE IF j.cites \notin Shown(j.cites[3]) THEN "refused"
        ELSE "verified"

(***************************************************************************)
(* Properties.                                                             *)
(***************************************************************************)
ReviewedWorlds ==
    {f.ctx : f \in {g \in UNION {facts[s] : s \in Store} : "ctx" \in DOMAIN g}}

Reviewed(ref) ==
    \E j \in facts'[ScopeOf[ref[1]]] \ facts[ScopeOf[ref[1]]] :
        j.kind = "judgment" /\ j.type \in {"critic", "conflict"}

\* Whether the gate of a memory is satisfied in a fixed world changes only by
\* a review or when a generation is cleaned up: not by evidence, revisions,
\* governance or publications, however many arrive in between
\* (EvaluateEvidenceValidatedGate reads manifests and reviews only). Where
\* nothing was reviewed it is not satisfied.
GateMovesByReview ==
    [][\A ref \in Known, ctx \in ReviewedWorlds, now \in Instant :
          (Gate(ctx, ref, now) = "satisfied") # (Gate(ctx, ref, now)' = "satisfied")
              => Reviewed(ref) \/ cleaned' # cleaned]_vars

\* What was concluded at an instant stays concluded when facts of a later
\* date arrive: the answer is the same, or it is refused (the future checks of
\* EvaluateConflictRequirement, deriveRevalidation and checkNotFuture). What
\* was refused of a conflict stays refused; a refused revalidation need not
\* stay so: evidence of a later date may be the basis that a judgment lacked
\* (validateFreshnessBasis).
PastVerdictKept ==
    [][\A now \in Instant :
          (\E s \in Store : \E f \in facts'[s] \ facts[s] : f.at > now) =>
              /\ \A ref \in Known, ctx \in ReviewedWorlds :
                    Conflict(ctx, ref, now)' \in {Conflict(ctx, ref, now), "refused"}
              /\ \A s \in Store : \A p \in FreshnessPolicies :
                    Revalidate(s, p, now) # {} =>
                        Revalidate(s, p, now)' \in {Revalidate(s, p, now), {}}]_vars

\* An evaluation of a retrieval that was verified stays verified for as long
\* as its generations are on disk, whatever is published or put since
\* (ValidateRetrievalEvaluation reads the pinned manifests, never CURRENT).
VerifiedStays ==
    [][\A s \in Store : \A e \in Kind(facts[s], "evaluation") : \A now \in Instant :
          RetrievalEvaluated(s, e, now) = "verified" =>
              RetrievalEvaluated(s, e, now)' = "verified" \/ cleaned' # cleaned]_vars
=================================================================================
