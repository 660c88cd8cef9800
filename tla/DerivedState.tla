------------------------------ MODULE DerivedState ------------------------------
(***************************************************************************)
(* What the facts of one store say about a memory revision: its lifecycle, *)
(* health and freshness, and what is counted for and against it. Nothing   *)
(* here is state: every operator is a function of a set F of facts, as     *)
(* DeriveState is of the files it reads.                                   *)
(*                                                                         *)
(* A fact is a record; its field "kind" says which. A revision, and what a *)
(* fact is about, is a pair ref = <<memory, number>>. Judgments and        *)
(* governance events carry distinct instants, which order them and stand   *)
(* for their ids.                                                          *)
(***************************************************************************)
EXTENDS Naturals, Sequences, FiniteSets

CONSTANTS
    Policy,        \* usage policy of each memory
    FreshFor,      \* evaluation window: younger than this is fresh (90 days)
    AgingFor,      \* younger than this is aging (180 days)
    None

Memory == DOMAIN Policy

HarmsToFreeze == 3     \* counted harms that may freeze,
HarmPercent == 60      \* when they are that share of what is counted
HelpsToActivate == 3
EpisodesToActivate == 2

Stages == <<"retrieved", "read", "adopted", "affected", "evaluated">>
AttributedStage == {"affected", "evaluated"}
Effect == {"helped", "neutral", "harmed", "unknown"}

Kind(F, k) == {f \in F : f.kind = k}
About(F, k, ref) == {f \in Kind(F, k) : f.ref = ref}
Newest(S) == CHOOSE x \in S : \A y \in S : y.at <= x.at
Revisions(F, m) == {f.ref[2] : f \in {g \in Kind(F, "revision") : g.ref[1] = m}}
Stored(F, ref) == About(F, "revision", ref) # {}
LatestOf(F, m) == CHOOSE n \in Revisions(F, m) : \A k \in Revisions(F, m) : k <= n

\* An orphan makes every derivation of the store fail.
ReferencesResolve(F) ==
    /\ \A f \in UNION {Kind(F, k) : k \in {"usage", "outcome", "event", "judgment"}} :
           Stored(F, f.ref)
    /\ \A o \in Kind(F, "outcome") :
           \E u \in Kind(F, "usage") : u.id = o.usage /\ u.ref = o.ref
    /\ \A j \in Kind(F, "judgment") :
           j.type = "override" => \E o \in Kind(F, "outcome") : o.id = j.outcome

(***************************************************************************)
(* Governance: the events of exactly this revision, in the order of their  *)
(* instants. What is dated after an archive is ignored.                    *)
(***************************************************************************)
GovernanceState(F, ref) ==
    LET mine == About(F, "event", ref)
        archives == {e \in mine : e.op = "archive"}
        live == {e \in mine : \A a \in archives : e.at < a.at}
        Flag(on, off) == LET S == {e \in live : e.op \in {on, off}}
                         IN  S # {} /\ Newest(S).op = on
    IN  [archived |-> archives # {},
         frozen |-> Flag("manual_freeze", "unfreeze"),
         pinned |-> Flag("pin", "unpin")]

(***************************************************************************)
(* Usage: the newest override that nothing supersedes replaces the effect  *)
(* of its outcome; outcomes of early stages and external failures are not  *)
(* counted, and an enriched one only if it was evaluated and confirmed,    *)
(* and a harm only with a supporting critic.                               *)
(***************************************************************************)
Superseded(F) == {j.sup : j \in Kind(F, "judgment")}

EffectiveEffect(F, o) ==
    LET live == {j \in Kind(F, "judgment") : /\ j.type = "override" /\ j.outcome = o.id
                                             /\ j.at \notin Superseded(F)}
    IN  IF live = {} THEN o.effect ELSE Newest(live).new

UsageOf(F, o) == {u \in About(F, "usage", o.ref) : u.id = o.usage}

Attributed(F, ref) ==
    {o \in About(F, "outcome", ref) :
        /\ \E u \in UsageOf(F, o) : u.stage \in AttributedStage
        /\ ~ o.external
        /\ o.enriched =>
             /\ o.stage = "evaluated" /\ o.attribution = "confirmed"
             /\ EffectiveEffect(F, o) = "harmed" => o.critic = "supported"}
Helps(F, ref) == {o \in Attributed(F, ref) : EffectiveEffect(F, o) = "helped"}
Harms(F, ref) == {o \in Attributed(F, ref) : EffectiveEffect(F, o) = "harmed"}
HelpEpisodes(F, ref) == {u.ep : u \in UNION {UsageOf(F, o) : o \in Helps(F, ref)}}

UsageStats(F, ref) ==
    LET used == About(F, "usage", ref)
    IN  [count |-> Cardinality(used),
         helps |-> Cardinality(Helps(F, ref)), harms |-> Cardinality(Harms(F, ref)),
         insufficient |-> used # {} /\ Attributed(F, ref) = {}]

(***************************************************************************)
(* Confirmation: from the judgment the revision names, follow the newest   *)
(* superseding judgment to the end. Any superseding judgment that is not a *)
(* confirmation of this revision, and a cycle, make the chain              *)
(* unverifiable. A cycle can only close at the anchor.                     *)
(***************************************************************************)
ChainStatus(J, rev) ==
    LET anchor == {j \in J : j.at = rev.anchor}
        Matches(j) == j.type = "confirmation" /\ j.ref = rev.ref
        broken == [at |-> 0, status |-> "unverifiable"]
        walk[n \in Nat] ==
            IF n = 0 THEN Newest(anchor)
            ELSE LET cur == walk[n - 1]
                     over == {j \in J : j.sup = cur.at}
                 IN  IF cur = broken \/ over = {} THEN cur
                     ELSE IF \E j \in over : ~ Matches(j) \/ j \in anchor THEN broken
                     ELSE Newest(over)
    IN  IF rev.anchor = None THEN "none"
        ELSE IF \A j \in anchor : ~ Matches(j) THEN "unverifiable"
        ELSE walk[Cardinality(J)].status
ConfirmationStatus(F, rev) == ChainStatus(Kind(F, "judgment"), rev)

(***************************************************************************)
(* Lifecycle: governance before evidence, and evidence by usage policy.    *)
(***************************************************************************)
ByOutcomes(F, ref) ==
    LET pos == Cardinality(Helps(F, ref))
        neg == Cardinality(Harms(F, ref))
    IN  IF neg >= HarmsToFreeze /\ 100 * neg >= HarmPercent * (pos + neg) THEN "frozen"
        ELSE IF neg >= 1 THEN "degraded"
        ELSE IF /\ pos >= HelpsToActivate
                /\ Cardinality(HelpEpisodes(F, ref)) >= EpisodesToActivate THEN "active"
        ELSE "probation"

ByConfirmation(F, rev) ==
    LET status == ConfirmationStatus(F, rev)
    IN  CASE status = "confirmed" -> "active"
          [] status = "revoked" -> "frozen"
          [] status = "unverifiable" -> "degraded"
          [] OTHER -> "probation"

EvidenceLifecycle(F, rev) ==
    CASE Policy[rev.ref[1]] = "outcome_attributed" -> ByOutcomes(F, rev.ref)
      [] Policy[rev.ref[1]] = "explicit_confirmation" -> ByConfirmation(F, rev)
      [] OTHER -> "probation"

\* Mutant: an unfreeze that is accepted also lifts the freeze by evidence.
LifecycleUnfrozen(F, rev) ==
    LET gov == GovernanceState(F, rev.ref)
        events == About(F, "event", rev.ref)
    IN  IF gov.archived THEN "archived"
        ELSE IF rev.ref[2] # LatestOf(F, rev.ref[1]) THEN "superseded"
        ELSE IF gov.frozen THEN "frozen"
        ELSE IF events # {} /\ Newest(events).op = "unfreeze" THEN "probation"
        ELSE EvidenceLifecycle(F, rev)

Lifecycle(F, rev) ==
    LET gov == GovernanceState(F, rev.ref)
    IN  IF gov.archived THEN "archived"
        ELSE IF rev.ref[2] # LatestOf(F, rev.ref[1]) THEN "superseded"
        ELSE IF gov.frozen THEN "frozen"
        ELSE EvidenceLifecycle(F, rev)

\* Mutant: an override also takes the harm out of the history.
HarmSeenEffective(F, ref) == Harms(F, ref) # {}

\* A harm that the outcome itself records, whatever overrides say later.
HarmSeen(F, ref) ==
    \E o \in About(F, "outcome", ref) :
        /\ o.effect = "harmed" /\ ~ o.external
        /\ o.enriched => o.stage = "evaluated" /\ o.attribution = "confirmed"
                         /\ o.critic = "supported"
        /\ \E u \in UsageOf(F, o) : u.stage \in AttributedStage

Health(F, rev) ==
    IF Lifecycle(F, rev) = "degraded" \/ HarmSeen(F, rev.ref) THEN "degraded" ELSE "healthy"

(***************************************************************************)
(* Freshness: the newest evaluation that nothing supersedes, or the age of *)
(* the last activity.                                                      *)
(***************************************************************************)
Freshness(F, rev, now) ==
    LET judged == {j \in About(F, "judgment", rev.ref) :
                      j.type = "freshness" /\ j.at \notin Superseded(F)}
        active == {f.at : f \in About(F, "usage", rev.ref) \cup About(F, "evidence", rev.ref)}
        last == IF active = {} THEN rev.at
                ELSE CHOOSE t \in active : \A s \in active : s <= t
    IN  IF judged # {} THEN Newest(judged).status
        ELSE IF now < last + FreshFor THEN "fresh"
        ELSE IF now < last + AgingFor THEN "aging"
        ELSE "needs_revalidation"

(***************************************************************************)
(* DeriveState: the latest revision of every memory (number = 0), or the   *)
(* revision with one number of every memory.                               *)
(***************************************************************************)
Selected(F, number) ==
    {f \in Kind(F, "revision") :
        f.ref[2] = IF number = 0 THEN LatestOf(F, f.ref[1]) ELSE number}

DerivedAt(F, number) ==
    /\ ReferencesResolve(F)
    /\ number # 0 => \A f \in Kind(F, "revision") : Stored(F, <<f.ref[1], number>>)

StateOf(F, rev, now) ==
    [ref |-> rev.ref, lifecycle |-> Lifecycle(F, rev), health |-> Health(F, rev),
     freshness |-> Freshness(F, rev, now), pinned |-> GovernanceState(F, rev.ref).pinned,
     usage |-> UsageStats(F, rev.ref)]

DerivedStates(F, number, now) == {StateOf(F, rev, now) : rev \in Selected(F, number)}

Lifecycles == {"probation", "active", "degraded", "frozen", "superseded", "archived"}
DerivedState(F) ==
    [ref : {f.ref : f \in Kind(F, "revision")}, lifecycle : Lifecycles,
     health : {"healthy", "degraded"}, freshness : {"fresh", "aging", "needs_revalidation"},
     pinned : BOOLEAN,
     usage : [count : 0..Cardinality(F), helps : 0..Cardinality(F),
              harms : 0..Cardinality(F), insufficient : BOOLEAN]]
=================================================================================
