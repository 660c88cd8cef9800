------------------------------ MODULE Governance ------------------------------
(***************************************************************************)
(* The commands that feed the derived state of one store: usage and        *)
(* outcome capture, attribution overrides, judgments, governance events    *)
(* and new revisions, run by several processes over one set of facts.      *)
(*                                                                         *)
(* Every command reads the store and builds its facts without the lock. A  *)
(* capture then takes the lock once, looks for conflicting identities and  *)
(* writes its batch fact by fact; the other commands put one fact. Nothing *)
(* of a batch is undone when its process dies.                             *)
(***************************************************************************)
EXTENDS DerivedState

CONSTANTS
    Proc,
    Scenario,      \* worlds to start from: [facts, jobs]
    Episode,       \* [task, ctx, at] of each episode
    MaxTime,       \* instants a caller may pass as --now are 1..MaxTime
    MaxCrashes

VARIABLES
    facts,         \* what the store holds
    jobs,          \* the commands that are given in this world
    lock,          \* who holds the write lock
    pc,            \* idle, waiting (for the lock), writing (a batch), putting
    draft,         \* the facts a process has built and not yet written
    crashes

vars == <<facts, jobs, lock, pc, draft, crashes>>

Job(kind) == {j \in jobs : j.kind = kind}
Stage == {Stages[i] : i \in 1..Len(Stages)}
RankOf(stage) == CHOOSE i \in 1..Len(Stages) : Stages[i] = stage

(***************************************************************************)
(* Facts. Two facts with one identity and different content conflict; ids  *)
(* of judgments and events are hashes of all they say, so the instant      *)
(* stands for the id. What Validate of each fact kind accepts, where it    *)
(* matters to a derivation:                                                *)
(***************************************************************************)
Identity(f) ==
    CASE f.kind \in {"usage", "outcome"} -> <<f.kind, f.id>>
      [] f.kind \in {"judgment", "event"} -> <<f.kind, f.at>>
      [] f.kind = "episode" -> <<f.kind, f.ep>>
      [] OTHER -> <<f.kind, f.ref>>

Conflicts(f, F) == \E g \in F : Identity(g) = Identity(f) /\ g # f

ValidUsage(u) == u.stage \in Stage
ValidOutcome(o) ==
    /\ o.effect \in Effect
    /\ o.enriched => /\ o.stage \in AttributedStage
                     /\ o.attribution \in {"confirmed", "likely", "uncertain"}
                     /\ o.critic \in {"supported", "unsupported", "not_required", "unavailable"}
ValidJudgment(j) ==
    CASE j.type = "override" -> j.new \in Effect
      [] j.type = "confirmation" -> j.status = "confirmed" \/ (j.status = "revoked" /\ j.sup # None)
      [] OTHER -> j.status \in {"fresh", "aging", "needs_revalidation"}
ValidEvent(e) == e.op \in {"pin", "unpin", "manual_freeze", "unfreeze", "archive"}
ValidRevision(r) == (r.anchor # None) = (Policy[r.ref[1]] = "explicit_confirmation")

Valid(f) == CASE f.kind = "usage" -> ValidUsage(f)
              [] f.kind = "outcome" -> ValidOutcome(f)
              [] f.kind = "judgment" -> ValidJudgment(f)
              [] f.kind = "event" -> ValidEvent(f)
              [] f.kind = "revision" -> ValidRevision(f)
              [] OTHER -> TRUE

(***************************************************************************)
(* BuildMemoryUsages: one usage for every candidate of the receipt, at the *)
(* highest stage it was reported to reach.                                 *)
(***************************************************************************)
UsagesBuildable(r) ==
    /\ [kind |-> "episode", ep |-> r.ep] \in facts
    /\ \A s \in r.reached : s[1] \in r.candidates /\ s[2] \in Stage

StageReached(r, ref) ==
    LET said == {s[2] : s \in {t \in r.reached : t[1] = ref}} \cup {"retrieved"}
    IN  CHOOSE top \in said : \A s \in said : RankOf(s) <= RankOf(top)

BuildMemoryUsages(r) ==
    {[kind |-> "usage", id |-> <<Episode[r.ep].task, r.ret, ref>>, ref |-> ref,
      stage |-> StageReached(r, ref), ep |-> r.ep, at |-> Episode[r.ep].at] : ref \in r.candidates}

(***************************************************************************)
(* BuildOutcomes: each candidate names a stored usage of this episode. A   *)
(* confirmed attribution without evidence says nothing, a harm needs a     *)
(* supporting critic, and an outcome is identified by task, revision and   *)
(* context: a second one from the same context is the same outcome.        *)
(***************************************************************************)
UsageNamed(id) == CHOOSE u \in Kind(facts, "usage") : u.id = id

Normalized(c) ==
    IF \/ c.attribution = "confirmed" /\ ~ c.evidence
       \/ c.effect = "harmed" /\ c.critic # "supported"
    THEN "unknown" ELSE c.effect

\* Mutant: another retrieval of the same task makes another outcome.
OutcomePerRetrieval(u) == <<u.id[1], u.ref, Episode[u.ep].ctx, u.id[2]>>

DeterministicOutcomeID(u) == <<Episode[u.ep].task, u.ref, Episode[u.ep].ctx>>

OutcomeFor(c, r) ==
    LET u == UsageNamed(c.usage)
    IN  [kind |-> "outcome", id |-> DeterministicOutcomeID(u), usage |-> u.id, ref |-> u.ref,
         effect |-> Normalized(c), external |-> r.external, enriched |-> TRUE,
         stage |-> u.stage, attribution |-> c.attribution,
         critic |-> IF Normalized(c) = "harmed" THEN c.critic ELSE "not_required"]

BuildOutcomes(r) == {OutcomeFor(c, r) : c \in r.candidates}

OutcomesBuildable(r) ==
    /\ [kind |-> "episode", ep |-> r.ep] \in facts
    /\ \A c \in r.candidates :
           /\ c.within                            \* evidence and cause belong to the episode
           /\ \E u \in Kind(facts, "usage") : u.id = c.usage /\ u.ep = r.ep
           /\ ValidOutcome(OutcomeFor(c, r))
    /\ \A c, d \in r.candidates : OutcomeFor(c, r).id = OutcomeFor(d, r).id => c = d

(***************************************************************************)
(* BuildAttributionOverride: the overrides of one outcome must form one    *)
(* chain in the order of their instants; the new one supersedes its end.   *)
(***************************************************************************)
OverridesOf(o) == {j \in Kind(facts, "judgment") : j.type = "override" /\ j.outcome = o.id}

Linear(chain) ==
    \A j \in chain : LET before == {k \in chain : k.at < j.at}
                     IN  before # {} => j.sup = Newest(before).at

Override(o, new, now) ==
    LET chain == OverridesOf(o)
    IN  [kind |-> "judgment", type |-> "override", ref |-> o.ref, outcome |-> o.id, new |-> new,
         status |-> None, at |-> now, sup |-> IF chain = {} THEN None ELSE Newest(chain).at]

(***************************************************************************)
(* CommitGovernanceEvent: an unfreeze needs a revision that derives as     *)
(* frozen, and not by its evidence. DeriveState is asked for this revision *)
(* number of EVERY memory, and its answer must hold one state.             *)
(***************************************************************************)
RevisionAt(ref) == CHOOSE f \in About(facts, "revision", ref) : TRUE
EvidenceOnly(F) == F \ Kind(F, "event")

CanUnfreeze(ref) ==
    /\ DerivedAt(facts, ref[2])
    /\ Cardinality(Selected(facts, ref[2])) = 1
    /\ \A rev \in Selected(facts, ref[2]) : Lifecycle(facts, rev) = "frozen"
    /\ Lifecycle(EvidenceOnly(facts), RevisionAt(ref)) # "frozen"

-----------------------------------------------------------------------------
(* The store is one that commands have built, a receipt's candidates come  *)
(* out of a published generation, so that they are stored revisions, and   *)
(* overrides are made by their own command only. BuildOutcomes is the one  *)
(* place that makes outcomes, so that their ids are those it gives.        *)
ASSUME GovernanceAssumption ==
    /\ None \notin Proc /\ MaxTime \in Nat /\ MaxCrashes \in Nat
    /\ \A w \in Scenario :
           /\ IsFiniteSet(w.facts)
           /\ \A f \in w.facts :
                  /\ Valid(f) /\ ~ Conflicts(f, w.facts)
                  /\ f.kind \in {"judgment", "event"} => f.at \in 1..MaxTime
                  /\ f.kind = "outcome" =>
                        \A u \in UsageOf(w.facts, f) :
                            f.id = <<Episode[u.ep].task, u.ref, Episode[u.ep].ctx>>
           /\ ReferencesResolve(w.facts)
           /\ \A j \in w.jobs :
                  /\ j.kind = "usage" => \A ref \in j.candidates : Stored(w.facts, ref)
                  /\ j.kind = "judge" => j.type # "override"
                  /\ j.kind = "revise" => j.rev.kind = "revision"

Init ==
    /\ \E w \in Scenario : facts = w.facts /\ jobs = w.jobs
    /\ lock = None
    /\ pc = [p \in Proc |-> "idle"]
    /\ draft = [p \in Proc |-> {}]
    /\ crashes = 0

Begin(p, at, batch) ==
    /\ pc[p] = "idle"
    /\ pc' = [pc EXCEPT ![p] = at]
    /\ draft' = [draft EXCEPT ![p] = batch]
    /\ UNCHANGED <<facts, jobs, lock, crashes>>

CaptureUsages(p) == \E r \in Job("usage") :
    UsagesBuildable(r) /\ Begin(p, "waiting", BuildMemoryUsages(r))
CaptureOutcomes(p) == \E r \in Job("outcome") :
    OutcomesBuildable(r) /\ Begin(p, "waiting", BuildOutcomes(r))

Put(p, f) == Valid(f) /\ f \notin facts /\ Begin(p, "putting", {f})

\* Instants nobody has used: of the stored facts and of those being put.
Unused == (1..MaxTime) \ {f.at : f \in Kind(facts, "judgment") \cup Kind(facts, "event")
                             \cup UNION {Kind(draft[p], "judgment") \cup Kind(draft[p], "event") : p \in Proc}}

CaptureEpisode(p) == \E j \in Job("episode") : Put(p, [kind |-> "episode", ep |-> j.ep])

OverrideOutcome(p) ==
    \E j \in Job("override"), o \in Kind(facts, "outcome"), now \in Unused :
        /\ Linear(OverridesOf(o))
        /\ Put(p, Override(o, j.new, now))

\* Mutant: the target is not read back.
GovernUnread(p) ==
    \E j \in Job("govern"), now \in Unused :
        Put(p, [kind |-> "event", ref |-> j.ref, op |-> j.op, at |-> now])

Govern(p) ==
    \E j \in Job("govern"), now \in Unused :
        /\ Stored(facts, j.ref)
        /\ j.op = "unfreeze" => CanUnfreeze(j.ref)
        /\ Put(p, [kind |-> "event", ref |-> j.ref, op |-> j.op, at |-> now])

\* Put validates a judgment by itself; its caller names a stored revision.
Judge(p) ==
    \E j \in Job("judge"), now \in Unused, sup \in {None} \cup {k.at : k \in Kind(facts, "judgment")} :
        /\ Stored(facts, j.ref)
        /\ \A k \in Kind(facts, "judgment") : k.at = sup => k.type = j.type
        /\ Put(p, [kind |-> "judgment", type |-> j.type, ref |-> j.ref, outcome |-> None,
                   new |-> None, status |-> j.status, at |-> now, sup |-> sup])

Revise(p) ==
    \E j \in Job("revise") :
        /\ Stored(facts, <<j.rev.ref[1], j.rev.ref[2] - 1>>)
        /\ Put(p, j.rev)

\* Mutant: the identities were looked at before the lock was taken.
LockWithoutPreflight(p) ==
    /\ pc[p] = "waiting" /\ lock = None
    /\ lock' = p
    /\ pc' = [pc EXCEPT ![p] = "writing"]
    /\ UNCHANGED <<facts, jobs, draft, crashes>>

\* The lock is held from the preflight to the last write.
LockBatch(p) ==
    /\ pc[p] = "waiting" /\ lock = None
    /\ IF \E f \in draft[p] : Conflicts(f, facts)
       THEN /\ pc' = [pc EXCEPT ![p] = "idle"]
            /\ draft' = [draft EXCEPT ![p] = {}]
            /\ UNCHANGED lock
       ELSE /\ lock' = p
            /\ pc' = [pc EXCEPT ![p] = "writing"]
            /\ UNCHANGED draft
    /\ UNCHANGED <<facts, jobs, crashes>>

WriteOne(p) ==
    /\ pc[p] = "writing"
    /\ \E f \in draft[p] :
           /\ facts' = facts \cup {f}
           /\ draft' = [draft EXCEPT ![p] = @ \ {f}]
    /\ IF draft'[p] = {} THEN lock' = None /\ pc' = [pc EXCEPT ![p] = "idle"]
                         ELSE UNCHANGED <<lock, pc>>
    /\ UNCHANGED <<jobs, crashes>>

\* FactStore.Put: an identical fact is there already, or the identity is taken.
PutOne(p) ==
    /\ pc[p] = "putting" /\ lock = None
    /\ facts' = facts \cup {f \in draft[p] : ~ Conflicts(f, facts)}
    /\ pc' = [pc EXCEPT ![p] = "idle"]
    /\ draft' = [draft EXCEPT ![p] = {}]
    /\ UNCHANGED <<jobs, lock, crashes>>

\* The lock of a dead process is reclaimed (StoreLock).
Crash(p) ==
    /\ pc[p] # "idle" /\ crashes < MaxCrashes
    /\ crashes' = crashes + 1
    /\ lock' = IF lock = p THEN None ELSE lock
    /\ pc' = [pc EXCEPT ![p] = "idle"]
    /\ draft' = [draft EXCEPT ![p] = {}]
    /\ UNCHANGED <<facts, jobs>>

Next == \E p \in Proc :
    \/ CaptureUsages(p) \/ CaptureOutcomes(p) \/ CaptureEpisode(p)
    \/ OverrideOutcome(p) \/ Govern(p) \/ Judge(p) \/ Revise(p)
    \/ LockBatch(p) \/ WriteOne(p) \/ PutOne(p) \/ Crash(p)

Spec == Init /\ [][Next]_vars

-----------------------------------------------------------------------------
(* Every fact is valid, identities are unique, only the lock's owner is in *)
(* a batch, and every derivation gives a state DerivedMemoryState allows.  *)
TypeOK ==
    /\ \A f \in facts : Valid(f) /\ ~ Conflicts(f, facts)
    /\ \A p \in Proc : /\ pc[p] \in {"idle", "waiting", "writing", "putting"}
                       /\ (pc[p] = "writing") = (lock = p)
                       /\ \A f \in draft[p] : Valid(f)
    /\ crashes \in 0..MaxCrashes
    /\ DerivedStates(facts, 0, MaxTime) \subseteq DerivedState(facts)

(* validateDerivedReferences never refuses a store the commands built: no  *)
(* race of commands and no death inside a batch leaves a fact that refers  *)
(* to one which is not there, after which nothing could be derived again,  *)
(* two contents of one identity, or a state DerivedMemoryState excludes.   *)
Derivable == TypeOK /\ ReferencesResolve(facts)

(* deriveLifecycle: "at least three counted helps across at least two      *)
(* independent episodes": an outcome_attributed revision is active only on *)
(* three helped outcomes of different task contexts, none of them harmed,  *)
(* however often a task reported, retried, or retrieved the memory.        *)
CountsAsHelp(o) == /\ EffectiveEffect(facts, o) = "helped" /\ ~ o.external
                   /\ o.enriched => o.stage = "evaluated" /\ o.attribution = "confirmed"
Context(o) == {<<Episode[u.ep].task, Episode[u.ep].ctx>> : u \in UsageOf(facts, o)}
ActiveEarned ==
    \A rev \in Selected(facts, 0) :
        (Policy[rev.ref[1]] = "outcome_attributed" /\ Lifecycle(facts, rev) = "active") =>
            LET helps == {o \in About(facts, "outcome", rev.ref) : CountsAsHelp(o)}
            IN  /\ Cardinality(UNION {Context(o) : o \in helps}) >= 3
                /\ Cardinality(UNION {{u.ep : u \in UsageOf(facts, o)} : o \in helps}) >= 2

(* CommitMemoryUsages and CommitOutcomes: "A conflict is therefore         *)
(* detected before the first write": a batch that has begun never meets    *)
(* another fact under one of its identities.                               *)
NoLateConflict ==
    \A p \in Proc : pc[p] = "writing" => \A f \in draft[p] : ~ Conflicts(f, facts)

(* hasHarmedOutcome, "the historical harm stays as negative evidence", and *)
(* deriveLifecycle, "Success never cancels failure": a revision with a     *)
(* verified harm is degraded in health in every later state, and it is     *)
(* active only if the user has overridden each of its verified harms,      *)
(* whatever is captured, retried or governed later.                        *)
VerifiedHarm(o) == /\ o.effect = "harmed" /\ ~ o.external
                   /\ o.enriched => o.stage = "evaluated" /\ o.attribution = "confirmed"
                                    /\ o.critic = "supported"
                   /\ \E u \in UsageOf(facts, o) : u.stage \in AttributedStage
HarmRemembered ==
    \A o \in Kind(facts, "outcome") : VerifiedHarm(o) =>
        \A rev \in About(facts, "revision", o.ref) :
            /\ Health(facts, rev) = "degraded"
            /\ Policy[o.ref[1]] = "outcome_attributed" /\ Lifecycle(facts, rev) = "active"
                   => \E k \in OverridesOf(o) : k.new # "harmed"

(* CommitGovernanceEvent judges an unfreeze on evidence it read without    *)
(* the lock. Whatever happens before the event is written, and whatever    *)
(* else is said of the revision, one that its evidence freezes is never    *)
(* back in use: it is frozen, archived or replaced.                        *)
EvidenceFreezeHolds ==
    \A rev \in Kind(facts, "revision") :
        Lifecycle(EvidenceOnly(facts), rev) = "frozen" =>
            Lifecycle(facts, rev) \in {"frozen", "archived", "superseded"}

(* The plan of lifecycle governance (04C, 3.2) and the tests: a manual     *)
(* freeze that the evidence does not call for can be lifted again.         *)
UnfreezeAllowed ==
    \A rev \in Selected(facts, 0) :
        LET gov == GovernanceState(facts, rev.ref)
        IN  (gov.frozen /\ ~ gov.archived /\ Lifecycle(EvidenceOnly(facts), rev) # "frozen")
                => CanUnfreeze(rev.ref)
=================================================================================
