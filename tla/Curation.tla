------------------------------- MODULE Curation -------------------------------
(***************************************************************************)
(* How memories change shape: revise, merge, split, generalize, and the    *)
(* promotion of project memories into the global store.                    *)
(*                                                                         *)
(* A plan is a pure function of what its caller hands over; nothing binds  *)
(* it to the stores. A request below is therefore the plan and the targets *)
(* together: Build... is what building the plan checks, Apply... what is   *)
(* read back from the stores when it is applied, at any later time, without *)
(* the lock. The targets are then put: one fact, a batch (split), or one   *)
(* inside a generation transaction that keeps the global lock (publish).   *)
(*                                                                         *)
(* A revision is [kind, mem, n, content, from]: "from" is the set of its   *)
(* generalized_from relations. A reference is <<mem, n, content>>. The ids *)
(* of merged, split and global memories are hashes of what they are made   *)
(* of, so they are tuples here.                                            *)
(***************************************************************************)
EXTENDS Naturals, FiniteSets

CONSTANTS
    Proc,
    Project,       \* the project stores
    Global,        \* the global store
    World,         \* [facts (by store), requests]
    None,
    MaxFaults      \* deaths and failing writes

Store == Project \cup {Global}
FamiliesToPromote == 3

Where(r) == IF r.op \in {"revise", "merge", "split"} THEN r.store ELSE Global
Targets(r) == IF r.op = "split" THEN r.targets ELSE {r.target}

Identity(f) == CASE f.kind = "revision" -> <<f.mem, f.n>>
                 [] f.kind = "candidate" -> <<f.id>>
                 [] OTHER -> <<f.refs>>
SameIdentity(f, g) == g.kind = f.kind /\ Identity(g) = Identity(f)

\* What the types of the code and the scopes of the stores leave possible.
WellFormed(r) ==
    /\ r.op \in {"revise", "merge", "split", "generalize", "promote",
                 "put_candidate", "candidate", "publish"}
    /\ \A t \in Targets(r) :
          t.kind = IF r.op = "put_candidate" THEN "candidate" ELSE "revision"
    /\ r.op \in {"revise", "merge", "split"} => r.store \in Store
    /\ r.op \in {"generalize", "promote"} => r.store \in Project
    /\ r.op \in {"candidate", "publish"} => \A s \in r.sources : s.store \in Project
    /\ r.op = "revise" => r.source[2] \in Nat

FactsOf(w) == (UNION {w.facts[s] : s \in Store}) \cup UNION {Targets(r) : r \in w.requests}
Fact == UNION {FactsOf(w) : w \in World}

ASSUME CurationAssumption ==
    /\ None \notin Proc /\ MaxFaults \in Nat
    /\ \A w \in World :
          /\ w.facts \in [Store -> SUBSET Fact]
          /\ \A s \in Store : \A f, g \in w.facts[s] : SameIdentity(f, g) => f = g
          /\ \A r \in w.requests : WellFormed(r)

VARIABLES
    facts,         \* of each store
    requests,      \* the requests of this world
    lock,          \* of each store
    pc,            \* idle, putting, writing, begun, built
    work,          \* the request of each process
    left,          \* targets it has still to write
    wrote,         \* those its batch has created
    published,     \* candidates whose target a global generation published
    made,          \* history: <<request, target>> of every target created,
                   \* also of those that a failing batch removed again
    deaths, failures

vars == <<facts, requests, lock, pc, work, left, wrote, published, made, deaths, failures>>

Request(op) == {r \in requests : r.op = op}
Ref(rev) == <<rev.mem, rev.n, rev.content>>
Revisions(s) == {f \in facts[s] : f.kind = "revision"}
Stored(s, ref) == \E rev \in Revisions(s) : Ref(rev) = ref
EvidenceStored(s, E) == \A e \in E : \E f \in facts[s] : f.kind = "evidence" /\ e \in f.refs

Conflicts(f, s) == \E g \in facts[s] : SameIdentity(f, g) /\ g # f

(***************************************************************************)
(* The plans, and what applying one reads back.                            *)
(***************************************************************************)
BuildRevision(r) == r.target.mem = r.source[1] /\ r.target.n = r.source[2] + 1
\* Mutant: the source is found by its number, whatever its content.
ApplyRevisionByNumber(r) ==
    /\ \E rev \in Revisions(r.store) : rev.mem = r.source[1] /\ rev.n = r.source[2]
    /\ r.evidence # {} /\ EvidenceStored(r.store, r.evidence)

ApplyRevision(r) ==
    /\ Stored(r.store, r.source)
    /\ r.evidence # {} /\ EvidenceStored(r.store, r.evidence)

MergeID(inputs) == <<"merge", inputs>>
BuildMerge(r) == Cardinality(r.inputs) >= 2
ApplyMerge(r) ==
    /\ r.target.mem = MergeID(r.inputs) /\ r.target.n = 1
    /\ \A ref \in r.inputs : Stored(r.store, ref)
    /\ EvidenceStored(r.store, r.evidence)         \* which may be empty

SplitID(source, key) == <<"split", source[1], key>>
BuildSplit(r) ==
    /\ Cardinality(DOMAIN r.branches) >= 2
    /\ \A key \in DOMAIN r.branches : r.branches[key] # {}
ApplySplit(r) ==
    /\ Stored(r.store, r.source)
    /\ \A key \in DOMAIN r.branches : EvidenceStored(r.store, r.branches[key])
    /\ {t.mem : t \in r.targets} = {SplitID(r.source, key) : key \in DOMAIN r.branches}
    /\ \A t, u \in r.targets : t.mem = u.mem => t = u
    /\ \A t \in r.targets : t.n = 1

\* Trust, freeze and archive are what the caller says they were.
Available(s) == s.trusted /\ ~ s.frozen /\ ~ s.archived
Distinct(r, part) == \A s, t \in r.sources : s # t => part[s] \cap part[t] = {}
Refs(r) == {s.ref : s \in r.sources}
GlobalID(r) == <<"global", Refs(r), r.policy>>
TargetIsGlobal(r) == r.target.n = 1 /\ r.target.mem = GlobalID(r)
\* Mutant: relations the target does not have are not missed.
RetainsSome(r) == r.target.from \subseteq Refs(r)
RetainsSources(r) == r.target.from = Refs(r)

BuildGeneralize(r) ==
    /\ Cardinality(r.sources) >= 2 /\ r.policy = None
    /\ \A s \in r.sources : Available(s) /\ s.evidence # {}
    /\ Distinct(r, [s \in r.sources |-> {s.ref[1]}])
ApplyGeneralize(r) ==
    /\ TargetIsGlobal(r) /\ RetainsSources(r)
    /\ \A s \in r.sources : Stored(r.store, s.ref)

BuildPromotion(r) ==
    /\ Cardinality(r.sources) >= 2 /\ r.policy # None
    /\ \A s \in r.sources : Available(s) /\ s.evidence # {} /\ s.roots # {}
    /\ Distinct(r, [s \in r.sources |-> {s.ref[1]}])
    /\ Distinct(r, [s \in r.sources |-> {s.family}])
    /\ Distinct(r, [s \in r.sources |-> s.roots])
\* The relations of the target are not looked at.
ApplyPromotion(r) ==
    /\ TargetIsGlobal(r)
    /\ \A s \in r.sources : Stored(r.store, s.ref) /\ EvidenceStored(r.store, s.evidence)

\* Validate of a candidate.
ValidCandidate(c) ==
    /\ Cardinality(c.sources) >= 2
    /\ c.status = "eligible" => Cardinality(c.families) >= FamiliesToPromote

\* Every source is bound by the caller to a store and to a family of its own.
ApplyCandidate(r) ==
    /\ r.candidate.status = "eligible" /\ ValidCandidate(r.candidate)
    /\ Cardinality(r.sources) = Cardinality(r.candidate.sources)
    /\ Refs(r) = r.candidate.sources
    /\ {s.family : s \in r.sources} = r.candidate.families
    /\ Distinct(r, [s \in r.sources |-> {s.family}])
    /\ \A s \in r.sources : Stored(s.store, s.ref)
    /\ r.target.n = 1 /\ RetainsSources(r)
    /\ \A e \in r.candidate.evidence : \E s \in r.sources : EvidenceStored(s.store, {e})

-----------------------------------------------------------------------------
Init ==
    /\ \E w \in World : facts = w.facts /\ requests = w.requests
    /\ lock = [s \in Store |-> None]
    /\ pc = [p \in Proc |-> "idle"]
    /\ work = [p \in Proc |-> None]
    /\ left = [p \in Proc |-> {}]
    /\ wrote = [p \in Proc |-> {}]
    /\ published = {} /\ made = {}
    /\ deaths = 0 /\ failures = 0

Start(p, r, at, targets) ==
    /\ pc[p] = "idle"
    /\ pc' = [pc EXCEPT ![p] = at]
    /\ work' = [work EXCEPT ![p] = r]
    /\ left' = [left EXCEPT ![p] = targets]
    /\ UNCHANGED <<facts, requests, lock, wrote, published, made, deaths, failures>>

ApplyRevisionPlan(p) == \E r \in Request("revise") :
    BuildRevision(r) /\ ApplyRevision(r) /\ Start(p, r, "putting", {r.target})
ApplyMergePlan(p) == \E r \in Request("merge") :
    BuildMerge(r) /\ ApplyMerge(r) /\ Start(p, r, "putting", {r.target})
ApplySplitPlan(p) == \E r \in Request("split") :
    BuildSplit(r) /\ ApplySplit(r) /\ Start(p, r, "putting", r.targets)
ApplyGeneralizePlan(p) == \E r \in Request("generalize") :
    BuildGeneralize(r) /\ ApplyGeneralize(r) /\ Start(p, r, "putting", {r.target})
ApplyPromotionPlan(p) == \E r \in Request("promote") :
    BuildPromotion(r) /\ ApplyPromotion(r) /\ Start(p, r, "putting", {r.target})
PutCandidate(p) == \E r \in Request("put_candidate") :
    ValidCandidate(r.target) /\ Start(p, r, "putting", {r.target})
ApplyPromotionCandidate(p) == \E r \in Request("candidate") :
    ApplyCandidate(r) /\ Start(p, r, "putting", {r.target})

Finish(p) ==
    /\ pc' = [pc EXCEPT ![p] = "idle"]
    /\ work' = [work EXCEPT ![p] = None]
    /\ left' = [left EXCEPT ![p] = {}]
    /\ wrote' = [wrote EXCEPT ![p] = {}]

\* Put and PutBatch: nothing is written when one identity is taken.
LockPut(p) ==
    /\ pc[p] = "putting" /\ lock[Where(work[p])] = None
    /\ LET s == Where(work[p])
           new == left[p] \ facts[s]
       IN  IF new = {} \/ \E t \in left[p] : Conflicts(t, s)
           THEN Finish(p) /\ UNCHANGED lock
           ELSE /\ lock' = [lock EXCEPT ![s] = p]
                /\ pc' = [pc EXCEPT ![p] = "writing"]
                /\ left' = [left EXCEPT ![p] = new]
                /\ UNCHANGED <<work, wrote>>
    /\ UNCHANGED <<facts, requests, published, made, deaths, failures>>

WriteOne(p) ==
    /\ pc[p] = "writing"
    /\ LET s == Where(work[p])
       IN  \E t \in left[p] :
             /\ facts' = [facts EXCEPT ![s] = @ \cup {t}]
             /\ made' = made \cup {<<work[p], t>>}
             /\ IF left[p] = {t} THEN Finish(p) /\ lock' = [lock EXCEPT ![s] = None]
                ELSE /\ left' = [left EXCEPT ![p] = @ \ {t}]
                     /\ wrote' = [wrote EXCEPT ![p] = @ \cup {t}]
                     /\ UNCHANGED <<lock, pc, work>>
    /\ UNCHANGED <<requests, published, deaths, failures>>

\* Mutant: a batch that fails keeps what it has written.
WriteFailsKeeping(p) ==
    /\ pc[p] = "writing" /\ failures < MaxFaults
    /\ failures' = failures + 1
    /\ lock' = [lock EXCEPT ![Where(work[p])] = None]
    /\ Finish(p)
    /\ UNCHANGED <<facts, requests, published, made, deaths>>

\* The facts of the batch this call created are removed again.
WriteFails(p) ==
    /\ pc[p] = "writing" /\ failures < MaxFaults
    /\ failures' = failures + 1
    /\ LET s == Where(work[p])
       IN  /\ facts' = [facts EXCEPT ![s] = @ \ wrote[p]]
           /\ lock' = [lock EXCEPT ![s] = None]
    /\ Finish(p)
    /\ UNCHANGED <<requests, published, made, deaths>>

(***************************************************************************)
(* PublishPromotionGeneration: the global lock is taken by Begin and kept; *)
(* the target is put before the candidate is read back and the world is    *)
(* compiled, and an abort leaves it.                                       *)
(***************************************************************************)
BeginPublication(p) ==
    /\ lock[Global] = None
    /\ \E r \in Request("publish") :
          /\ pc[p] = "idle"
          /\ pc' = [pc EXCEPT ![p] = "begun"]
          /\ work' = [work EXCEPT ![p] = r]
    /\ lock' = [lock EXCEPT ![Global] = p]
    /\ UNCHANGED <<facts, requests, left, wrote, published, made, deaths, failures>>

CanPutTarget(r) == ApplyCandidate(r) /\ ~ Conflicts(r.target, Global)
\* Mutant: the candidate is taken from the request and not read back.
CanCommitUnread(r) == r.compile \subseteq {Ref(v) : v \in Revisions(Global)}
CanCommit(r) == r.candidate \in facts[Global] /\ r.compile \subseteq {Ref(v) : v \in Revisions(Global)}

PutTarget(p) ==
    /\ pc[p] = "begun" /\ CanPutTarget(work[p])
    /\ facts' = [facts EXCEPT ![Global] = @ \cup {work[p].target}]
    /\ made' = IF work[p].target \in facts[Global] THEN made
               ELSE made \cup {<<work[p], work[p].target>>}
    /\ pc' = [pc EXCEPT ![p] = "built"]
    /\ UNCHANGED <<requests, lock, work, left, wrote, published, deaths, failures>>

CommitPublication(p) ==
    /\ pc[p] = "built" /\ CanCommit(work[p])
    /\ published' = published \cup {work[p].candidate}
    /\ lock' = [lock EXCEPT ![Global] = None]
    /\ Finish(p)
    /\ UNCHANGED <<facts, requests, made, deaths, failures>>

AbortPublication(p) ==
    /\ \/ pc[p] = "begun" /\ ~ CanPutTarget(work[p])
       \/ pc[p] = "built" /\ ~ CanCommit(work[p])
    /\ lock' = [lock EXCEPT ![Global] = None]
    /\ Finish(p)
    /\ UNCHANGED <<facts, requests, published, made, deaths, failures>>

\* A dead process leaves what it wrote; its lock is reclaimed (StoreLock).
Crash(p) ==
    /\ pc[p] # "idle" /\ deaths < MaxFaults
    /\ deaths' = deaths + 1
    /\ lock' = [s \in Store |-> IF lock[s] = p THEN None ELSE lock[s]]
    /\ Finish(p)
    /\ UNCHANGED <<facts, requests, published, made, failures>>

Next == \E p \in Proc :
    \/ ApplyRevisionPlan(p) \/ ApplyMergePlan(p) \/ ApplySplitPlan(p)
    \/ ApplyGeneralizePlan(p) \/ ApplyPromotionPlan(p)
    \/ PutCandidate(p) \/ ApplyPromotionCandidate(p)
    \/ LockPut(p) \/ WriteOne(p) \/ WriteFails(p)
    \/ BeginPublication(p) \/ PutTarget(p) \/ CommitPublication(p) \/ AbortPublication(p)
    \/ Crash(p)

Spec == Init /\ [][Next]_vars

-----------------------------------------------------------------------------
TypeOK ==
    /\ facts \in [Store -> SUBSET Fact]
    /\ requests \in {w.requests : w \in World}
    /\ lock \in [Store -> Proc \cup {None}]
    /\ pc \in [Proc -> {"idle", "putting", "writing", "begun", "built"}]
    /\ work \in [Proc -> requests \cup {None}]
    /\ left \in [Proc -> SUBSET Fact] /\ wrote \in [Proc -> SUBSET Fact]
    /\ made \subseteq requests \X Fact
    /\ deaths \in 0..MaxFaults /\ failures \in 0..MaxFaults

Standing == {m \in made : m[2] \in facts[Where(m[1])]}

\* The facts that no failing batch will remove any more.
Settled(s) == {f \in facts[s] : lock[s] # None => f \notin wrote[lock[s]]}

\* A branch that was there to be read until its batch failed.
Undone(ref) == \E m \in made \ Standing : Ref(m[2]) = ref

(* ApplyRevisionPlan: the history of a memory does not fork: a revision    *)
(* was made from the revision before it as it is stored, also when two     *)
(* callers have planned from different next revisions of one memory. The   *)
(* source is read without the lock, so it may be a branch whose batch      *)
(* fails later: then the revision stays without its source.                *)
LineageUnforked ==
    \A m \in Standing : m[1].op = "revise" /\ ~ Undone(m[1].source) =>
        /\ Stored(m[1].store, m[1].source)
        /\ \A rev \in Revisions(m[1].store) :
              rev.mem = m[2].mem /\ rev.n = m[2].n - 1 => Ref(rev) = m[1].source

(* PutBatch under ApplySplitPlan: the branches of a split are there        *)
(* together: unless a process has died, a stored branch is one that the    *)
(* holder of the lock may still remove, or all the targets of an           *)
(* application that it is one of are stored and will stay.                 *)
SplitWhole ==
    deaths = 0 => \A m \in Standing : m[1].op = "split" =>
        LET s == Where(m[1])
        IN  m[2] \in Settled(s) =>
              \E k \in made : /\ Where(k[1]) = s
                             /\ m[2] \in Targets(k[1]) /\ Targets(k[1]) \subseteq Settled(s)

(* validateGeneralizedFrom and the candidate's bindings: what the global   *)
(* store gained stands on sources that are stored in project stores with   *)
(* exactly the content it was made of, or were until their batch failed; a *)
(* generalized or candidate memory names all of them and no other, and a   *)
(* candidate's come from three project families.                           *)
GlobalGrounded ==
    \A m \in Standing : m[1].op \in {"generalize", "promote", "candidate", "publish"} =>
        /\ \A ref \in Refs(m[1]) : Undone(ref) \/ \E s \in Project : Stored(s, ref)
        /\ m[1].op # "promote" => m[2].from = Refs(m[1])
        /\ m[1].op \in {"candidate", "publish"} =>
              Cardinality({s.family : s \in m[1].sources}) >= FamiliesToPromote

(* What was made of a stored revision still has it: PutBatch "rolls back   *)
(* only facts it created itself", but these may have been built upon.      *)
SourcesStay ==
    \A m \in Standing : m[1].op = "revise" => Stored(m[1].store, m[1].source)

(* PublishPromotionGeneration: what a global generation publishes is there *)
(* in full: the candidate as a fact of the global store, and a global      *)
(* revision made of the candidate's sources, whatever died or was aborted. *)
PublishedIsStored ==
    \A c \in published :
        /\ c \in facts[Global] /\ c.status = "eligible"
        /\ \E rev \in Revisions(Global) : rev.from = c.sources
=================================================================================
