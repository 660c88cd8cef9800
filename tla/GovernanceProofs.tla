--------------------------- MODULE GovernanceProofs ---------------------------
(* What the captures and the governance commands keep of a store, for any      *)
(* world to start from, any processes and any number of deaths: nothing refers *)
(* to what is not there, no identity has two contents, a batch that has begun  *)
(* to write meets no conflict, and what DeriveState says of the revisions is   *)
(* earned: three contexts for an active one, a harm that is never forgotten.   *)
EXTENDS Governance, TLAPS, FiniteSetTheorems

OneWriter == \A p \in Proc : pc[p] = "writing" <=> lock = p

\* The jobs are those of a world whose facts are still all there.
Grown == \E w \in Scenario : jobs = w.jobs /\ w.facts \subseteq facts

Unique(F) == \A f \in F : ~ Conflicts(f, F)

\* What a fact refers to is in F.
Resolved(f, F) ==
    /\ f.kind \in {"usage", "outcome", "event", "judgment"} => Stored(F, f.ref)
    /\ f.kind = "outcome" => \E u \in Kind(F, "usage") : u.id = f.usage /\ u.ref = f.ref
    /\ f.kind = "judgment" /\ f.type = "override" => \E o \in Kind(F, "outcome") : o.id = f.outcome

\* A fact as the commands build it: its outcome is named by task and context.
Built(f, F) ==
    /\ Valid(f) /\ Resolved(f, F)
    /\ f.kind \in {"judgment", "event"} => f.at \in 1..MaxTime
    /\ f.kind = "outcome" =>
          \E u \in UsageOf(F, f) : f.id = <<Episode[u.ep].task, u.ref, Episode[u.ep].ctx>>

Drafted == \A p \in Proc : /\ Unique(draft[p])
                           /\ \A f \in draft[p] : Built(f, facts)
                           /\ pc[p] = "putting" => IsFiniteSet(draft[p])

IInv == /\ pc \in [Proc -> {"idle", "waiting", "writing", "putting"}]
        /\ draft = [p \in Proc |-> draft[p]]
        /\ OneWriter /\ Grown /\ Drafted
        /\ Unique(facts) /\ IsFiniteSet(facts) /\ \A f \in facts : Built(f, facts)
        /\ NoLateConflict /\ crashes \in 0..MaxCrashes

-------------------------------------------------------------------------------
(* Facts *)

LEMMA ResolvedAll == ASSUME NEW F
                     PROVE  ReferencesResolve(F) <=> \A f \in F : Resolved(f, F)
<1>1. ASSUME ReferencesResolve(F), NEW f \in F PROVE Resolved(f, F)
  <2>1. f.kind \in {"usage", "outcome", "event", "judgment"} => Stored(F, f.ref)
        BY <1>1 DEF ReferencesResolve, Kind
  <2>. QED  BY <1>1, <2>1 DEF ReferencesResolve, Resolved, Kind
<1>2. ASSUME \A f \in F : Resolved(f, F) PROVE ReferencesResolve(F)
      BY <1>2 DEF ReferencesResolve, Resolved, Kind
<1>. QED  BY <1>1, <1>2

\* A larger store resolves no less.
LEMMA ResolvedGrows == ASSUME NEW F, NEW G, F \subseteq G, NEW f, Resolved(f, F)
                       PROVE  Resolved(f, G)
<1>1. \A ref : Stored(F, ref) => Stored(G, ref)
      BY DEF Stored, About, Kind
<1>2. \A k : Kind(F, k) \subseteq Kind(G, k)
      BY DEF Kind
<1>. QED  BY <1>1, <1>2 DEF Resolved

LEMMA BuiltGrows == ASSUME NEW F, NEW G, F \subseteq G, NEW f, Built(f, F)
                    PROVE  Built(f, G)
<1>1. UsageOf(F, f) \subseteq UsageOf(G, f)
      BY DEF UsageOf, About, Kind
<1>. QED  BY <1>1, ResolvedGrows DEF Built

\* Adding one that conflicts with nothing.
LEMMA UniqueGrows == ASSUME NEW F, Unique(F), NEW D, Unique(D), \A f \in D : ~ Conflicts(f, F)
                     PROVE  Unique(F \cup D)
BY DEF Unique, Conflicts

LEMMA UniqueOne == \A f : Unique({f})
BY DEF Unique, Conflicts

LEMMA UniqueLess == ASSUME NEW F, Unique(F), NEW G, G \subseteq F PROVE Unique(G)
BY DEF Unique, Conflicts

LEMMA Resolves == IInv => ReferencesResolve(facts)
BY ResolvedAll DEF IInv, Built

-------------------------------------------------------------------------------
(* What the commands build *)

\* The stages of a usage have five ranks.
LEMMA Ranks ==
    /\ Stage = {"retrieved", "read", "adopted", "affected", "evaluated"}
    /\ RankOf("retrieved") = 1 /\ RankOf("read") = 2 /\ RankOf("adopted") = 3
    /\ RankOf("affected") = 4 /\ RankOf("evaluated") = 5
<1>1. Stage = {Stages[1], Stages[2], Stages[3], Stages[4], Stages[5]}
      BY DEF Stage, Stages
<1>2. \A i \in 1..5 : RankOf(Stages[i]) = i
      BY DEF RankOf, Stages
<1>. QED  BY <1>1, <1>2 DEF Stages

LEMMA StageReachedOk ==
    ASSUME NEW r, NEW ref, \A s \in r.reached : s[2] \in Stage
    PROVE  StageReached(r, ref) \in Stage
<1> DEFINE said == {s[2] : s \in {t \in r.reached : t[1] = ref}} \cup {"retrieved"}
<1>1. said \subseteq Stage /\ "retrieved" \in said
      BY Ranks
<1>2. \E top \in said : \A s \in said : RankOf(s) <= RankOf(top)
  <2> HIDE DEF said
  <2>1. CASE "evaluated" \in said  BY <2>1, <1>1, Ranks
  <2>2. CASE "evaluated" \notin said /\ "affected" \in said  BY <2>2, <1>1, Ranks
  <2>3. CASE "evaluated" \notin said /\ "affected" \notin said /\ "adopted" \in said
        BY <2>3, <1>1, Ranks
  <2>4. CASE said \subseteq {"retrieved", "read"} /\ "read" \in said  BY <2>4, Ranks
  <2>5. CASE said = {"retrieved"}  BY <2>5, Ranks
  <2>. QED  BY <2>1, <2>2, <2>3, <2>4, <2>5, <1>1, Ranks
<1>. QED  BY <1>1, <1>2 DEF StageReached

\* BuildMemoryUsages: candidates of one receipt differ in their reference.
LEMMA UsagesOk ==
    ASSUME NEW r \in Job("usage"), Grown, UsagesBuildable(r)
    PROVE  /\ Unique(BuildMemoryUsages(r))
           /\ \A f \in BuildMemoryUsages(r) : Built(f, facts)
<1>1. \A f \in BuildMemoryUsages(r) : /\ f.kind = "usage" /\ f.ref \in r.candidates
                                      /\ Identity(f) = <<f.kind, f.id>>
      BY DEF BuildMemoryUsages, Identity
<1>2. \A f, g \in BuildMemoryUsages(r) : f.id = g.id => f = g
      BY DEF BuildMemoryUsages
<1>3. Unique(BuildMemoryUsages(r))
      BY <1>1, <1>2 DEF Unique, Conflicts
<1>4. \A ref \in r.candidates : Stored(facts, ref)
  <2>1. PICK w \in Scenario : jobs = w.jobs /\ w.facts \subseteq facts
        BY DEF Grown
  <2>2. \A ref \in r.candidates : Stored(w.facts, ref)
        BY <2>1, GovernanceAssumption DEF Job
  <2>. QED  BY <2>1, <2>2 DEF Stored, About, Kind
<1>5. \A f \in BuildMemoryUsages(r) : f.stage \in Stage
      BY StageReachedOk DEF BuildMemoryUsages, UsagesBuildable
<1>6. \A f \in BuildMemoryUsages(r) : Valid(f) /\ Resolved(f, facts)
      BY <1>1, <1>4, <1>5 DEF Resolved, Valid, ValidUsage
<1>. QED  BY <1>1, <1>3, <1>6 DEF Built

\* BuildOutcomes: two candidates of one identity are refused before.
LEMMA OutcomesOk ==
    ASSUME NEW r \in Job("outcome"), OutcomesBuildable(r), ReferencesResolve(facts)
    PROVE  /\ Unique(BuildOutcomes(r))
           /\ \A f \in BuildOutcomes(r) : Built(f, facts)
<1>1. \A c \in r.candidates : OutcomeFor(c, r).kind = "outcome"
      BY DEF OutcomeFor
<1>2. \A f \in BuildOutcomes(r) : Identity(f) = <<f.kind, f.id>>
      BY <1>1 DEF BuildOutcomes, Identity
<1>3. \A f, g \in BuildOutcomes(r) : f.id = g.id => f = g
      BY DEF BuildOutcomes, OutcomesBuildable
<1>4. Unique(BuildOutcomes(r))
      BY <1>2, <1>3 DEF Unique, Conflicts
<1>5. ASSUME NEW c \in r.candidates PROVE Built(OutcomeFor(c, r), facts)
  <2>1. PICK u : u = UsageNamed(c.usage)
        OBVIOUS
  <2>2. u \in Kind(facts, "usage")
        BY <2>1 DEF UsageNamed, OutcomesBuildable
  <2>3. Stored(facts, u.ref)
        BY <2>2 DEF ReferencesResolve
  <2>4. PICK o : o = OutcomeFor(c, r)
        OBVIOUS
  <2>5. /\ o.usage = u.id /\ o.ref = u.ref /\ o.kind = "outcome"
        /\ o.id = <<Episode[u.ep].task, u.ref, Episode[u.ep].ctx>>
        BY <2>1, <2>4 DEF OutcomeFor, DeterministicOutcomeID
  <2>6. Resolved(o, facts)
        BY <2>2, <2>3, <2>5 DEF Resolved
  <2>7. u \in UsageOf(facts, o)
        BY <2>2, <2>5 DEF UsageOf, About
  <2>8. ValidOutcome(o)
        BY <2>4 DEF OutcomesBuildable
  <2>9. Valid(o)
        BY <2>5, <2>8 DEF Valid
  <2>10. Built(o, facts)
        BY <2>5, <2>6, <2>7, <2>9 DEF Built
  <2>. QED  BY <2>4, <2>10
<1>. QED  BY <1>4, <1>5 DEF BuildOutcomes

-------------------------------------------------------------------------------
(* The store and the drafts while facts are added *)

LEMMA StoreAdds ==
    ASSUME NEW D, facts' = facts \cup D, jobs' = jobs, Unique(D), IsFiniteSet(D),
           \A f \in D : Built(f, facts) /\ ~ Conflicts(f, facts), IInv
    PROVE  /\ Grown' /\ Unique(facts') /\ IsFiniteSet(facts')
           /\ \A f \in facts' : Built(f, facts')
<1>1. Grown'
      BY DEF Grown, IInv
<1>2. Unique(facts') /\ IsFiniteSet(facts')
      BY UniqueGrows, FS_Union DEF IInv
<1>3. \A f \in facts' : Built(f, facts)
      BY DEF IInv
<1>4. \A f \in facts' : Built(f, facts')
      BY <1>3, BuiltGrows
<1>. QED  BY <1>1, <1>2, <1>4

LEMMA SameStore ==
    ASSUME facts' = facts, jobs' = jobs, IInv
    PROVE  /\ Grown' /\ Unique(facts)' /\ IsFiniteSet(facts)'
           /\ (\A f \in facts : Built(f, facts))'
BY DEF Grown, IInv

LEMMA DraftsStay ==
    ASSUME Drafted, facts \subseteq facts', \A p \in Proc : draft'[p] \subseteq draft[p],
           \A p \in Proc : pc'[p] = "putting" => pc[p] = "putting"
    PROVE  Drafted'
<1>1. \A p \in Proc : Unique(draft'[p])
      BY UniqueLess DEF Drafted
<1>2. \A p \in Proc : \A f \in draft'[p] : Built(f, facts')
      BY BuiltGrows DEF Drafted
<1>3. \A p \in Proc : pc'[p] = "putting" => IsFiniteSet(draft'[p])
      BY FS_Subset DEF Drafted
<1>. QED  BY <1>1, <1>2, <1>3 DEF Drafted

-------------------------------------------------------------------------------
LEMMA InitInv == Init => IInv
<1> SUFFICES ASSUME Init PROVE IInv
    OBVIOUS
<1> PICK w \in Scenario : facts = w.facts /\ jobs = w.jobs
    BY DEF Init
<1>1. Grown
      BY DEF Grown
<1>2. Unique(facts) /\ ReferencesResolve(facts) /\ IsFiniteSet(facts)
      BY GovernanceAssumption DEF Unique
<1>3. ASSUME NEW f \in facts PROVE Built(f, facts)
  <2>1. Resolved(f, facts)
        BY <1>2, ResolvedAll
  <2>2. f.kind = "outcome" => UsageOf(facts, f) # {}
        BY <2>1 DEF Resolved, UsageOf, About, Kind
  <2>. QED  BY <2>1, <2>2, GovernanceAssumption DEF Built
<1>4. Drafted
      BY DEF Init, Drafted, Unique
<1>. QED  BY <1>1, <1>2, <1>3, <1>4, GovernanceAssumption DEF Init, IInv, OneWriter, NoLateConflict

\* A command that begins has built a batch of its own, and read nothing else.
LEMMA BeginOk ==
    ASSUME IInv, NEW p \in Proc, NEW D, NEW at \in {"waiting", "putting"}, Begin(p, at, D),
           Unique(D), \A f \in D : Built(f, facts), at = "putting" => IsFiniteSet(D)
    PROVE  IInv'
<1>1. \A q \in Proc : draft'[q] = IF q = p THEN D ELSE draft[q]
      BY DEF Begin, IInv
<1>2. \A q \in Proc : pc'[q] = IF q = p THEN at ELSE pc[q]
      BY DEF Begin, IInv
<1>3. Drafted'
      BY <1>1, <1>2 DEF Begin, IInv, Drafted
<1>4. OneWriter' /\ NoLateConflict'
      BY <1>1 DEF Begin, IInv, OneWriter, NoLateConflict
<1>5. /\ Grown' /\ Unique(facts)' /\ IsFiniteSet(facts)' /\ (\A f \in facts : Built(f, facts))'
      /\ crashes' \in 0..MaxCrashes
      BY SameStore DEF Begin, IInv
<1>6. /\ pc' \in [Proc -> {"idle", "waiting", "writing", "putting"}]
      /\ draft' = [q \in Proc |-> draft'[q]]
      BY DEF Begin, IInv
<1>. QED  BY <1>3, <1>4, <1>5, <1>6 DEF IInv

\* The same for a command that puts one fact.
LEMMA PutOk ==
    ASSUME IInv, NEW p \in Proc, NEW f, Put(p, f), Resolved(f, facts), f.kind # "outcome",
           f.kind \in {"judgment", "event"} => f.at \in 1..MaxTime
    PROVE  IInv'
<1>1. Begin(p, "putting", {f}) /\ Built(f, facts)
      BY DEF Put, Built
<1>. QED  BY <1>1, BeginOk, UniqueOne, FS_Singleton

LEMMA StepInv == IInv /\ [Next]_vars => IInv'
<1> SUFFICES ASSUME IInv, [Next]_vars PROVE IInv'
    OBVIOUS
<1>0. ReferencesResolve(facts) /\ Grown
      BY Resolves DEF IInv
<1>1. ASSUME NEW p \in Proc, CaptureUsages(p) PROVE IInv'
      BY <1>0, <1>1, UsagesOk, BeginOk DEF CaptureUsages
<1>2. ASSUME NEW p \in Proc, CaptureOutcomes(p) PROVE IInv'
      BY <1>0, <1>2, OutcomesOk, BeginOk DEF CaptureOutcomes
<1>3. ASSUME NEW p \in Proc, CaptureEpisode(p) PROVE IInv'
      BY <1>3, PutOk DEF CaptureEpisode, Resolved
<1>4. ASSUME NEW p \in Proc, OverrideOutcome(p) PROVE IInv'
  <2>1. PICK j \in Job("override"), o \in Kind(facts, "outcome"), now \in Unused :
               Put(p, Override(o, j.new, now))
        BY <1>4 DEF OverrideOutcome
  <2>2. Stored(facts, o.ref) /\ now \in 1..MaxTime
        BY <1>0 DEF ReferencesResolve, Unused
  <2>3. LET f == Override(o, j.new, now)
        IN  f.kind = "judgment" /\ f.ref = o.ref /\ f.outcome = o.id /\ f.at = now
        BY DEF Override
  <2>. QED  BY <2>1, <2>2, <2>3, PutOk DEF Resolved
<1>5. ASSUME NEW p \in Proc, Govern(p) PROVE IInv'
      BY <1>5, PutOk DEF Govern, Resolved, Unused
<1>6. ASSUME NEW p \in Proc, Judge(p) PROVE IInv'
  <2>1. PICK j \in Job("judge"), now \in Unused, sup \in {None} \cup {k.at : k \in Kind(facts, "judgment")} :
               /\ Stored(facts, j.ref)
               /\ Put(p, [kind |-> "judgment", type |-> j.type, ref |-> j.ref, outcome |-> None,
                          new |-> None, status |-> j.status, at |-> now, sup |-> sup])
        BY <1>6 DEF Judge
  <2>2. j.type # "override" /\ now \in 1..MaxTime
        BY <1>0, GovernanceAssumption DEF Grown, Job, Unused
  <2>. QED  BY <2>1, <2>2, PutOk DEF Resolved
<1>7. ASSUME NEW p \in Proc, Revise(p) PROVE IInv'
  <2>1. PICK j \in Job("revise") : Put(p, j.rev)
        BY <1>7 DEF Revise
  <2>2. j.rev.kind = "revision"
        BY <1>0, GovernanceAssumption DEF Grown, Job
  <2>. QED  BY <2>1, <2>2, PutOk DEF Resolved
<1>8. ASSUME NEW p \in Proc, LockBatch(p) PROVE IInv'
  <2>1. /\ \A q \in Proc : draft'[q] \subseteq draft[q] /\ (pc'[q] = "putting" => pc[q] = "putting")
        /\ draft' = [q \in Proc |-> draft'[q]] /\ facts' = facts
        BY <1>8 DEF LockBatch, IInv
  <2>2. Drafted'
        BY <2>1, DraftsStay DEF IInv
  <2>3. OneWriter' /\ pc' \in [Proc -> {"idle", "waiting", "writing", "putting"}]
        BY <1>8, GovernanceAssumption DEF LockBatch, IInv, OneWriter
  <2>4. NoLateConflict'
        BY <1>8, GovernanceAssumption DEF LockBatch, IInv, OneWriter, NoLateConflict, Conflicts
  <2>5. /\ Grown' /\ Unique(facts)' /\ IsFiniteSet(facts)' /\ (\A f \in facts : Built(f, facts))'
        /\ crashes' \in 0..MaxCrashes
        BY <1>8, SameStore DEF LockBatch, IInv
  <2>. QED  BY <2>1, <2>2, <2>3, <2>4, <2>5 DEF IInv
<1>9. ASSUME NEW p \in Proc, WriteOne(p) PROVE IInv'
  <2>1. PICK f \in draft[p] : facts' = facts \cup {f} /\ draft' = [draft EXCEPT ![p] = @ \ {f}]
        BY <1>9 DEF WriteOne
  <2>2. ~ Conflicts(f, facts) /\ Built(f, facts) /\ Unique(draft[p])
        BY <1>9 DEF WriteOne, IInv, NoLateConflict, Drafted
  <2>3. /\ Grown' /\ Unique(facts') /\ IsFiniteSet(facts') /\ \A g \in facts' : Built(g, facts')
    <3> DEFINE D == {f}
    <3>1. Unique(D) /\ IsFiniteSet(D) /\ \A g \in D : Built(g, facts) /\ ~ Conflicts(g, facts)
          BY <2>2, UniqueOne, FS_Singleton
    <3>2. facts' = facts \cup D /\ jobs' = jobs
          BY <1>9, <2>1 DEF WriteOne
    <3> HIDE DEF D
    <3>. QED  BY <3>1, <3>2, StoreAdds
  <2>4. \A q \in Proc : /\ draft'[q] \subseteq draft[q] /\ (q # p => draft'[q] = draft[q])
                        /\ pc'[q] = "putting" => pc[q] = "putting"
        BY <1>9, <2>1 DEF WriteOne, IInv
  <2>5. Drafted'
        BY <2>1, <2>4, DraftsStay DEF IInv
  <2>6. OneWriter' /\ pc' \in [Proc -> {"idle", "waiting", "writing", "putting"}]
        BY <1>9, GovernanceAssumption DEF WriteOne, IInv, OneWriter
  <2>7. \A q \in Proc : pc[q] = "writing" => q = p
        BY <1>9 DEF WriteOne, IInv, OneWriter
  <2>8. \A q \in Proc : pc'[q] = "writing" => q = p
        BY <1>9, <2>7 DEF WriteOne, IInv
  <2>9. \A g \in draft[p] : ~ Conflicts(g, facts')
        BY <1>9, <2>1, <2>2 DEF WriteOne, IInv, NoLateConflict, Unique, Conflicts
  <2>10. NoLateConflict'
        BY <2>4, <2>8, <2>9 DEF NoLateConflict, Conflicts
  <2>11. draft' = [q \in Proc |-> draft'[q]] /\ crashes' \in 0..MaxCrashes
        BY <1>9, <2>1 DEF IInv, WriteOne
  <2>. QED  BY <2>3, <2>5, <2>6, <2>10, <2>11 DEF IInv
<1>10. ASSUME NEW p \in Proc, PutOne(p) PROVE IInv'
  <2> DEFINE new == {f \in draft[p] : ~ Conflicts(f, facts)}
  <2>1. /\ Unique(new) /\ IsFiniteSet(new)
        /\ \A f \in new : Built(f, facts) /\ ~ Conflicts(f, facts)
        BY <1>10, FS_Subset, UniqueLess DEF IInv, Drafted, PutOne
  <2>2. facts' = facts \cup new /\ jobs' = jobs
        BY <1>10 DEF PutOne
  <2> HIDE DEF new
  <2>3. /\ Grown' /\ Unique(facts') /\ IsFiniteSet(facts') /\ \A g \in facts' : Built(g, facts')
        BY <2>1, <2>2, StoreAdds
  <2>4. \A q \in Proc : draft'[q] \subseteq draft[q] /\ (pc'[q] = "putting" => pc[q] = "putting")
        BY <1>10 DEF PutOne, IInv
  <2>5. Drafted'
        BY <2>2, <2>4, DraftsStay DEF IInv
  <2>6. OneWriter' /\ pc' \in [Proc -> {"idle", "waiting", "writing", "putting"}]
        BY <1>10, GovernanceAssumption DEF PutOne, IInv, OneWriter
  <2>7. \A q \in Proc : pc'[q] # "writing"
        BY <1>10, GovernanceAssumption DEF PutOne, IInv, OneWriter
  <2>8. NoLateConflict' /\ draft' = [q \in Proc |-> draft'[q]] /\ crashes' \in 0..MaxCrashes
        BY <1>10, <2>7 DEF PutOne, IInv, NoLateConflict
  <2>. QED  BY <2>3, <2>5, <2>6, <2>8 DEF IInv
<1>11. ASSUME NEW p \in Proc, Crash(p) PROVE IInv'
  <2>1. \A q \in Proc : /\ draft'[q] \subseteq draft[q] /\ (q # p => draft'[q] = draft[q])
                        /\ pc'[q] = "putting" => pc[q] = "putting"
        BY <1>11 DEF Crash, IInv
  <2>2. Drafted'
        BY <1>11, <2>1, DraftsStay DEF Crash, IInv
  <2>3. OneWriter' /\ pc' \in [Proc -> {"idle", "waiting", "writing", "putting"}]
        BY <1>11, GovernanceAssumption DEF Crash, IInv, OneWriter
  <2>4. NoLateConflict' /\ draft' = [q \in Proc |-> draft'[q]]
        BY <1>11, <2>1 DEF Crash, IInv, NoLateConflict, Conflicts
  <2>5. /\ Grown' /\ Unique(facts)' /\ IsFiniteSet(facts)' /\ (\A f \in facts : Built(f, facts))'
        BY <1>11, SameStore DEF Crash
  <2>6. crashes' \in 0..MaxCrashes
        BY <1>11, GovernanceAssumption DEF Crash, IInv
  <2>. QED  BY <2>2, <2>3, <2>4, <2>5, <2>6 DEF IInv
<1>12. ASSUME UNCHANGED vars PROVE IInv'
  <2>1. /\ Grown' /\ Unique(facts)' /\ IsFiniteSet(facts)' /\ (\A f \in facts : Built(f, facts))'
        BY <1>12, SameStore DEF vars
  <2>2. Drafted' /\ OneWriter' /\ NoLateConflict' /\ draft' = [q \in Proc |-> draft'[q]]
        BY <1>12 DEF vars, IInv, Drafted, OneWriter, NoLateConflict, Conflicts
  <2>. QED  BY <1>12, <2>1, <2>2 DEF vars, IInv
<1>. QED  BY <1>1, <1>2, <1>3, <1>4, <1>5, <1>6, <1>7, <1>8, <1>9, <1>10, <1>11, <1>12 DEF Next

-------------------------------------------------------------------------------
(* What DeriveState computes of a finite set of facts *)

\* Of finitely many instants one is the newest: the set of those that are newer
\* shrinks strictly, and no chain of finite sets does so for ever.
LEMMA NewestIn ==
    ASSUME NEW S, IsFiniteSet(S), S # {}, \A x \in S : x.at \in Nat
    PROVE  Newest(S) \in S /\ \A y \in S : y.at <= Newest(S).at
<1> DEFINE Newer(x) == {y \in S : x.at < y.at}
           T == {Newer(x) : x \in S}
<1>1. T # {} /\ T \subseteq SUBSET S
      OBVIOUS
<1>2. IsWellFoundedOn(StrictSubsetOrdering(S), SUBSET S)
      BY FS_StrictSubsetOrderingWellFounded, FS_FiniteSubsetsOfFinite
<1>3. PICK s \in T : \A t \in T : <<t, s>> \notin StrictSubsetOrdering(S)
  <2> HIDE DEF T
  <2>. QED  BY <1>1, <1>2, WFMin
<1>4. PICK x \in S : s = Newer(x)
      OBVIOUS
<1>5. ASSUME NEW y \in S, ~ (y.at <= x.at) PROVE FALSE
  <2>1. y \in Newer(x) /\ y \notin Newer(y) /\ Newer(y) \in T
        BY <1>5
  <2>2. Newer(y) \subseteq Newer(x)
        BY <1>5
  <2>3. <<Newer(y), Newer(x)>> \in StrictSubsetOrdering(S)
        BY <2>1, <2>2 DEF StrictSubsetOrdering
  <2>. QED  BY <1>3, <1>4, <2>1, <2>3
<1>. QED  BY <1>5 DEF Newest

LEMMA SubsetCounted ==
    ASSUME NEW F, IsFiniteSet(F), NEW G, G \subseteq F
    PROVE  IsFiniteSet(G) /\ Cardinality(G) \in 0..Cardinality(F)
BY FS_Subset, FS_CardinalityType

\* Evidence is all facts but the events: nothing it says depends on them.
LEMMA SameEvidence ==
    ASSUME NEW F, NEW rev
    PROVE  EvidenceLifecycle(EvidenceOnly(F), rev) = EvidenceLifecycle(F, rev)
<1> DEFINE E == EvidenceOnly(F)
<1>1. \A k : k # "event" => Kind(E, k) = Kind(F, k)
      BY DEF EvidenceOnly, Kind
<1> HIDE DEF E
<1>2. \A k, ref : k # "event" => About(E, k, ref) = About(F, k, ref)
      BY <1>1 DEF About
<1>3. \A o : UsageOf(E, o) = UsageOf(F, o)
      BY <1>2 DEF UsageOf
<1>4. Superseded(E) = Superseded(F)
      BY <1>1 DEF Superseded
<1>5. \A o : EffectiveEffect(E, o) = EffectiveEffect(F, o)
  <2> DEFINE Live(J, sup, o) == {j \in J : /\ j.type = "override" /\ j.outcome = o.id
                                           /\ j.at \notin sup}
             Effective(live, o) == IF live = {} THEN o.effect ELSE Newest(live).new
  <2>1. \A G, o : EffectiveEffect(G, o) = Effective(Live(Kind(G, "judgment"), Superseded(G), o), o)
        BY DEF EffectiveEffect
  <2> HIDE DEF Live, Effective
  <2>. QED  BY <1>1, <1>4, <2>1
<1>6. \A ref : Attributed(E, ref) = Attributed(F, ref)
      BY <1>2, <1>3, <1>5 DEF Attributed
<1>7. \A ref : Helps(E, ref) = Helps(F, ref) /\ Harms(E, ref) = Harms(F, ref)
      BY <1>5, <1>6 DEF Helps, Harms
<1>8. \A ref : HelpEpisodes(E, ref) = HelpEpisodes(F, ref)
      BY <1>3, <1>7 DEF HelpEpisodes
<1>9. ByOutcomes(E, rev.ref) = ByOutcomes(F, rev.ref)
      BY <1>7, <1>8 DEF ByOutcomes
<1>10. ByConfirmation(E, rev) = ByConfirmation(F, rev)
      BY <1>1 DEF ByConfirmation, ConfirmationStatus
<1>. QED  BY <1>9, <1>10 DEF EvidenceLifecycle, E

\* Without events nobody governs.
LEMMA Ungoverned ==
    ASSUME NEW F, NEW ref
    PROVE  /\ ~ GovernanceState(EvidenceOnly(F), ref).archived
           /\ ~ GovernanceState(EvidenceOnly(F), ref).frozen
<1>1. About(EvidenceOnly(F), "event", ref) = {}
      BY DEF EvidenceOnly, About, Kind
<1>. QED  BY <1>1 DEF GovernanceState

LEMMA FreezeHolds ==
    ASSUME NEW F, NEW rev, Lifecycle(EvidenceOnly(F), rev) = "frozen"
    PROVE  Lifecycle(F, rev) \in {"frozen", "archived", "superseded"}
<1>1. Kind(EvidenceOnly(F), "revision") = Kind(F, "revision")
      BY DEF EvidenceOnly, Kind
<1>2. \A m : Revisions(EvidenceOnly(F), m) = Revisions(F, m)
      BY <1>1 DEF Revisions
<1>3. \A m : LatestOf(EvidenceOnly(F), m) = LatestOf(F, m)
      BY <1>2 DEF LatestOf
<1>4. \/ EvidenceLifecycle(EvidenceOnly(F), rev) = "frozen" /\ rev.ref[2] = LatestOf(F, rev.ref[1])
      \/ rev.ref[2] # LatestOf(F, rev.ref[1])
      BY <1>3, Ungoverned DEF Lifecycle
<1>. QED  BY <1>4, SameEvidence DEF Lifecycle

-------------------------------------------------------------------------------
(* The derived states of a store that is built so *)

\* The instants of judgments: the newest of some is one of them.
LEMMA NewestJudgment ==
    ASSUME IInv, NEW J, J \subseteq Kind(facts, "judgment"), J # {}
    PROVE  Newest(J) \in J
<1>1. \A j \in J : j \in facts /\ j.at \in 1..MaxTime
      BY DEF Kind, IInv, Built
<1>2. IsFiniteSet(J) /\ \A j \in J : j.at \in Nat
      BY <1>1, FS_Subset, GovernanceAssumption DEF IInv
<1>. QED  BY <1>2, NewestIn

\* The state of a revision is one that DerivedMemoryState allows.
LEMMA StatesOk == ASSUME IInv, NEW rev \in Kind(facts, "revision")
                  PROVE  StateOf(facts, rev, MaxTime) \in DerivedState(facts)
<1> DEFINE ref == rev.ref
<1>1. Lifecycle(facts, rev) \in Lifecycles
      BY DEF Lifecycle, EvidenceLifecycle, ByOutcomes, ByConfirmation, Lifecycles
<1>2. Health(facts, rev) \in {"healthy", "degraded"}
      BY DEF Health
<1>3. Freshness(facts, rev, MaxTime) \in {"fresh", "aging", "needs_revalidation"}
  <2> DEFINE judged == {j \in About(facts, "judgment", ref) :
                          j.type = "freshness" /\ j.at \notin Superseded(facts)}
  <2>1. judged \subseteq Kind(facts, "judgment") /\ \A j \in judged : j.type = "freshness" /\ j \in facts
        BY DEF About, Kind
  <2>2. \A j \in judged : j.status \in {"fresh", "aging", "needs_revalidation"}
        BY <2>1 DEF IInv, Built, Valid, ValidJudgment, Kind
  <2>3. judged # {} => Newest(judged).status \in {"fresh", "aging", "needs_revalidation"}
    <3> HIDE DEF judged
    <3>. QED  BY <2>1, <2>2, NewestJudgment
  <2>. QED  BY <2>3 DEF Freshness
<1>4. GovernanceState(facts, ref).pinned \in BOOLEAN
      BY DEF GovernanceState
<1>5. /\ About(facts, "usage", ref) \subseteq facts
      /\ Helps(facts, ref) \subseteq facts /\ Harms(facts, ref) \subseteq facts
      BY DEF About, Kind, Helps, Harms, Attributed
<1>6. /\ Cardinality(About(facts, "usage", ref)) \in 0..Cardinality(facts)
      /\ Cardinality(Helps(facts, ref)) \in 0..Cardinality(facts)
      /\ Cardinality(Harms(facts, ref)) \in 0..Cardinality(facts)
      BY <1>5, SubsetCounted DEF IInv
<1>7. UsageStats(facts, ref) \in [count : 0..Cardinality(facts), helps : 0..Cardinality(facts),
                                  harms : 0..Cardinality(facts), insufficient : BOOLEAN]
      BY <1>6 DEF UsageStats
<1>. QED  BY <1>1, <1>2, <1>3, <1>4, <1>7 DEF StateOf, DerivedState

\* A verified harm weighs on the health for ever, and on the lifecycle until
\* each of the verified harms is overridden.
LEMMA HarmWeighs == IInv => HarmRemembered
<1> SUFFICES ASSUME IInv, NEW o \in Kind(facts, "outcome"), VerifiedHarm(o),
                    NEW rev \in About(facts, "revision", o.ref)
             PROVE  /\ Health(facts, rev) = "degraded"
                    /\ Policy[o.ref[1]] = "outcome_attributed" /\ Lifecycle(facts, rev) = "active"
                          => \E k \in OverridesOf(o) : k.new # "harmed"
    BY DEF HarmRemembered
<1>1. rev.ref = o.ref /\ o \in About(facts, "outcome", o.ref)
      BY DEF About
<1>2. Health(facts, rev) = "degraded"
      BY <1>1 DEF Health, HarmSeen, VerifiedHarm
<1>3. ASSUME Policy[o.ref[1]] = "outcome_attributed", Lifecycle(facts, rev) = "active"
      PROVE  \E k \in OverridesOf(o) : k.new # "harmed"
  <2>1. ByOutcomes(facts, o.ref) = "active"
        BY <1>1, <1>3 DEF Lifecycle, EvidenceLifecycle
  <2>2. ~ (Cardinality(Harms(facts, o.ref)) >= 1)
        BY <2>1 DEF ByOutcomes
  <2>3. Harms(facts, o.ref) \subseteq facts
        BY DEF Harms, Attributed, About, Kind
  <2>4. Harms(facts, o.ref) = {}
        BY <2>2, <2>3, SubsetCounted, FS_EmptySet DEF IInv
  <2>5. EffectiveEffect(facts, o) # "harmed"
        BY <2>4, <1>1 DEF Harms, Attributed, VerifiedHarm
  <2> DEFINE live == {j \in Kind(facts, "judgment") : /\ j.type = "override" /\ j.outcome = o.id
                                                      /\ j.at \notin Superseded(facts)}
  <2>6. live # {} /\ Newest(live).new # "harmed"
        BY <2>5 DEF EffectiveEffect, VerifiedHarm
  <2>7. live \subseteq OverridesOf(o) /\ live \subseteq Kind(facts, "judgment")
        BY DEF OverridesOf
  <2>8. Newest(live) \in live
    <3> HIDE DEF live
    <3>. QED  BY <2>6, <2>7, NewestJudgment
  <2>. QED  BY <2>6, <2>7, <2>8
<1>. QED  BY <1>2, <1>3

\* The usage of an outcome is one, and says which task and context it is from.
LEMMA OneUsage ==
    ASSUME IInv, NEW o \in Kind(facts, "outcome")
    PROVE  \E u \in facts : /\ UsageOf(facts, o) = {u}
                            /\ o.id = <<Episode[u.ep].task, o.ref, Episode[u.ep].ctx>>
<1>1. PICK u \in UsageOf(facts, o) : o.id = <<Episode[u.ep].task, u.ref, Episode[u.ep].ctx>>
      BY DEF IInv, Built, Kind
<1>2. u \in facts /\ u.kind = "usage" /\ u.ref = o.ref /\ u.id = o.usage
      BY DEF UsageOf, About, Kind
<1>3. ASSUME NEW v \in UsageOf(facts, o) PROVE v = u
  <2>1. v \in facts /\ v.kind = "usage" /\ v.id = o.usage
        BY DEF UsageOf, About, Kind
  <2>2. Identity(u) = Identity(v)
        BY <1>2, <2>1 DEF Identity
  <2>. QED  BY <1>2, <2>1, <2>2 DEF IInv, Unique, Conflicts
<1>. QED  BY <1>1, <1>2, <1>3

\* Three helps of one revision are helps of three contexts.
LEMMA HelpsEarn == IInv => ActiveEarned
<1> SUFFICES ASSUME IInv, NEW rev \in Selected(facts, 0),
                    Policy[rev.ref[1]] = "outcome_attributed", Lifecycle(facts, rev) = "active"
             PROVE  LET helps == {o \in About(facts, "outcome", rev.ref) : CountsAsHelp(o)}
                    IN  /\ Cardinality(UNION {Context(o) : o \in helps}) >= 3
                        /\ Cardinality(UNION {{u.ep : u \in UsageOf(facts, o)} : o \in helps}) >= 2
    BY DEF ActiveEarned
<1> DEFINE H == Helps(facts, rev.ref)
           helps == {o \in About(facts, "outcome", rev.ref) : CountsAsHelp(o)}
           ctxs == UNION {Context(o) : o \in helps}
           eps == UNION {{u.ep : u \in UsageOf(facts, o)} : o \in helps}
           Of(o) == CHOOSE u \in facts : UsageOf(facts, o) = {u}
<1>1. ByOutcomes(facts, rev.ref) = "active"
      BY DEF Lifecycle, EvidenceLifecycle
<1>2. Cardinality(H) >= 3 /\ Cardinality(HelpEpisodes(facts, rev.ref)) >= 2
      BY <1>1 DEF ByOutcomes, HelpsToActivate, EpisodesToActivate
<1>3. H \subseteq helps /\ helps \subseteq facts /\ \A o \in helps : o.ref = rev.ref /\ o \in Kind(facts, "outcome")
      BY DEF Helps, Attributed, About, Kind, CountsAsHelp
<1>4. ASSUME NEW o \in helps
      PROVE  /\ Of(o) \in facts /\ UsageOf(facts, o) = {Of(o)}
             /\ Context(o) = {<<Episode[Of(o).ep].task, Episode[Of(o).ep].ctx>>}
             /\ o.id = <<Episode[Of(o).ep].task, o.ref, Episode[Of(o).ep].ctx>>
  <2>1. PICK u \in facts : /\ UsageOf(facts, o) = {u}
                           /\ o.id = <<Episode[u.ep].task, o.ref, Episode[u.ep].ctx>>
        BY <1>3, OneUsage
  <2>2. Of(o) \in facts /\ UsageOf(facts, o) = {Of(o)}
        BY <2>1
  <2>3. Of(o) = u
        BY <2>1, <2>2
  <2> HIDE DEF Of
  <2>. QED  BY <2>1, <2>2, <2>3 DEF Context
<1> DEFINE ctx == [o \in helps |-> <<Episode[Of(o).ep].task, Episode[Of(o).ep].ctx>>]
           ep == [o \in helps |-> Of(o).ep]
<1> HIDE DEF Of
<1>5. ctxs = {ctx[o] : o \in helps} /\ eps = {ep[o] : o \in helps}
      BY <1>4
<1>6. \A o, p \in helps : ctx[o] = ctx[p] => o = p
  <2> SUFFICES ASSUME NEW o \in helps, NEW p \in helps, ctx[o] = ctx[p] PROVE o = p
      OBVIOUS
  <2>1. o.id = p.id /\ o.kind = "outcome" /\ p.kind = "outcome" /\ o \in facts /\ p \in facts
        BY <1>3, <1>4 DEF Kind
  <2>. QED  BY <2>1 DEF IInv, Unique, Conflicts, Identity
<1>7. IsFiniteSet(helps) /\ IsFiniteSet(H)
      BY <1>3, FS_Subset DEF IInv
<1>8. HelpEpisodes(facts, rev.ref) \subseteq eps
      BY <1>3 DEF HelpEpisodes
<1> HIDE DEF H, helps
<1>9. IsFiniteSet(ctxs) /\ IsFiniteSet(eps)
  <2>1. ctx \in Surjection(helps, ctxs) /\ ep \in Surjection(helps, eps)
        BY <1>5 DEF Surjection
  <2> HIDE DEF ctx, ep, ctxs, eps
  <2>. QED  BY <1>7, <2>1, FS_Surjection
<1>10. ctx \in Injection(helps, ctxs)
      BY <1>5, <1>6 DEF Injection, IsInjective
<1> HIDE DEF ctx, ep, ctxs, eps
<1>11. /\ Cardinality(helps) <= Cardinality(ctxs) /\ Cardinality(H) <= Cardinality(helps)
       /\ Cardinality(HelpEpisodes(facts, rev.ref)) <= Cardinality(eps)
       BY <1>3, <1>7, <1>8, <1>9, <1>10, FS_Injection, FS_Subset
<1>12. /\ Cardinality(helps) \in Nat /\ Cardinality(ctxs) \in Nat /\ Cardinality(H) \in Nat
       /\ Cardinality(eps) \in Nat /\ Cardinality(HelpEpisodes(facts, rev.ref)) \in Nat
       BY <1>7, <1>8, <1>9, FS_Subset, FS_CardinalityType
<1>13. Cardinality(ctxs) >= 3 /\ Cardinality(eps) >= 2
       BY <1>2, <1>11, <1>12
<1>. QED  BY <1>13 DEF ctxs, eps, helps

-------------------------------------------------------------------------------
(* What the proofs establish *)

THEOREM Invariant == Spec => []IInv
BY InitInv, StepInv, PTL DEF Spec

\* Commands race and die inside batches; every fact stays valid and unique,
\* validateDerivedReferences accepts the store, and every derivation of it gives
\* a state that DerivedMemoryState allows.
THEOREM AlwaysDerivable == Spec => []Derivable
<1>1. IInv => Derivable
  <2> SUFFICES ASSUME IInv PROVE Derivable
      OBVIOUS
  <2>1. \A f \in facts : Valid(f) /\ ~ Conflicts(f, facts)
        BY DEF IInv, Built, Unique
  <2>2. \A p \in Proc : /\ pc[p] \in {"idle", "waiting", "writing", "putting"}
                        /\ (pc[p] = "writing") = (lock = p)
                        /\ \A f \in draft[p] : Valid(f)
        BY DEF IInv, OneWriter, Drafted, Built
  <2>3. DerivedStates(facts, 0, MaxTime) \subseteq DerivedState(facts)
        BY StatesOk DEF DerivedStates, Selected
  <2>. QED  BY <2>1, <2>2, <2>3, Resolves DEF Derivable, TypeOK, IInv
<1>. QED  BY <1>1, Invariant, PTL

\* CommitMemoryUsages and CommitOutcomes: conflicts are met before the first write.
THEOREM AlwaysBefore == Spec => []NoLateConflict
<1>1. IInv => NoLateConflict
      BY DEF IInv
<1>. QED  BY <1>1, Invariant, PTL

\* deriveLifecycle: an active revision has helped in three task contexts and two
\* episodes, however often the receipts of a task were retried.
THEOREM AlwaysEarned == Spec => []ActiveEarned
BY HelpsEarn, Invariant, PTL

\* hasHarmedOutcome and deriveLifecycle: no capture, override or governance
\* event takes a verified harm out of the health of its revision.
THEOREM HarmNeverForgotten == Spec => []HarmRemembered
BY HarmWeighs, Invariant, PTL

\* CommitGovernanceEvent: whatever events are written, and whenever they were
\* judged, a revision that its evidence freezes is not in use.
THEOREM FrozenByEvidence == Spec => []EvidenceFreezeHolds
<1>1. EvidenceFreezeHolds
      BY FreezeHolds DEF EvidenceFreezeHolds
<1>. QED  BY <1>1, PTL

===============================================================================
