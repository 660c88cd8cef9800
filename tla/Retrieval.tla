------------------------------- MODULE Retrieval -------------------------------
(***************************************************************************)
(* The worlds that retrievals read: generations compiled from facts and    *)
(* published, and the retrievals that pin them. While a retrieval works    *)
(* with its pin, facts arrive, memories are frozen or superseded, CURRENT  *)
(* moves on, and an old generation may be cleaned up from the disk; its    *)
(* input manifest, a fact, stays, and the world may be rebuilt from it.    *)
(*                                                                         *)
(* There are two stores, of the project and global. How a generation gets  *)
(* published whole or not at all is GenerationStore's subject: here it is  *)
(* one step, which needs CURRENT to be what the publisher began from.      *)
(* Instants are inputs: every command takes its time from the caller.      *)
(***************************************************************************)
EXTENDS DerivedState, IndexTree

CONSTANTS
    ScopeOf,       \* store of each memory
    Tie,           \* the order of the tie keys of the memories
    Proc, Reader, Unread,
    Scenario,      \* [facts, later (by store), requests, receipts]
    MaxGenerations, MaxCleaned

Scopes == <<"project", "global">>
Store == {"project", "global"}

(***************************************************************************)
(* A world that a scenario gives. What a file names by a content hash is   *)
(* one thing: a revision is one fact, and no two reviews of a store, and   *)
(* no two judgments of retrievals, have the same name. Nothing is there    *)
(* yet that refers to a generation.                                        *)
(***************************************************************************)
OneFact(F) ==
    \A f, g \in F : /\ f.kind = g.kind
                   /\ \/ f.kind = "revision" /\ f.ref = g.ref
                      \/ f.kind \in {"judgment", "relevance"} /\ f.at = g.at
                   => f = g

WellFormed(f) ==
    /\ f.at \in Nat
    /\ f.kind = "revision" => f.ref \in Memory \X Nat
    /\ f.kind = "judgment" => /\ "sup" \in DOMAIN f
                              /\ f.type = "conflict" => f.against \subseteq Memory \X Nat

WorldOK(w) ==
    /\ w.facts = [s \in Store |-> w.facts[s]] /\ w.later = [s \in Store |-> w.later[s]]
    /\ \A s \in Store :
        /\ w.facts[s] \cap w.later[s] = {}
        /\ IsFiniteSet(w.facts[s] \cup w.later[s])
        /\ OneFact(w.facts[s] \cup w.later[s])
        /\ \A f \in w.facts[s] \cup w.later[s] : WellFormed(f)
        /\ \A f \in w.facts[s] :
            /\ "ctx" \in DOMAIN f => \A t \in Store : f.ctx[t] = None
            /\ "sup" \in DOMAIN f => f.sup = None \/ \E j \in Kind(w.facts[s], "judgment") : j.at = f.sup
    /\ \A r \in w.requests :
        r.store \in Store /\ r.revs \subseteq Memory \X Nat /\ IsFiniteSet(r.revs)
    /\ \A rc \in w.receipts : {rc.recommended, rc.optional} \subseteq Seq([ref : Memory \X Nat, rank : Nat])

ASSUME RetrievalAssumption ==
    /\ Memory \subseteq DOMAIN IdOf /\ ScopeOf \in [Memory -> Store]
    /\ Unread # None /\ Unread \notin Nat /\ None \notin Nat
    /\ \A w \in Scenario : WorldOK(w)

VARIABLES
    facts,         \* of each store
    later,         \* facts still to come, of each store
    requests,      \* what publishers and readers of this world may ask
    receipts,
    gens,          \* generations published in each store, oldest first
    current,       \* CURRENT of each store; 0 is none
    cleaned,       \* generations no longer on disk
    pub,           \* what each publisher is doing
    pin,           \* the generations each reader has pinned
    accepted       \* receipts accepted for each reader

vars == <<facts, later, requests, receipts, gens, current, cleaned, pub, pin, accepted>>

(***************************************************************************)
(* CompileOKF. A request names the revisions, one evidence generation for  *)
(* each, an instant, and the facts to derive from (or, with None, takes    *)
(* those that the store holds at this moment).                             *)
(***************************************************************************)
EvidenceOf(E, ref) == {e \in E : e.ref = ref}

ExactInputs(s, revs, evidence) ==
    /\ evidence \subseteq Kind(facts[s], "evidence")
    /\ \A ref \in revs : Stored(facts[s], ref) /\ Cardinality(EvidenceOf(evidence, ref)) = 1
    /\ \A e \in evidence : e.ref \in revs

RevisionFact(F, ref) == CHOOSE f \in About(F, "revision", ref) : TRUE

Entry(st) == [ref |-> st.ref, lifecycle |-> st.lifecycle, health |-> st.health,
              freshness |-> st.freshness, pinned |-> st.pinned]

Count(states, lifecycle) == Cardinality({st \in states : st.lifecycle = lifecycle})

\* Frozen and archived memories are counted only; superseded ones are entries.
IndexOf(states) ==
    CompileIndexTree({Entry(st) : st \in {x \in states : x.lifecycle \notin {"frozen", "archived"}}})

States(F, revs, time) == {StateOf(F, RevisionFact(F, ref), time) : ref \in revs}
RelationsClosed(F, revs) == \A ref \in revs : RevisionFact(F, ref).relates \subseteq revs

Output(F, revs, evidence, time) ==
    LET states == States(F, revs, time)
    IN  [index |-> IndexOf(states), frozen |-> Count(states, "frozen"),
         archived |-> Count(states, "archived"), revs |-> revs, evidence |-> evidence]

DerivationFacts(r) == IF r.from = None THEN facts[r.store] ELSE r.from

Compiles(r) ==
    LET F == DerivationFacts(r)
    IN  /\ ExactInputs(r.store, r.revs, r.evidence)
        /\ F \subseteq facts[r.store]
        /\ ReferencesResolve(F)
        /\ \A ref \in r.revs : Stored(F, ref)
        /\ IndexOf(States(F, r.revs, r.time)) # {}
        /\ RelationsClosed(F, r.revs)

\* The manifest has one list: what is shown and what was derived from.
ManifestInputs(r) ==
    r.evidence \cup {RevisionFact(facts[r.store], ref) : ref \in r.revs} \cup DerivationFacts(r)

(***************************************************************************)
(* rebuildFromManifest: a generation that is gone is compiled again from   *)
(* its manifest. Every revision and every evidence generation there counts *)
(* as one that was shown, the instant is that of the publication, and the  *)
(* output must be the same. All this depends on facts of the manifest      *)
(* only, which stay: it is computed once, with the generation.             *)
(***************************************************************************)
Rebuild(r, inputs, out) ==
    LET revs == {f.ref : f \in Kind(inputs, "revision")}
        evidence == Kind(inputs, "evidence")
    IN  IF ~ ExactInputs(r.store, revs, evidence) THEN "unavailable"
        ELSE IF ~ ReferencesResolve(inputs)
                \/ IndexOf(States(inputs, revs, r.created)) = {} THEN "refused"
        ELSE IF ~ RelationsClosed(inputs, revs) THEN "unavailable"
        ELSE IF Output(inputs, revs, evidence, r.created) # out THEN "refused"
        ELSE "available"

Compiled(r) ==
    LET F == DerivationFacts(r)
        out == Output(F, r.revs, r.evidence, r.time)
    IN  [req |-> r, inputs |-> ManifestInputs(r), created |-> r.created, out |-> out,
         states |-> States(F, r.revs, r.time), again |-> Rebuild(r, ManifestInputs(r), out)]

(***************************************************************************)
(* PublishIndexGeneration: begin, compile, commit.                         *)
(***************************************************************************)
Idle == [step |-> "idle"]

Begin(p, r) ==
    /\ pub[p] = Idle
    /\ \A s \in Store : \A i \in 1..Len(gens[s]) : gens[s][i].req # r
    /\ \A q \in Proc : pub[q].step # "idle" => pub[q].req # r
    /\ pub' = [pub EXCEPT ![p] = [step |-> "begun", req |-> r, base |-> current[r.store]]]
    /\ UNCHANGED <<facts, later, requests, receipts, gens, current, cleaned, pin, accepted>>

Compile(p) ==
    /\ pub[p].step = "begun"
    /\ pub' = [pub EXCEPT ![p] = IF Compiles(pub[p].req)
                                 THEN [step |-> "staged", req |-> pub[p].req, base |-> pub[p].base,
                                       gen |-> Compiled(pub[p].req)]
                                 ELSE Idle]
    /\ UNCHANGED <<facts, later, requests, receipts, gens, current, cleaned, pin, accepted>>

Commit(p) ==
    LET s == pub[p].req.store
    IN  /\ pub[p].step = "staged"
        /\ IF current[s] = pub[p].base /\ Len(gens[s]) < MaxGenerations
           THEN /\ gens' = [gens EXCEPT ![s] = Append(@, pub[p].gen)]
                /\ current' = [current EXCEPT ![s] = Len(gens[s]) + 1]
           ELSE UNCHANGED <<gens, current>>
        /\ pub' = [pub EXCEPT ![p] = Idle]
        /\ UNCHANGED <<facts, later, requests, receipts, cleaned, pin, accepted>>

(***************************************************************************)
(* The environment: facts are put, and published generations removed. What *)
(* refers to a generation, or to a judgment that it supersedes, carries a  *)
(* hash of it and so comes after it.                                       *)
(***************************************************************************)
Timely(s, f) ==
    /\ "ctx" \in DOMAIN f => \A t \in Store : f.ctx[t] = None \/ f.ctx[t] \in 1..Len(gens[t])
    /\ "sup" \in DOMAIN f => f.sup = None \/ \E j \in Kind(facts[s], "judgment") : j.at = f.sup

Put(s, f) ==
    /\ f \in later[s] /\ Timely(s, f)
    /\ facts' = [facts EXCEPT ![s] = @ \cup {f}]
    /\ later' = [later EXCEPT ![s] = @ \ {f}]
    /\ UNCHANGED <<requests, receipts, gens, current, cleaned, pub, pin, accepted>>

CleanUp(s, g) ==
    /\ g \in 1..Len(gens[s]) \ cleaned[s]
    /\ Cardinality(cleaned["project"]) + Cardinality(cleaned["global"]) < MaxCleaned
    /\ cleaned' = [cleaned EXCEPT ![s] = @ \cup {g}]
    /\ UNCHANGED <<facts, later, requests, receipts, gens, current, pub, pin, accepted>>

(***************************************************************************)
(* BuildRetrievalContext reads CURRENT of the project, then of the global  *)
(* store. A side without a generation, or whose directory is gone, stays   *)
(* empty; a broken one refuses. The instant, which a generation must not   *)
(* be dated after, is taken late enough.                                   *)
(***************************************************************************)
NoPin == [s \in Store |-> Unread]
InPlace(s, g) == g \in 1..Len(gens[s]) \ cleaned[s]

IndexTreeOf(s, g) ==
    IF g # None /\ InPlace(s, g) /\ ValidIndexTree(gens[s][g].out.index)
    THEN gens[s][g].out.index ELSE {}

PinScope(r, i) ==
    LET s == Scopes[i]
        g == current[s]
    IN  /\ pin[r][s] = Unread
        /\ i = 2 => pin[r][Scopes[1]] # Unread
        /\ pin' = [pin EXCEPT ![r] = IF g = 0 \/ ~ InPlace(s, g) THEN [@ EXCEPT ![s] = None]
                                     ELSE IF IndexTreeOf(s, g) # {} THEN [@ EXCEPT ![s] = g]
                                     ELSE NoPin]
        /\ UNCHANGED <<facts, later, requests, receipts, gens, current, cleaned, pub, accepted>>

Pinned(r) == \A s \in Store : pin[r][s] # Unread

(***************************************************************************)
(* ValidateLibrarianReceiptForRequest: the candidates a receipt recommends *)
(* or offers must be in the pinned index and in its order.                 *)
(***************************************************************************)
Hidden == {"frozen", "archived", "superseded"}
Fresh == <<"fresh", "aging", "needs_revalidation">>
RankIn(order, x) == CHOOSE i \in 1..Len(order) : order[i] = x

\* Mutant: whatever the index holds can be resolved.
EntriesForAny(trees, ref) == {e \in UNION {p.entries : p \in trees[ScopeOf[ref[1]]]} : e.ref = ref}

EntriesFor(trees, ref) ==
    {e \in UNION {p.entries : p \in trees[ScopeOf[ref[1]]]} : e.ref = ref /\ e.lifecycle \notin Hidden}

ScopeRank(e) ==
    LET global == ScopeOf[e.ref[1]] = "global"
    IN  CASE e.pinned -> IF global THEN 2 ELSE 0
          [] ~ e.pinned /\ e.lifecycle = "active" -> IF global THEN 3 ELSE 1
          [] OTHER -> IF global THEN 5 ELSE 4

\* Relevance, explicit mention, scope, health, freshness, tie key.
SortKey(c, trees, explicit) ==
    LET e == CHOOSE x \in EntriesFor(trees, c.ref) : TRUE
    IN  <<c.rank, IF c.ref \in explicit THEN 0 ELSE 1, ScopeRank(e),
          RankIn(<<"healthy", "degraded">>, e.health), RankIn(Fresh, e.freshness), Tie[c.ref[1]]>>

Before(k, l) == \E i \in 1..Len(k) : k[i] < l[i] /\ \A j \in 1..(i - 1) : k[j] = l[j]

Ordered(group, trees, explicit) ==
    \A i, j \in 1..Len(group) : i < j =>
        ~ Before(SortKey(group[j], trees, explicit), SortKey(group[i], trees, explicit))

RanksWithoutGaps(group) ==
    \A i \in 1..Len(group) :
        \E top \in {0} \cup {group[j].rank : j \in 1..(i - 1)} :
            group[i].rank \in 1..(top + 1) /\ \A j \in 1..(i - 1) : group[j].rank <= top

Named(rc) == rc.recommended \o rc.optional
Refs(group) == {group[i].ref : i \in 1..Len(group)}

ReceiptValid(rc, trees) ==
    LET all == Named(rc)
    IN  /\ (rc.status = "found") = (all # <<>>)
        /\ Refs(all) \cap rc.excluded = {}
        /\ \A i, j \in 1..Len(all) : all[i].ref = all[j].ref => i = j
        /\ \A ref \in Refs(all) : EntriesFor(trees, ref) # {}
        /\ \A ref \in Refs(rc.recommended) :
            \A e \in EntriesFor(trees, ref) : e.freshness # "needs_revalidation"
        /\ \A group \in {rc.recommended, rc.optional} :
            RanksWithoutGaps(group) /\ Ordered(group, trees, rc.explicit)
        /\ \A c \in rc.conflicts :
            /\ EntriesFor(trees, c.project) # {} /\ EntriesFor(trees, c.global) # {}
            /\ {c.project, c.global} \cap Refs(all) = {}
            /\ \A d \in rc.conflicts : c # d => c.project # d.project /\ c.global # d.global

\* LibrarianRequest.Validate: its references are distinct, of pinned scopes.
RequestValid(r, rc) ==
    /\ rc.explicit \cap rc.excluded = {}
    /\ \A ref \in rc.explicit \cup rc.excluded : pin[r][ScopeOf[ref[1]]] # None

Accept(r, rc) ==
    /\ Pinned(r) /\ rc \notin accepted[r]
    /\ RequestValid(r, rc)
    /\ ReceiptValid(rc, [s \in Store |-> IndexTreeOf(s, pin[r][s])])
    /\ accepted' = [accepted EXCEPT ![r] = @ \cup {rc}]
    /\ UNCHANGED <<facts, later, requests, receipts, gens, current, cleaned, pub, pin>>

(***************************************************************************)
(* The specification.                                                      *)
(***************************************************************************)
Init ==
    \E w \in Scenario :
        /\ facts = w.facts /\ later = w.later
        /\ requests = w.requests /\ receipts = w.receipts
        /\ gens = [s \in Store |-> <<>>] /\ current = [s \in Store |-> 0]
        /\ cleaned = [s \in Store |-> {}]
        /\ pub = [p \in Proc |-> Idle]
        /\ pin = [r \in Reader |-> NoPin] /\ accepted = [r \in Reader |-> {}]

Next ==
    \/ \E p \in Proc : (\E r \in requests : Begin(p, r)) \/ Compile(p) \/ Commit(p)
    \/ \E s \in Store : \E f \in later[s] : Put(s, f)
    \/ \E s \in Store : \E g \in 1..MaxGenerations : CleanUp(s, g)
    \/ \E r \in Reader : (\E i \in {1, 2} : PinScope(r, i)) \/ \E rc \in receipts : Accept(r, rc)

Spec == Init /\ [][Next]_vars

(***************************************************************************)
(* Properties.                                                             *)
(***************************************************************************)
TypeOK ==
    /\ \A s \in Store :
        /\ current[s] \in 0..Len(gens[s]) /\ cleaned[s] \subseteq 1..Len(gens[s])
        /\ facts[s] \cap later[s] = {}
        /\ \A i \in 1..Len(gens[s]) :
            gens[s][i].inputs \subseteq facts[s] /\ gens[s][i].states \subseteq DerivedState(facts[s])
    /\ \A p \in Proc : pub[p].step \in {"idle", "begun", "staged"}
    /\ \A r \in Reader : \A s \in Store : pin[r][s] \in {Unread, None} \cup 1..Len(gens[s])

\* What an accepted receipt names was a memory that the reader's pinned
\* generation derived as usable, whatever became of CURRENT or of the memory
\* since: not frozen, archived or superseded there, and fresh enough if it is
\* recommended. The index does hold superseded entries; only the lookup hides
\* them (indexEntryMatchesRef, findCandidateEntry).
ReceiptEarned ==
    \A r \in Reader : \A rc \in accepted[r] : \A ref \in Refs(Named(rc)) :
        LET s == ScopeOf[ref[1]]
        IN  \E st \in gens[s][pin[r][s]].states :
                /\ st.ref = ref /\ st.lifecycle \notin Hidden
                /\ ref \in Refs(rc.recommended) => st.freshness # "needs_revalidation"

\* Every memory of a published generation that is neither frozen nor archived
\* is on exactly one page of its index, every page is reached from the root by
\* routes of matching counts, and none is larger or deeper than the policy
\* allows (compileIndexNode, validateIndexTree).
EntriesRoutable ==
    \A s \in Store : \A g \in 1..Len(gens[s]) :
        LET tree == gens[s][g].out.index
            shown == {Entry(st) : st \in {x \in gens[s][g].states :
                                             x.lifecycle \notin {"frozen", "archived"}}}
        IN  /\ ValidIndexTree(tree)
            /\ \A page \in tree : Len(page.path) <= MaxShardDepth
            /\ \A e \in shown : Cardinality({page \in tree : e \in page.entries}) = 1

=================================================================================
