--------------------------- MODULE CurationProofs ---------------------------
(* Revising, splitting and promoting, proved for any stores, memories and     *)
(* requests, any callers and any number of deaths and failing writes. Sources *)
(* are read without a lock and a failing batch removes facts that others may  *)
(* have read. So the proof rests on two things that are never lost, whatever  *)
(* is removed: that a source was seen (Seen), and the facts that no batch     *)
(* will remove any more (Settled).                                            *)
EXTENDS Curation, TLAPS

\* A revision is stored, or a call has created it and it was removed again.
Seen(s, ref) ==
    \/ Stored(s, ref)
    \/ \E m \in made : Where(m[1]) = s /\ m[2].kind = "revision" /\ Ref(m[2]) = ref

\* What the application of a request has checked, as far as it stays true.
Checked(r) ==
    /\ r.op = "revise" => BuildRevision(r) /\ Seen(r.store, r.source)
    /\ r.op = "split" => \A t, u \in r.targets : t.mem = u.mem => t = u
    /\ r.op \in {"generalize", "promote", "candidate", "publish"} =>
          \A ref \in Refs(r) : \E s \in Project : Seen(s, ref)
    /\ r.op \in {"generalize", "candidate", "publish"} => r.target.from = Refs(r)
    /\ r.op \in {"candidate", "publish"} =>
          /\ r.candidate.status = "eligible" /\ Refs(r) = r.candidate.sources
          /\ Cardinality({s.family : s \in r.sources}) >= FamiliesToPromote

Holding == {"writing", "begun", "built"}
HoldersLock ==
    \A p \in Proc, s \in Store :
        lock[s] = p <=> pc[p] \in Holding /\ Where(work[p]) = s

OneOfAnIdentity ==
    \A s \in Store : \A f, g \in facts[s] : SameIdentity(f, g) => f = g

\* What each caller works on, by its place.
Working ==
    \A p \in Proc :
        /\ pc[p] # "idle" => work[p] \in requests
        /\ pc[p] \in {"putting", "writing"} => left[p] \subseteq Targets(work[p])
        /\ pc[p] = "putting" => Targets(work[p]) \subseteq left[p]
        /\ pc[p] \in {"putting", "writing", "built"} => Checked(work[p])
        /\ pc[p] \in {"begun", "built"} => work[p].op = "publish"
        /\ pc[p] = "built" => work[p].target \in facts[Global]
        /\ pc[p] # "writing" => wrote[p] = {}

\* A batch between its lock and its end: what it has to write is missing and
\* conflicts with nothing, what it may have to remove is its own.
Batching ==
    \A p \in Proc : pc[p] = "writing" =>
        LET s == Where(work[p])
        IN  /\ left[p] \cap facts[s] = {}
            /\ \A t \in left[p], g \in facts[s] : ~ SameIdentity(t, g)
            /\ wrote[p] \subseteq Targets(work[p]) \cap facts[s]
            /\ Targets(work[p]) \subseteq left[p] \cup facts[s]
            /\ \A f \in wrote[p] : <<work[p], f>> \in made

\* What was created was asked for by a checked request.
MadeChecked == \A m \in made : m[2] \in Targets(m[1]) /\ Checked(m[1])

\* SplitWhole for every kind of application.
Whole(s, f) ==
    \E k \in made : /\ Where(k[1]) = s
                    /\ f \in Targets(k[1]) /\ Targets(k[1]) \subseteq Settled(s)
AllWhole ==
    deaths = 0 => \A m \in made :
        m[2] \in Settled(Where(m[1])) => Whole(Where(m[1]), m[2])

\* What a global generation publishes is there to stay.
PublishedSettled ==
    \A c \in published :
        /\ c \in Settled(Global) /\ c.status = "eligible"
        /\ \E rev \in Settled(Global) : rev.kind = "revision" /\ rev.from = c.sources

IInv == /\ TypeOK /\ HoldersLock /\ OneOfAnIdentity /\ Working /\ Batching
        /\ MadeChecked /\ AllWhole /\ PublishedSettled

-----------------------------------------------------------------------------

\* The shape of the requests of a world.
LEMMA RequestShape ==
    ASSUME TypeOK
    PROVE  \A r \in requests : WellFormed(r) /\ Where(r) \in Store /\ Targets(r) \subseteq Fact
<1> SUFFICES ASSUME NEW r \in requests
             PROVE  WellFormed(r) /\ Where(r) \in Store /\ Targets(r) \subseteq Fact
    OBVIOUS
<1>1. PICK w \in World : requests = w.requests
      BY DEF TypeOK
<1>2. WellFormed(r)
      BY <1>1, CurationAssumption
<1>3. Where(r) \in Store
      BY <1>2 DEF WellFormed, Where, Store
<1>4. Targets(r) \subseteq FactsOf(w)
  <2> DEFINE A == {Targets(q) : q \in w.requests}
             B == UNION {w.facts[s] : s \in Store}
  <2>1. Targets(r) \in A
        BY <1>1
  <2>2. FactsOf(w) = B \cup UNION A
        BY DEF FactsOf
  <2> HIDE DEF A, B
  <2>. QED  BY <2>1, <2>2
<1>5. FactsOf(w) \subseteq Fact
      BY DEF Fact
<1>. QED  BY <1>2, <1>3, <1>4, <1>5

\* Two facts with one identity are so in either order.
LEMMA SameBothWays == ASSUME NEW f, NEW g PROVE SameIdentity(f, g) <=> SameIdentity(g, f)
BY DEF SameIdentity

LEMMA InitInv == Init => IInv
<1> SUFFICES ASSUME Init PROVE IInv
    OBVIOUS
<1> PICK w \in World : facts = w.facts /\ requests = w.requests
    BY DEF Init
<1>1. TypeOK
      BY CurationAssumption DEF Init, TypeOK
<1>2. HoldersLock
      BY CurationAssumption DEF Init, HoldersLock, Holding
<1>3. OneOfAnIdentity
      BY CurationAssumption DEF OneOfAnIdentity
<1>4. Working /\ Batching
      BY DEF Init, Working, Batching
<1>5. MadeChecked /\ AllWhole /\ PublishedSettled
      BY DEF Init, MadeChecked, AllWhole, PublishedSettled
<1>. QED  BY <1>1, <1>2, <1>3, <1>4, <1>5 DEF IInv

\* The three steps that change what is stored, and the others.
Writes(p) == WriteOne(p) \/ WriteFails(p) \/ PutTarget(p)

LEMMA OnlyWrites ==
    ASSUME [Next]_vars
    PROVE  /\ requests' = requests
           /\ UNCHANGED <<facts, made>> \/ \E p \in Proc : Writes(p)
BY DEF Next, vars, Writes, Start, ApplyRevisionPlan, ApplyMergePlan, ApplySplitPlan,
       ApplyGeneralizePlan, ApplyPromotionPlan, PutCandidate, ApplyPromotionCandidate, LockPut,
       WriteOne, WriteFails, BeginPublication, PutTarget, CommitPublication, AbortPublication,
       Crash

\* What was seen once counts as seen ever after.
LEMMA SeenStays ==
    ASSUME IInv, [Next]_vars, NEW s \in Store, NEW ref, Seen(s, ref)
    PROVE  Seen(s, ref)'
<1> USE DEF IInv, TypeOK
<1>1. CASE UNCHANGED <<facts, made>>
      BY <1>1 DEF Seen, Stored, Revisions
<1>2. ASSUME NEW p \in Proc, WriteOne(p) PROVE Seen(s, ref)'
  <2>1. facts[s] \subseteq facts'[s] /\ made \subseteq made'
        BY <1>2 DEF WriteOne
  <2>. QED  BY <2>1 DEF Seen, Stored, Revisions
<1>3. ASSUME NEW p \in Proc, PutTarget(p) PROVE Seen(s, ref)'
  <2>1. facts[s] \subseteq facts'[s] /\ made \subseteq made'
        BY <1>3 DEF PutTarget
  <2>. QED  BY <2>1 DEF Seen, Stored, Revisions
<1>4. ASSUME NEW p \in Proc, WriteFails(p) PROVE Seen(s, ref)'
  <2>1. made' = made /\ pc[p] = "writing"
        BY <1>4 DEF WriteFails
  <2>2. \A f \in facts[s] \ facts'[s] : Where(work[p]) = s /\ f \in wrote[p]
        BY <1>4 DEF WriteFails
  <2>3. \A f \in wrote[p] : <<work[p], f>> \in made
        BY <2>1 DEF Batching
  <2>4. ASSUME NEW rev \in Revisions(s), Ref(rev) = ref, rev \notin facts'[s]
        PROVE  \E m \in made : Where(m[1]) = s /\ m[2].kind = "revision" /\ Ref(m[2]) = ref
    <3>1. <<work[p], rev>> \in made /\ Where(work[p]) = s
          BY <2>2, <2>3, <2>4 DEF Revisions
    <3>. QED  BY <3>1, <2>4 DEF Revisions
  <2>. QED  BY <2>1, <2>4 DEF Seen, Stored, Revisions
<1>. QED  BY <1>1, <1>2, <1>3, <1>4, OnlyWrites DEF Writes

\* So the checks of a request still hold when it writes.
LEMMA CheckedStays ==
    ASSUME IInv, [Next]_vars, NEW r \in requests, Checked(r)
    PROVE  Checked(r)'
<1>1. WellFormed(r)
      BY RequestShape DEF IInv
<1>2. r.op = "revise" => Seen(r.store, r.source)'
      BY <1>1, SeenStays DEF Checked, WellFormed
<1>3. r.op \in {"generalize", "promote", "candidate", "publish"} =>
          \A ref \in Refs(r) : \E s \in Project : Seen(s, ref)'
      BY SeenStays DEF Checked, Store
<1>. QED  BY <1>2, <1>3 DEF Checked, BuildRevision

\* And no step removes a settled fact.
LEMMA SettledStays ==
    ASSUME IInv, [Next]_vars, NEW s \in Store
    PROVE  Settled(s) \subseteq Settled(s)'
<1> SUFFICES ASSUME NEW f \in Settled(s) PROVE f \in Settled(s)'
    OBVIOUS
<1> USE CurationAssumption DEF IInv, TypeOK, Settled
<1>1. CASE UNCHANGED <<facts, lock, wrote>>
      BY <1>1
<1>2. ASSUME NEW p \in Proc, LockPut(p) PROVE f \in Settled(s)'
      BY <1>2 DEF LockPut, Finish, Working
<1>3. ASSUME NEW p \in Proc, WriteOne(p) PROVE f \in Settled(s)'
  <2>1. PICK t \in left[p] :
          /\ facts' = [facts EXCEPT ![Where(work[p])] = @ \cup {t}]
          /\ \/ Finish(p) /\ lock' = [lock EXCEPT ![Where(work[p])] = None]
             \/ wrote' = [wrote EXCEPT ![p] = @ \cup {t}] /\ UNCHANGED lock
        BY <1>3 DEF WriteOne
  <2>2. pc[p] = "writing" /\ f \in facts'[s]
        BY <1>3, <2>1 DEF WriteOne
  <2>3. Where(work[p]) = s => t # f
        BY <2>2 DEF Batching
  <2>4. lock[s] = p => Where(work[p]) = s
        BY DEF HoldersLock
  <2>. QED  BY <2>1, <2>2, <2>3, <2>4 DEF Finish
<1>4. ASSUME NEW p \in Proc, WriteFails(p) PROVE f \in Settled(s)'
  <2>1. Where(work[p]) = s => lock[s] = p
        BY <1>4 DEF WriteFails, HoldersLock, Holding
  <2>. QED  BY <1>4, <2>1 DEF WriteFails, Finish
<1>5. ASSUME NEW p \in Proc, PutTarget(p) PROVE f \in Settled(s)'
      BY <1>5 DEF PutTarget
<1>6. ASSUME NEW p \in Proc, BeginPublication(p) PROVE f \in Settled(s)'
      BY <1>6 DEF BeginPublication, Working
<1>7. ASSUME NEW p \in Proc, CommitPublication(p) \/ AbortPublication(p) PROVE f \in Settled(s)'
      BY <1>7 DEF CommitPublication, AbortPublication, Finish
<1>8. ASSUME NEW p \in Proc, Crash(p) PROVE f \in Settled(s)'
      BY <1>8 DEF Crash, Finish
<1>. QED  BY <1>1, <1>2, <1>3, <1>4, <1>5, <1>6, <1>7, <1>8
          DEF Next, vars, Start, ApplyRevisionPlan, ApplyMergePlan, ApplySplitPlan,
              ApplyGeneralizePlan, ApplyPromotionPlan, PutCandidate, ApplyPromotionCandidate

\* The three parts that only grow are kept by every step that neither creates a
\* fact nor publishes.
LEMMA HistoryKept ==
    ASSUME IInv, [Next]_vars, made' = made, published' = published
    PROVE  MadeChecked' /\ PublishedSettled'
<1>1. MadeChecked'
  <2>1. \A m \in made : m[1] \in requests
        BY DEF IInv, TypeOK
  <2>. QED  BY <2>1, CheckedStays DEF IInv, MadeChecked
<1>2. PublishedSettled'
  <2>1. Global \in Store
        BY DEF Store
  <2>. QED  BY <2>1, SettledStays DEF IInv, PublishedSettled
<1>. QED  BY <1>1, <1>2

LEMMA WholeKept ==
    ASSUME IInv, [Next]_vars, made' = made, deaths' = deaths,
           \A s \in Store : Settled(s)' \subseteq Settled(s)
    PROVE  AllWhole'
<1>1. \A m \in made : Where(m[1]) \in Store
      BY RequestShape DEF IInv, TypeOK
<1>2. \A s \in Store : \A f : Whole(s, f) => Whole(s, f)'
      BY SettledStays DEF Whole
<1>. QED  BY <1>1, <1>2 DEF IInv, AllWhole

\* A request whose checks have passed waits for the lock of its store.
LEMMA StartInv ==
    ASSUME IInv, [Next]_vars, NEW p \in Proc, NEW r \in requests,
           Start(p, r, "putting", Targets(r)), Checked(r)
    PROVE  IInv'
<1> USE DEF IInv, Start
<1>1. TypeOK'
      BY RequestShape DEF TypeOK
<1>2. HoldersLock'
      BY DEF TypeOK, HoldersLock, Holding
<1>3. OneOfAnIdentity'
      BY DEF OneOfAnIdentity
<1>4. Working'
  <2>1. \A q \in requests : Checked(q) => Checked(q)'
        BY CheckedStays
  <2>. QED  BY <2>1 DEF TypeOK, Working
<1>5. Batching'
      BY DEF TypeOK, Batching
<1>6. MadeChecked' /\ PublishedSettled'
      BY HistoryKept
<1>7. AllWhole'
  <2>1. \A s \in Store : Settled(s)' \subseteq Settled(s)
        BY DEF Settled
  <2>. QED  BY <2>1, WholeKept
<1>. QED  BY <1>1, <1>2, <1>3, <1>4, <1>5, <1>6, <1>7

LEMMA LockPutInv == ASSUME IInv, [Next]_vars, NEW p \in Proc, LockPut(p) PROVE IInv'
<1> USE DEF IInv
<1> DEFINE s == Where(work[p])
<1>1. /\ pc[p] = "putting" /\ work[p] \in requests /\ lock[s] = None /\ wrote[p] = {}
      /\ left[p] = Targets(work[p]) /\ Checked(work[p]) /\ s \in Store
  <2>1. pc[p] = "putting" /\ lock[s] = None
        BY DEF LockPut
  <2>. QED  BY <2>1, RequestShape DEF Working
<1>2. UNCHANGED <<facts, requests, published, made, deaths, failures>>
      BY DEF LockPut
<1>3. \/ Finish(p) /\ UNCHANGED lock
      \/ /\ lock' = [lock EXCEPT ![s] = p]
         /\ pc' = [pc EXCEPT ![p] = "writing"]
         /\ left' = [left EXCEPT ![p] = left[p] \ facts[s]]
         /\ UNCHANGED <<work, wrote>>
         /\ \A t \in left[p] : ~ Conflicts(t, s)
      BY DEF LockPut
<1> HIDE DEF s
<1>4. TypeOK'
      BY <1>1, <1>2, <1>3 DEF TypeOK, Finish
<1>5. HoldersLock'
      BY <1>1, <1>2, <1>3, CurationAssumption DEF TypeOK, HoldersLock, Holding, Finish, s
<1>6. OneOfAnIdentity'
      BY <1>2 DEF OneOfAnIdentity
<1>7. Working'
  <2>1. \A q \in requests : Checked(q) => Checked(q)'
        BY CheckedStays
  <2>. QED  BY <1>1, <1>2, <1>3, <2>1 DEF TypeOK, Working, Finish
<1>8. Batching'
      BY <1>1, <1>2, <1>3 DEF TypeOK, Batching, Finish, Conflicts, s
<1>9. MadeChecked' /\ PublishedSettled'
      BY <1>2, HistoryKept
<1>10. AllWhole'
  <2>1. \A t \in Store : Settled(t)' \subseteq Settled(t)
        BY <1>1, <1>2, <1>3, CurationAssumption DEF TypeOK, Settled, Finish
  <2>. QED  BY <1>2, <2>1, WholeKept
<1>. QED  BY <1>4, <1>5, <1>6, <1>7, <1>8, <1>9, <1>10

LEMMA WriteOneInv == ASSUME IInv, [Next]_vars, NEW p \in Proc, WriteOne(p) PROVE IInv'
<1> USE DEF IInv
<1>0. pc[p] = "writing" /\ work[p] \in requests /\ Checked(work[p])
      BY DEF WriteOne, Working
<1> PICK s \in Store : s = Where(work[p])
    BY <1>0, RequestShape
<1>1. pc[p] = "writing" /\ work[p] \in requests /\ Checked(work[p]) /\ lock[s] = p
      BY <1>0 DEF HoldersLock, Holding
<1>2. /\ left[p] \cap facts[s] = {}
      /\ \A u \in left[p], g \in facts[s] : ~ SameIdentity(u, g)
      /\ left[p] \subseteq Targets(work[p])
      /\ wrote[p] \subseteq Targets(work[p]) \cap facts[s]
      /\ Targets(work[p]) \subseteq left[p] \cup facts[s]
      BY <1>1 DEF Batching, Working
<1>3. PICK t \in left[p] :
          /\ facts' = [facts EXCEPT ![s] = @ \cup {t}]
          /\ made' = made \cup {<<work[p], t>>}
          /\ \/ left[p] = {t} /\ Finish(p) /\ lock' = [lock EXCEPT ![s] = None]
             \/ /\ left' = [left EXCEPT ![p] = @ \ {t}]
                /\ wrote' = [wrote EXCEPT ![p] = @ \cup {t}]
                /\ UNCHANGED <<lock, pc, work>>
      BY DEF WriteOne
<1>4. UNCHANGED <<requests, published, deaths, failures>>
      BY DEF WriteOne
<1>5. t \in Targets(work[p]) /\ t \in Fact /\ t \notin facts[s]
      BY <1>1, <1>2, RequestShape
<1>6. \A u \in left[p] : SameIdentity(u, t) => u = t
  <2>1. CASE work[p].op = "split"
    <3>1. WellFormed(work[p])
          BY <1>1, RequestShape
    <3>2. \A u \in work[p].targets : u.kind = "revision"
          BY <2>1, <3>1 DEF WellFormed, Targets
    <3>3. \A u, v \in work[p].targets : u.mem = v.mem => u = v
          BY <1>1, <2>1 DEF Checked
    <3>. QED  BY <1>2, <2>1, <3>2, <3>3 DEF SameIdentity, Identity, Targets
  <2>2. CASE work[p].op # "split"
        BY <1>2, <2>2 DEF Targets
  <2>. QED  BY <2>1, <2>2
<1>7. \A q \in Proc : q # p /\ pc[q] = "writing" => Where(work[q]) # s
      BY <1>1 DEF HoldersLock, Holding
<1>8. TypeOK'
      BY <1>1, <1>3, <1>4, <1>5 DEF TypeOK, Finish
<1>9. HoldersLock'
      BY <1>1, <1>3, CurationAssumption DEF TypeOK, HoldersLock, Holding, Finish
<1>10. OneOfAnIdentity'
      BY <1>1, <1>2, <1>3, SameBothWays DEF TypeOK, OneOfAnIdentity
<1>11. Working'
  <2>1. \A q \in requests : Checked(q) => Checked(q)'
        BY CheckedStays
  <2>2. \A q \in Proc : pc[q] = "built" => pc'[q] = pc[q] \/ pc'[q] = "idle"
        BY <1>3 DEF TypeOK, Finish
  <2>3. Global \in Store
        BY DEF Store
  <2>. QED  BY <1>1, <1>3, <1>4, <2>1, <2>2, <2>3 DEF TypeOK, Working, Finish
<1>12. Batching'
  <2>1. ASSUME NEW q \in Proc, q # p, pc[q] = "writing"
        PROVE  facts'[Where(work[q])] = facts[Where(work[q])]
        BY <1>1, <1>3, <1>7, <2>1 DEF TypeOK
  <2>2. \A q \in Proc : q # p =>
            /\ pc'[q] = pc[q] /\ work'[q] = work[q] /\ left'[q] = left[q] /\ wrote'[q] = wrote[q]
        BY <1>3 DEF TypeOK, Finish
  <2>3. ASSUME pc'[p] = "writing"
        PROVE  /\ left'[p] \cap facts'[s] = {}
               /\ \A u \in left'[p], g \in facts'[s] : ~ SameIdentity(u, g)
               /\ wrote'[p] \subseteq Targets(work[p]) \cap facts'[s]
               /\ Targets(work[p]) \subseteq left'[p] \cup facts'[s]
               /\ \A f \in wrote'[p] : <<work[p], f>> \in made'
               /\ work'[p] = work[p]
    <3>1. /\ left' = [left EXCEPT ![p] = @ \ {t}]
          /\ wrote' = [wrote EXCEPT ![p] = @ \cup {t}]
          /\ UNCHANGED <<lock, pc, work>>
          BY <1>3, <2>3 DEF TypeOK, Finish
    <3>2. \A f \in wrote[p] : <<work[p], f>> \in made
          BY <1>1 DEF Batching
    <3>. QED  BY <1>1, <1>2, <1>3, <1>5, <1>6, <3>1, <3>2 DEF TypeOK
  <2>. QED  BY <1>3, <2>1, <2>2, <2>3 DEF Batching
<1>13. MadeChecked'
  <2>1. \A r \in requests : Checked(r) => Checked(r)'
        BY CheckedStays
  <2>. QED  BY <1>1, <1>3, <1>5, <2>1 DEF MadeChecked, TypeOK
<1>14. AllWhole'
  <2>1. \A z \in Store : \A f : Whole(z, f) => Whole(z, f)'
        BY <1>3, SettledStays DEF Whole
  <2>2. \A z \in Store : z # s => Settled(z)' \subseteq Settled(z)
        BY <1>1, <1>3 DEF TypeOK, Settled, Finish, HoldersLock
  <2>3. CASE left[p] = {t} /\ Finish(p) /\ lock' = [lock EXCEPT ![s] = None]
    <3>1. Targets(work[p]) \subseteq Settled(s)'
          BY <1>1, <1>2, <1>3, <2>3 DEF TypeOK, Settled
    <3>2. \A f \in Settled(s)' : f \in Settled(s) \/ f \in wrote[p] \/ f = t
          BY <1>1, <1>3, <2>3 DEF TypeOK, Settled
    <3>3. ASSUME NEW f \in wrote[p] \cup {t} PROVE Whole(s, f)'
      <4>1. <<work[p], t>> \in made' /\ f \in Targets(work[p])
            BY <1>2, <1>3, <1>5
      <4>. QED  BY <3>1, <4>1 DEF Whole
    <3>4. \A m \in made' : Where(m[1]) \in Store
          BY <1>8, RequestShape, <1>1, <1>3 DEF TypeOK
    <3>. QED  BY <1>3, <1>4, <2>1, <2>2, <3>2, <3>3, <3>4 DEF AllWhole
  <2>4. CASE /\ left' = [left EXCEPT ![p] = @ \ {t}]
             /\ wrote' = [wrote EXCEPT ![p] = @ \cup {t}]
             /\ UNCHANGED <<lock, pc, work>>
    <3>1. Settled(s)' \subseteq Settled(s) /\ t \notin Settled(s)'
          BY <1>1, <1>3, <2>4, CurationAssumption DEF TypeOK, Settled
    <3>2. \A m \in made' : Where(m[1]) \in Store
          BY <1>8, RequestShape, <1>1, <1>3 DEF TypeOK
    <3>. QED  BY <1>3, <1>4, <2>1, <2>2, <3>1, <3>2 DEF AllWhole
  <2>. QED  BY <1>3, <2>3, <2>4
<1>15. PublishedSettled'
  <2>1. Global \in Store
        BY DEF Store
  <2>. QED  BY <1>4, <2>1, SettledStays DEF PublishedSettled
<1>. QED  BY <1>8, <1>9, <1>10, <1>11, <1>12, <1>13, <1>14, <1>15

LEMMA WriteFailsInv == ASSUME IInv, [Next]_vars, NEW p \in Proc, WriteFails(p) PROVE IInv'
<1> USE DEF IInv
<1>0. pc[p] = "writing" /\ work[p] \in requests
      BY DEF WriteFails, Working
<1> PICK s \in Store : s = Where(work[p])
    BY <1>0, RequestShape
<1>1. lock[s] = p
      BY <1>0 DEF HoldersLock, Holding
<1>2. /\ facts' = [facts EXCEPT ![s] = @ \ wrote[p]]
      /\ lock' = [lock EXCEPT ![s] = None]
      /\ Finish(p)
      /\ failures < MaxFaults /\ failures' = failures + 1
      /\ UNCHANGED <<requests, published, made, deaths>>
      BY DEF WriteFails
<1>3. \A q \in Proc : q # p /\ pc[q] \in Holding => Where(work[q]) # s
      BY <1>1 DEF HoldersLock
<1>4. TypeOK'
      BY <1>2, CurationAssumption DEF TypeOK, Finish
<1>5. HoldersLock'
      BY <1>1, <1>2, CurationAssumption DEF TypeOK, HoldersLock, Holding, Finish
<1>6. OneOfAnIdentity'
      BY <1>2 DEF TypeOK, OneOfAnIdentity
<1>7. Working'
  <2>1. \A q \in requests : Checked(q) => Checked(q)'
        BY CheckedStays
  <2>2. \A q \in Proc : q # p => /\ pc'[q] = pc[q] /\ work'[q] = work[q]
                                 /\ left'[q] = left[q] /\ wrote'[q] = wrote[q]
        BY <1>2 DEF TypeOK, Finish
  <2>3. pc'[p] = "idle" /\ wrote'[p] = {}
        BY <1>2 DEF TypeOK, Finish
  <2>4. ASSUME NEW q \in Proc, pc[q] = "built" PROVE facts'[Global] = facts[Global]
    <3>1. Where(work[q]) = Global
          BY <2>4 DEF Working, Where
    <3>. QED  BY <1>2, <1>3, <3>1, <2>4, <1>0 DEF TypeOK, Holding
  <2>. QED  BY <1>2, <2>1, <2>2, <2>3, <2>4 DEF Working
<1>8. Batching'
      BY <1>2, <1>3 DEF TypeOK, Batching, Finish, Holding
<1>9. MadeChecked' /\ PublishedSettled'
      BY <1>2, HistoryKept
<1>10. AllWhole'
  <2>1. \A z \in Store : Settled(z)' \subseteq Settled(z)
        BY <1>1, <1>2, CurationAssumption DEF TypeOK, Settled, Finish, HoldersLock
  <2>. QED  BY <1>2, <2>1, WholeKept
<1>. QED  BY <1>4, <1>5, <1>6, <1>7, <1>8, <1>9, <1>10

LEMMA BeginPublicationInv ==
    ASSUME IInv, [Next]_vars, NEW p \in Proc, BeginPublication(p) PROVE IInv'
<1> USE DEF IInv
<1>1. PICK r \in requests :
          /\ r.op = "publish" /\ pc[p] = "idle" /\ lock[Global] = None
          /\ pc' = [pc EXCEPT ![p] = "begun"]
          /\ work' = [work EXCEPT ![p] = r]
          /\ lock' = [lock EXCEPT ![Global] = p]
          /\ UNCHANGED <<facts, requests, left, wrote, published, made, deaths, failures>>
      BY DEF BeginPublication, Request
<1>2. Where(r) = Global /\ Global \in Store
      BY <1>1 DEF Where, Store
<1>3. TypeOK'
      BY <1>1, <1>2 DEF TypeOK
<1>4. HoldersLock'
      BY <1>1, <1>2, CurationAssumption DEF TypeOK, HoldersLock, Holding
<1>5. OneOfAnIdentity'
      BY <1>1 DEF OneOfAnIdentity
<1>6. Working'
  <2>1. \A q \in requests : Checked(q) => Checked(q)'
        BY CheckedStays
  <2>. QED  BY <1>1, <2>1 DEF TypeOK, Working
<1>7. Batching'
      BY <1>1 DEF TypeOK, Batching
<1>8. MadeChecked' /\ PublishedSettled'
      BY <1>1, HistoryKept
<1>9. AllWhole'
  <2>1. \A s \in Store : Settled(s)' \subseteq Settled(s)
        BY <1>1, CurationAssumption DEF TypeOK, Settled
  <2>. QED  BY <1>1, <2>1, WholeKept
<1>. QED  BY <1>3, <1>4, <1>5, <1>6, <1>7, <1>8, <1>9

LEMMA PutTargetInv == ASSUME IInv, [Next]_vars, NEW p \in Proc, PutTarget(p) PROVE IInv'
<1> USE DEF IInv
<1>1. /\ pc[p] = "begun" /\ work[p] \in requests /\ work[p].op = "publish"
      /\ wrote[p] = {} /\ Global \in Store
      BY DEF PutTarget, Working, Store
<1> PICK f \in Fact : f = work[p].target
    BY <1>1, RequestShape DEF Targets
<1>2. Where(work[p]) = Global /\ Targets(work[p]) = {f} /\ lock[Global] = p
  <2>1. Where(work[p]) = Global /\ Targets(work[p]) = {f}
        BY <1>1 DEF Where, Targets
  <2>. QED  BY <1>1, <2>1 DEF HoldersLock, Holding
<1>3. /\ facts' = [facts EXCEPT ![Global] = @ \cup {f}]
      /\ made' = IF f \in facts[Global] THEN made ELSE made \cup {<<work[p], f>>}
      /\ pc' = [pc EXCEPT ![p] = "built"]
      /\ UNCHANGED <<requests, lock, work, left, wrote, published, deaths, failures>>
      /\ ApplyCandidate(work[p]) /\ ~ Conflicts(f, Global)
      BY DEF PutTarget, CanPutTarget
<1>4. Checked(work[p])
  <2>1. \A ref \in Refs(work[p]) : \E s \in Project : Seen(s, ref)
    <3>1. \A s \in work[p].sources : s.store \in Project
          BY <1>1, RequestShape DEF WellFormed
    <3>. QED  BY <1>3, <3>1 DEF ApplyCandidate, Refs, Seen
  <2>2. Cardinality({s.family : s \in work[p].sources}) >= FamiliesToPromote
        BY <1>3 DEF ApplyCandidate, ValidCandidate
  <2>. QED  BY <1>1, <1>3, <2>1, <2>2 DEF Checked, ApplyCandidate, RetainsSources
<1>5. \A q \in Proc : q # p /\ pc[q] \in Holding => Where(work[q]) # Global
      BY <1>1, <1>2 DEF HoldersLock
<1>6. TypeOK'
      BY <1>1, <1>2, <1>3 DEF TypeOK
<1>7. HoldersLock'
      BY <1>1, <1>3 DEF TypeOK, HoldersLock, Holding
<1>8. OneOfAnIdentity'
      BY <1>3, SameBothWays DEF TypeOK, OneOfAnIdentity, Conflicts
<1>9. Working'
  <2>1. \A q \in requests : Checked(q) => Checked(q)'
        BY CheckedStays
  <2>2. f \in facts'[Global] /\ facts[Global] \subseteq facts'[Global]
        BY <1>1, <1>3 DEF TypeOK
  <2>. QED  BY <1>1, <1>3, <1>4, <2>1, <2>2 DEF TypeOK, Working
<1>10. Batching'
      BY <1>1, <1>3, <1>5 DEF TypeOK, Batching, Holding
<1>11. MadeChecked'
  <2>1. \A r \in requests : Checked(r) => Checked(r)'
        BY CheckedStays
  <2>. QED  BY <1>1, <1>2, <1>3, <1>4, <2>1 DEF MadeChecked, TypeOK
<1>12. AllWhole'
  <2>1. \A z \in Store : \A g : Whole(z, g) => Whole(z, g)'
        BY <1>3, SettledStays DEF Whole
  <2>2. \A z \in Store : Settled(z)' \subseteq Settled(z) \cup (IF z = Global THEN {f} ELSE {})
        BY <1>3 DEF TypeOK, Settled
  <2>3. f \notin facts[Global] => Whole(Global, f)'
    <3>1. f \in Settled(Global)'
          BY <1>1, <1>2, <1>3 DEF TypeOK, Settled
    <3>2. ASSUME f \notin facts[Global] PROVE <<work[p], f>> \in made'
          BY <1>3, <3>2
    <3>. QED  BY <1>2, <3>1, <3>2 DEF Whole
  <2>4. f \in facts[Global] => f \in Settled(Global)
        BY <1>1, <1>2 DEF Settled
  <2>5. \A m \in made' : Where(m[1]) \in Store
        BY <1>1, <1>2, <1>3, RequestShape DEF TypeOK
  <2>6. \A m \in made' \ made : Where(m[1]) = Global /\ m[2] = f /\ f \notin facts[Global]
        BY <1>2, <1>3
  <2>. QED  BY <1>3, <2>1, <2>2, <2>3, <2>4, <2>5, <2>6 DEF AllWhole
<1>13. PublishedSettled'
      BY <1>1, <1>3, SettledStays DEF PublishedSettled
<1>. QED  BY <1>6, <1>7, <1>8, <1>9, <1>10, <1>11, <1>12, <1>13

\* A publication ends, or a process dies: its lock is free and its batch empty.
LEMMA EndInv ==
    ASSUME IInv, [Next]_vars, NEW p \in Proc,
           CommitPublication(p) \/ AbortPublication(p) \/ Crash(p)
    PROVE  IInv'
<1> USE DEF IInv
<1>1. /\ Finish(p) /\ UNCHANGED <<facts, requests, made>>
      /\ \A s \in Store : lock'[s] = IF lock[s] = p THEN None ELSE lock[s]
      /\ lock' \in [Store -> Proc \cup {None}]
  <2>1. CASE CommitPublication(p) \/ AbortPublication(p)
    <3>1. pc[p] \in {"begun", "built"} /\ lock' = [lock EXCEPT ![Global] = None]
          BY <2>1 DEF CommitPublication, AbortPublication
    <3>2. \A s \in Store : lock[s] = p <=> s = Global
          BY <3>1 DEF Working, Where, HoldersLock, Holding
    <3>. QED  BY <2>1, <3>1, <3>2 DEF TypeOK, CommitPublication, AbortPublication
  <2>2. CASE Crash(p)
        BY <2>2 DEF TypeOK, Crash
  <2>. QED  BY <2>1, <2>2
<1>2. /\ deaths' \in 0..MaxFaults /\ failures' \in 0..MaxFaults
      /\ deaths' = deaths \/ deaths' # 0
      BY CurationAssumption DEF TypeOK, CommitPublication, AbortPublication, Crash
<1>3. TypeOK'
      BY <1>1, <1>2 DEF TypeOK, Finish
<1>4. HoldersLock'
      BY <1>1, CurationAssumption DEF TypeOK, HoldersLock, Holding, Finish
<1>5. OneOfAnIdentity'
      BY <1>1 DEF OneOfAnIdentity
<1>6. Working'
  <2>1. \A q \in requests : Checked(q) => Checked(q)'
        BY CheckedStays
  <2>. QED  BY <1>1, <2>1 DEF TypeOK, Working, Finish
<1>7. Batching'
      BY <1>1 DEF TypeOK, Batching, Finish
<1>8. MadeChecked'
  <2>1. \A r \in requests : Checked(r) => Checked(r)'
        BY CheckedStays
  <2>. QED  BY <1>1, <2>1 DEF MadeChecked, TypeOK
<1>9. AllWhole'
  <2>1. CASE CommitPublication(p) \/ AbortPublication(p)
    <3>1. \A s \in Store : Settled(s)' \subseteq Settled(s)
      <4>1. wrote[p] = {}
            BY <2>1 DEF CommitPublication, AbortPublication, Working
      <4>. QED  BY <1>1, <4>1, CurationAssumption DEF TypeOK, Settled, Finish
    <3>2. deaths' = deaths
          BY <2>1 DEF CommitPublication, AbortPublication
    <3>. QED  BY <1>1, <3>1, <3>2, WholeKept
  <2>2. CASE Crash(p)
    <3>1. deaths' # 0
          BY <2>2 DEF TypeOK, Crash
    <3>. QED  BY <3>1 DEF AllWhole
  <2>. QED  BY <2>1, <2>2
<1>10. PublishedSettled'
  <2>1. Global \in Store
        BY DEF Store
  <2>2. CASE CommitPublication(p)
    <3> PICK r \in requests : r = work[p]
        BY <2>2 DEF CommitPublication, Working
    <3>1. /\ pc[p] = "built" /\ r.candidate \in facts[Global]
          /\ published' = published \cup {r.candidate}
          BY <2>2 DEF CommitPublication, CanCommit
    <3>2. Checked(r) /\ r.op = "publish" /\ r.target \in facts[Global] /\ wrote[p] = {}
          BY <3>1 DEF Working
    <3>3. lock[Global] = p
          BY <2>1, <3>1, <3>2 DEF HoldersLock, Holding, Where
    <3>4. r.target.kind = "revision"
          BY <3>2, RequestShape DEF WellFormed, Targets
    <3>5. /\ r.candidate.status = "eligible"
          /\ r.target.from = r.candidate.sources
          BY <3>2 DEF Checked
    <3>6. r.candidate \in Settled(Global) /\ r.target \in Settled(Global)
          BY <3>1, <3>2, <3>3 DEF Settled
    <3>7. Settled(Global) \subseteq Settled(Global)'
          BY <2>1, SettledStays
    <3>. QED  BY <3>1, <3>4, <3>5, <3>6, <3>7 DEF PublishedSettled
  <2>3. CASE AbortPublication(p) \/ Crash(p)
        BY <2>3, <1>1, HistoryKept DEF AbortPublication, Crash
  <2>. QED  BY <2>2, <2>3
<1>. QED  BY <1>3, <1>4, <1>5, <1>6, <1>7, <1>8, <1>9, <1>10

LEMMA StepInv == IInv /\ [Next]_vars => IInv'
<1> SUFFICES ASSUME IInv, [Next]_vars PROVE IInv'
    OBVIOUS
<1>1. ASSUME NEW p \in Proc, ApplyRevisionPlan(p) PROVE IInv'
  <2>1. PICK r \in requests : /\ r.op = "revise" /\ BuildRevision(r) /\ ApplyRevision(r)
                              /\ Start(p, r, "putting", {r.target})
        BY <1>1 DEF ApplyRevisionPlan, Request
  <2>2. Checked(r) /\ Targets(r) = {r.target}
        BY <2>1 DEF Checked, ApplyRevision, Seen, Targets
  <2>. QED  BY <2>1, <2>2, StartInv
<1>2. ASSUME NEW p \in Proc, ApplyMergePlan(p) PROVE IInv'
  <2>1. PICK r \in requests : r.op = "merge" /\ Start(p, r, "putting", {r.target})
        BY <1>2 DEF ApplyMergePlan, Request
  <2>. QED  BY <2>1, StartInv DEF Checked, Targets
<1>3. ASSUME NEW p \in Proc, ApplySplitPlan(p) PROVE IInv'
  <2>1. PICK r \in requests : r.op = "split" /\ ApplySplit(r) /\ Start(p, r, "putting", r.targets)
        BY <1>3 DEF ApplySplitPlan, Request
  <2>. QED  BY <2>1, StartInv DEF Checked, Targets, ApplySplit
<1>4. ASSUME NEW p \in Proc, ApplyGeneralizePlan(p) PROVE IInv'
  <2>1. PICK r \in requests : /\ r.op = "generalize" /\ ApplyGeneralize(r)
                              /\ Start(p, r, "putting", {r.target})
        BY <1>4 DEF ApplyGeneralizePlan, Request
  <2>2. r.store \in Project
        BY <2>1, RequestShape DEF IInv, WellFormed
  <2>3. Checked(r) /\ Targets(r) = {r.target}
        BY <2>1, <2>2 DEF Checked, ApplyGeneralize, RetainsSources, Refs, Seen, Targets
  <2>. QED  BY <2>1, <2>3, StartInv
<1>5. ASSUME NEW p \in Proc, ApplyPromotionPlan(p) PROVE IInv'
  <2>1. PICK r \in requests : /\ r.op = "promote" /\ ApplyPromotion(r)
                              /\ Start(p, r, "putting", {r.target})
        BY <1>5 DEF ApplyPromotionPlan, Request
  <2>2. r.store \in Project
        BY <2>1, RequestShape DEF IInv, WellFormed
  <2>3. Checked(r) /\ Targets(r) = {r.target}
        BY <2>1, <2>2 DEF Checked, ApplyPromotion, Refs, Seen, Targets
  <2>. QED  BY <2>1, <2>3, StartInv
<1>6. ASSUME NEW p \in Proc, PutCandidate(p) PROVE IInv'
  <2>1. PICK r \in requests : r.op = "put_candidate" /\ Start(p, r, "putting", {r.target})
        BY <1>6 DEF PutCandidate, Request
  <2>. QED  BY <2>1, StartInv DEF Checked, Targets
<1>7. ASSUME NEW p \in Proc, ApplyPromotionCandidate(p) PROVE IInv'
  <2>1. PICK r \in requests : /\ r.op = "candidate" /\ ApplyCandidate(r)
                              /\ Start(p, r, "putting", {r.target})
        BY <1>7 DEF ApplyPromotionCandidate, Request
  <2>2. \A s \in r.sources : s.store \in Project
        BY <2>1, RequestShape DEF IInv, WellFormed
  <2>3. /\ \A ref \in Refs(r) : \E s \in Project : Seen(s, ref)
        /\ Cardinality({s.family : s \in r.sources}) >= FamiliesToPromote
        BY <2>1, <2>2 DEF ApplyCandidate, ValidCandidate, Refs, Seen
  <2>4. Checked(r) /\ Targets(r) = {r.target}
        BY <2>1, <2>3 DEF Checked, ApplyCandidate, RetainsSources, Targets
  <2>. QED  BY <2>1, <2>4, StartInv
<1>8. CASE UNCHANGED vars
  <2> USE <1>8 DEF vars, IInv
  <2>1. TypeOK' /\ HoldersLock' /\ OneOfAnIdentity' /\ Batching'
        BY DEF TypeOK, HoldersLock, OneOfAnIdentity, Batching
  <2>2. Working'
    <3>1. \A q \in requests : Checked(q) => Checked(q)'
          BY CheckedStays
    <3>. QED  BY <3>1 DEF Working
  <2>3. MadeChecked' /\ PublishedSettled'
        BY HistoryKept
  <2>4. AllWhole'
    <3>1. \A s \in Store : Settled(s)' \subseteq Settled(s)
          BY DEF Settled
    <3>. QED  BY <3>1, WholeKept
  <2>. QED  BY <2>1, <2>2, <2>3, <2>4
<1>. QED  BY <1>1, <1>2, <1>3, <1>4, <1>5, <1>6, <1>7, <1>8, LockPutInv, WriteOneInv,
             WriteFailsInv, BeginPublicationInv, PutTargetInv, EndInv DEF Next

THEOREM Invariant == Spec => []IInv
<1>. QED  BY InitInv, StepInv, PTL DEF Spec

\* Every variable keeps its type.
THEOREM AlwaysTyped == Spec => []TypeOK
<1>1. IInv => TypeOK
      BY DEF IInv
<1>. QED  BY <1>1, Invariant, PTL

\* What was seen is stored, or was undone by the batch that had created it.
LEMMA SeenIsStored ==
    ASSUME IInv, NEW s, NEW ref, Seen(s, ref), ~ Undone(ref)
    PROVE  Stored(s, ref)
BY DEF Seen, Stored, Revisions, Undone, Standing

\* The history of a memory does not fork: a revision was made from the revision
\* before it as it is stored, although the source is read without the lock.
THEOREM NeverForks == Spec => []LineageUnforked
<1>1. IInv => LineageUnforked
  <2> SUFFICES ASSUME IInv, NEW m \in Standing, m[1].op = "revise", ~ Undone(m[1].source)
               PROVE  /\ Stored(m[1].store, m[1].source)
                      /\ \A rev \in Revisions(m[1].store) :
                            rev.mem = m[2].mem /\ rev.n = m[2].n - 1 => Ref(rev) = m[1].source
      BY DEF LineageUnforked
  <2> PICK r \in requests : r = m[1]
      BY DEF IInv, TypeOK, Standing
  <2>1. /\ m[2] = r.target /\ BuildRevision(r) /\ Seen(r.store, r.source)
        /\ r.store \in Store /\ r.source[2] \in Nat
    <3>1. WellFormed(r)
          BY RequestShape DEF IInv
    <3>2. m[2] \in Targets(r) /\ Checked(r)
          BY DEF IInv, MadeChecked, Standing
    <3>. QED  BY <3>1, <3>2 DEF Checked, WellFormed, Targets
  <2>2. PICK src \in Revisions(r.store) : Ref(src) = r.source
        BY <2>1, SeenIsStored DEF Stored
  <2>3. ASSUME NEW rev \in Revisions(r.store), rev.mem = m[2].mem, rev.n = m[2].n - 1
        PROVE  Ref(rev) = r.source
    <3>1. rev.mem = src.mem /\ rev.n = src.n
          BY <2>1, <2>2, <2>3 DEF BuildRevision, Ref
    <3>2. rev = src
          BY <2>1, <3>1 DEF IInv, OneOfAnIdentity, SameIdentity, Identity, Revisions
    <3>. QED  BY <2>2, <3>2
  <2>. QED  BY <2>2, <2>3 DEF Stored
<1>. QED  BY <1>1, Invariant, PTL

\* Unless a process dies, a stored branch of a split is one that the holder of
\* the lock may still remove, or its split is stored as a whole and stays so,
\* whichever batches fail or race with conflicting ones.
THEOREM AlwaysWhole == Spec => []SplitWhole
<1>1. IInv => SplitWhole
      BY DEF IInv, AllWhole, Whole, SplitWhole, Standing
<1>. QED  BY <1>1, Invariant, PTL

\* What the global store gained stands on sources that are, or until their own
\* batch failed were, stored in projects, although these are never locked.
THEOREM AlwaysGrounded == Spec => []GlobalGrounded
<1>1. IInv => GlobalGrounded
  <2> SUFFICES ASSUME IInv, NEW m \in Standing,
                      m[1].op \in {"generalize", "promote", "candidate", "publish"}
               PROVE  /\ \A ref \in Refs(m[1]) : Undone(ref) \/ \E s \in Project : Stored(s, ref)
                      /\ m[1].op # "promote" => m[2].from = Refs(m[1])
                      /\ m[1].op \in {"candidate", "publish"} =>
                            Cardinality({s.family : s \in m[1].sources}) >= FamiliesToPromote
      BY DEF GlobalGrounded
  <2>1. m[2] = m[1].target /\ Checked(m[1])
        BY DEF IInv, MadeChecked, Standing, Targets
  <2>2. \A ref \in Refs(m[1]) : Undone(ref) \/ \E s \in Project : Stored(s, ref)
        BY <2>1, SeenIsStored DEF Checked
  <2>. QED  BY <2>1, <2>2 DEF Checked
<1>. QED  BY <1>1, Invariant, PTL

\* What a global generation publishes is stored in full: the eligible candidate
\* and a revision made of its sources, whatever is undone, dies or is aborted.
THEOREM AlwaysStored == Spec => []PublishedIsStored
<1>1. IInv => PublishedIsStored
      BY DEF IInv, PublishedSettled, PublishedIsStored, Settled, Revisions
<1>. QED  BY <1>1, Invariant, PTL

=============================================================================
