--------------------------- MODULE MigrationProofs ---------------------------
(* What a migration writes and what its undo takes back, proved for any       *)
(* migrations, inputs and processes and any number of deaths and failures.    *)
(* The undo after a failed Commit runs without the lock, beside writers, so   *)
(* nothing but the ownership of each created fact keeps it harmless: Owned    *)
(* says who may remove a fact, Marked when nobody may any more.               *)
EXTENDS Migration, TLAPS

\* The places where a process has the lock. An undo may have it or not.
Locked == BeforeCommit \cup InCommit \cup {"auditing", "holding", "putting"}

OneHolder == \A p \in Proc : pc[p] \in Locked => lock = p

\* What each process works on, by its place.
Engaged ==
    \A p \in Proc :
        /\ pc[p] = "waiting" => job[p] \in Puts \cup begun
        /\ pc[p] = "putting" => job[p] \in Fact
        /\ pc[p] \in (Locked \ {"putting"}) \cup {"undoing"} => job[p] \in begun

\* A created fact has one live creator, which it belongs to, and a fact that is
\* not there belongs to nobody.
Owned ==
    /\ \A f \in Fact \ facts : owner[f] = None
    /\ \A p \in Proc : \A f \in made[p] : f \in facts /\ owner[f] = job[p]
    /\ \A p, q \in Proc : p # q => made[p] \cap made[q] = {}
    /\ \A p \in Proc : pc[p] \in {"idle", "waiting", "putting"} => made[p] = {}

\* What a batch has still to write was found missing under the lock, and only
\* the holder of the lock adds facts.
StillMissing == \A p \in Proc : pc[p] = "copying" => todo[p] \cap facts = {}

\* Facts are marked as staying exactly when their migration passes the switch.
Marked ==
    /\ sealed \subseteq facts
    /\ \A p \in Proc :
          IF pc[p] \in {"auditing", "holding"} THEN made[p] \subseteq sealed
                                               ELSE made[p] \cap sealed = {}

\* A generation is staged before it is published, and CURRENT names only
\* published ones.
StagedFirst ==
    /\ \A m \in published : Inputs[m] \subseteq prepared[m]
    /\ effective \cup ({current} \ {None}) \subseteq published
    /\ \A p \in Proc :
          /\ pc[p] = "publishing" => Inputs[job[p]] \subseteq prepared[job[p]]
          /\ pc[p] \in {"casing", "switching", "auditing"} => job[p] \in published

IInv == /\ TypeOK /\ OneHolder /\ Engaged /\ Owned /\ StillMissing /\ Marked
        /\ StagedFirst /\ NothingLeftBehind

LEMMA InitInv == Init => IInv
BY MigrationAssumption
   DEF Init, IInv, TypeOK, OneHolder, Engaged, Owned, StillMissing, Marked, StagedFirst,
       NothingLeftBehind, PC, Locked, BeforeCommit, InCommit

LEMMA StepInv == IInv /\ [Next]_vars => IInv'
<1> SUFFICES ASSUME IInv, [Next]_vars PROVE IInv'
    OBVIOUS
<1> USE MigrationAssumption
    DEF IInv, TypeOK, OneHolder, Engaged, Owned, StillMissing, Marked, StagedFirst,
        NothingLeftBehind, PC, Locked, BeforeCommit, InCommit,
        txVars, procVars, history, bounds, FactsStay, Goto, Return, Unlock, TakeLock
<1>1. ASSUME NEW m \in Mig, Preview(m) PROVE IInv'
      BY <1>1 DEF Preview
<1>2. ASSUME NEW m \in Mig, Rollback(m) PROVE IInv'
      BY <1>2 DEF Rollback
<1>3. CASE Recover
      BY <1>3 DEF Recover
<1>4. ASSUME NEW p \in Proc, Client(p) PROVE IInv'
  <2>1. ASSUME NEW f \in Puts, StartPut(p, f) PROVE IInv'
        BY <2>1 DEF StartPut
  <2>2. CASE LockPut(p)
        BY <2>2 DEF LockPut
  <2>3. CASE Put(p)
    <3>1. CASE Conflicts(job[p])
          BY <2>3, <3>1 DEF Put
    <3>2. CASE ~Conflicts(job[p])
          BY <2>3, <3>2 DEF Put
    <3>. QED  BY <2>3, <3>1, <3>2 DEF Put
  <2>. QED  BY <1>4, <2>1, <2>2, <2>3 DEF Client
<1>5. ASSUME NEW p \in Proc, Migrate(p) PROVE IInv'
  <2>1. ASSUME NEW m \in Mig, BeginMigration(p, m) PROVE IInv'
        BY <2>1 DEF BeginMigration
  <2>2. CASE LockMigration(p)
        BY <2>2 DEF LockMigration
  <2>3. CASE ReplayMigration(p)
        BY <2>3 DEF ReplayMigration
  <2>4. CASE WriteSnapshot(p)
        BY <2>4 DEF WriteSnapshot
  <2>5. CASE Resolve(p)
    <3>1. CASE \E f \in Batch(job[p]) : Conflicts(f)
          BY <2>5, <3>1 DEF Resolve, Batch
    <3>2. CASE \A f \in Batch(job[p]) : ~Conflicts(f)
          BY <2>5, <3>2 DEF Resolve, Batch
    <3>. QED  BY <2>5, <3>1, <3>2 DEF Resolve
  <2>6. CASE CopyDone(p)
        BY <2>6 DEF CopyDone
  <2>7. CASE Prepare(p)
    <3>1. CASE job[p] \in aborted
          BY <2>7, <3>1 DEF Prepare
    <3>2. CASE job[p] \notin aborted
      <4>1. job[p] \in Mig /\ Inputs[job[p]] \subseteq Fact
            BY <2>7 DEF Prepare
      <4>2. prepared' = [prepared EXCEPT ![job[p]] = @ \cup Inputs[job[p]]]
            BY <2>7, <3>2 DEF Prepare
      <4>3. prepared' \in [Mig -> SUBSET Fact]
            BY <4>1, <4>2
      <4>. QED  BY <2>7, <3>2, <4>1, <4>2, <4>3 DEF Prepare
    <3>. QED  BY <2>7, <3>1, <3>2 DEF Prepare
  <2>8. CASE Publish(p)
        BY <2>8 DEF Publish
  <2>9. CASE CheckBase(p)
    <3>1. CASE current = job[p]
          BY <2>9, <3>1 DEF CheckBase
    <3>2. CASE current # job[p] /\ current = base[job[p]]
          BY <2>9, <3>2 DEF CheckBase
    <3>3. CASE current # job[p] /\ current # base[job[p]]
          BY <2>9, <3>3 DEF CheckBase
    <3>. QED  BY <2>9, <3>1, <3>2, <3>3 DEF CheckBase
  <2>10. CASE SwitchCurrent(p)
        BY <2>10 DEF SwitchCurrent
  <2>11. CASE WriteCommitRecord(p)
        BY <2>11 DEF WriteCommitRecord, Batch
  <2>12. CASE PendingRecovery(p)
        BY <2>12 DEF PendingRecovery, Batch
  <2>13. CASE Fail(p)
        BY <2>13 DEF Fail
  <2>14. CASE UndoDone(p)
    <3>1. CASE lock # p
      <4>1. Return(p) /\ UNCHANGED <<facts, txVars, current, owner, history, bounds>>
            BY <2>14, <3>1 DEF UndoDone
      <4>2. pc[p] = "undoing" /\ made[p] = {}
            BY <2>14 DEF UndoDone
      <4>. QED  BY <3>1, <4>1, <4>2
    <3>2. CASE lock = p /\ current # job[p]
      <4>1. /\ Return(p) /\ aborted' = aborted \cup {job[p]}
            /\ UNCHANGED <<facts, begun, base, planned, snapshot, prepared, published,
                           committed, current, owner, history, bounds>>
            BY <2>14, <3>2 DEF UndoDone
      <4>2. pc[p] = "undoing" /\ made[p] = {}
            BY <2>14 DEF UndoDone
      <4>. QED  BY <3>2, <4>1, <4>2
    <3>3. CASE lock = p /\ current = job[p]
      <4>1. Goto(p, "holding") /\ UNCHANGED <<facts, txVars, current, owner, history, bounds>>
            BY <2>14, <3>3 DEF UndoDone
      <4>2. pc[p] = "undoing" /\ made[p] = {}
            BY <2>14 DEF UndoDone
      <4>. QED  BY <3>3, <4>1, <4>2
    <3>. QED  BY <2>14, <3>1, <3>2, <3>3 DEF UndoDone
  <2>15. ASSUME NEW f \in Fact, CopyFact(p, f) PROVE IInv'
        BY <2>15 DEF CopyFact
  <2>16. ASSUME NEW f \in Fact, UndoFact(p, f) PROVE IInv'
        BY <2>16 DEF UndoFact
  <2>. QED  BY <1>5, <2>1, <2>2, <2>3, <2>4, <2>5, <2>6, <2>7, <2>8,
               <2>9, <2>10, <2>11, <2>12, <2>13, <2>14, <2>15, <2>16 DEF Migrate
<1>6. ASSUME NEW p \in Proc, LockTimeout(p) PROVE IInv'
      BY <1>6 DEF LockTimeout
<1>7. ASSUME NEW p \in Proc, Exit(p) PROVE IInv'
      BY <1>7 DEF Exit
<1>8. ASSUME NEW p \in Proc, Crash(p) PROVE IInv'
      BY <1>8 DEF Crash
<1>9. CASE UNCHANGED vars
      BY <1>9 DEF vars
<1>. QED  BY <1>1, <1>2, <1>3, <1>4, <1>5, <1>6, <1>7, <1>8, <1>9 DEF Next

THEOREM Invariant == Spec => []IInv
<1>. QED  BY InitInv, StepInv, PTL DEF Spec

\* Every variable keeps its type.
THEOREM AlwaysTyped == Spec => []TypeOK
<1>1. IInv => TypeOK
      BY DEF IInv
<1>. QED  BY <1>1, Invariant, PTL

\* Whatever step fails and however deaths and other clients interleave, a fact
\* that a migration created is either under a generation that became effective
\* or still in the hands of the process that will remove it.
THEOREM LeavesNothing == Spec => []NothingLeftBehind
<1>1. IInv => NothingLeftBehind
      BY DEF IInv
<1>. QED  BY <1>1, Invariant, PTL

\* The inputs of every generation that CURRENT has named can be read, because
\* Prepare stages all of them, those that were in the store before included.
THEOREM AlwaysReadable == Spec => []InputsReadable
<1>1. IInv => InputsReadable
      BY DEF IInv, StagedFirst, InputsReadable
<1>. QED  BY <1>1, Invariant, PTL

\* Facts are taken away by the undo of their own creator only, and never once
\* their migration has seen CURRENT name its generation.
Removal ==
    \A f \in facts \ facts' :
        /\ f \notin sealed
        /\ owner[f] # None
        /\ \E p \in Proc : job[p] = owner[f] /\ pc[p] = "undoing"

LEMMA StepRemoves == IInv /\ [Next]_vars => [Removal]_vars
<1> SUFFICES ASSUME IInv, Next PROVE Removal
    OBVIOUS
<1>1. CASE facts \subseteq facts'
      BY <1>1 DEF Removal
<1>2. ASSUME NEW p \in Proc, NEW f \in Fact, UndoFact(p, f) PROVE Removal
  <2>1. facts' = facts \ {f} /\ pc[p] = "undoing" /\ f \in made[p]
        BY <1>2 DEF UndoFact
  <2>2. job[p] \in Mig /\ owner[f] = job[p] /\ f \notin sealed
        BY <2>1 DEF IInv, Owned, Marked, Engaged, TypeOK, Locked
  <2>. QED  BY <2>1, <2>2, MigrationAssumption DEF Removal
<1>3. Next => facts \subseteq facts' \/ \E p \in Proc, f \in Fact : UndoFact(p, f)
      BY DEF Next, Client, Migrate, FactsStay, Preview, Rollback, Recover, StartPut, LockPut,
             Put, BeginMigration, LockMigration, ReplayMigration, WriteSnapshot, Resolve,
             CopyDone, Prepare, Publish, CheckBase, SwitchCurrent, WriteCommitRecord,
             PendingRecovery, Fail, UndoDone, CopyFact, LockTimeout, Exit, Crash
<1>. QED  BY <1>1, <1>2, <1>3

\* The undo removes what its own batch created and nothing else, although a
\* failed Commit has released the lock before it runs.
THEOREM UndoIsOwn == Spec => UndoesItsOwn
<1>1. IInv /\ [Next]_vars => [\A f \in facts \ facts' :
          owner[f] # None /\ \E p \in Proc : job[p] = owner[f] /\ pc[p] = "undoing"]_vars
      BY StepRemoves DEF Removal
<1>. QED  BY <1>1, Invariant, PTL DEF Spec, UndoesItsOwn

\* No later failure, undo or other client takes a fact away whose migration has
\* seen itself effective, also when its audit is left pending.
THEOREM SealedForGood == Spec => SealedStay
<1>1. IInv /\ [Next]_vars => [sealed \cap (facts \ facts') = {}]_vars
      BY StepRemoves DEF Removal
<1>. QED  BY <1>1, Invariant, PTL DEF Spec, SealedStay

=============================================================================
