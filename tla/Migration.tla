------------------------------- MODULE Migration -------------------------------
(***************************************************************************)
(* Same-scope migrations (ApplyMigration) and single writes (Put) into one *)
(* target store, with the batch copy, its undo and the generation          *)
(* transaction that follows under the same lock.                           *)
(*                                                                         *)
(* The source store is only read, so it appears as constants. The claim,   *)
(* record and publication of a generation are reduced to one write each:   *)
(* GenerationStore has them in full. The code writes a batch, and removes  *)
(* what it wrote, fact by fact in the order of the batch; the model does   *)
(* it fact by fact in any order. Since an identity is looked up and        *)
(* created under one lock, link(2) never finds it taken and that error is  *)
(* left out.                                                               *)
(***************************************************************************)
EXTENDS Naturals

CONSTANTS
    Fact,            \* facts: an identity with a content
    Identity,        \* the identity of each fact
    Mig,             \* migrations: a key with its plan
    Inputs,          \* the source facts each migration copies
    SourceManifest,  \* and the source manifest copied with them
    Puts,            \* facts that clients write with Put
    Proc,            \* processes on the target store
    MaxCrashes,      \* bound on process deaths
    MaxFailures,     \* bound on failing writes
    None

ASSUME MigrationAssumption ==
    /\ None \notin Fact \cup Mig \cup Proc
    /\ Fact \cap Mig = {}
    /\ Inputs \in [Mig -> SUBSET Fact]
    /\ SourceManifest \in [Mig -> Fact]
    /\ Puts \subseteq Fact
    /\ MaxCrashes \in Nat /\ MaxFailures \in Nat

VARIABLES
    facts,      \* the permanent facts
    begun,      \* migrations with a claim and a transaction record
    base,       \* the target CURRENT each plan was previewed on
    planned,    \* migrations with a plan
    snapshot,   \* migration-snapshots
    prepared,   \* the facts staged in each transaction record
    published,  \* generations of migrations
    committed,  \* transactions with commit.json
    aborted,    \* transactions with abort.json
    current,    \* CURRENT, as the migration it names
    lock,       \* the process with the write lock
    pc, job,    \* where each process is, and with which migration or fact
    todo,       \* facts its batch has still to write
    made,       \* facts its batch has created (createdPath)
    owner,      \* history: the migration whose live batch created a fact
    sealed,     \* history: created facts whose migration saw itself effective
    effective,  \* history: migrations CURRENT has named
    acked,      \* history: facts a client was told are stored
    crashes, failures

txVars == <<begun, base, planned, snapshot, prepared, published, committed, aborted>>
procVars == <<lock, pc, job, todo, made>>
history == <<sealed, effective, acked>>
bounds == <<crashes, failures>>
vars == <<facts, txVars, current, procVars, owner, history, bounds>>

Batch(m) == Inputs[m] \cup {SourceManifest[m]}

\* Where an error aborts the migration, and where it fails its Commit.
BeforeCommit == {"snapshotting", "resolving", "copying", "preparing"}
InCommit == {"publishing", "casing", "switching"}
PC == BeforeCommit \cup InCommit
        \cup {"idle", "waiting", "auditing", "undoing", "holding", "putting"}

TypeOK ==
    /\ facts \subseteq Fact
    /\ begun \subseteq planned /\ planned \subseteq Mig
    /\ base \in [Mig -> Mig \cup {None}]
    /\ snapshot \subseteq begun
    /\ prepared \in [Mig -> SUBSET Fact]
    /\ published \subseteq begun /\ committed \subseteq begun /\ aborted \subseteq begun
    /\ current \in Mig \cup {None} /\ effective \subseteq Mig
    /\ lock \in Proc \cup {None}
    /\ pc \in [Proc -> PC]
    /\ job \in [Proc -> Mig \cup Fact \cup {None}]
    /\ todo \in [Proc -> SUBSET Fact] /\ made \in [Proc -> SUBSET Fact]
    /\ owner \in [Fact -> Mig \cup {None}]
    /\ sealed \subseteq Fact /\ acked \subseteq Fact
    /\ crashes \in 0..MaxCrashes /\ failures \in 0..MaxFailures

Init ==
    /\ facts = {} /\ begun = {} /\ planned = {} /\ snapshot = {}
    /\ base = [m \in Mig |-> None]
    /\ prepared = [m \in Mig |-> {}]
    /\ published = {} /\ committed = {} /\ aborted = {}
    /\ current = None /\ effective = {}
    /\ lock = None
    /\ pc = [p \in Proc |-> "idle"] /\ job = [p \in Proc |-> None]
    /\ todo = [p \in Proc |-> {}] /\ made = [p \in Proc |-> {}]
    /\ owner = [f \in Fact |-> None]
    /\ sealed = {} /\ acked = {}
    /\ crashes = 0 /\ failures = 0

-----------------------------------------------------------------------------

Goto(p, s) ==
    /\ pc' = [pc EXCEPT ![p] = s]
    /\ UNCHANGED <<lock, job, todo, made>>

Return(p) ==
    /\ pc' = [pc EXCEPT ![p] = "idle"]
    /\ job' = [job EXCEPT ![p] = None]
    /\ todo' = [todo EXCEPT ![p] = {}]
    /\ made' = [made EXCEPT ![p] = {}]
    /\ lock' = IF lock = p THEN None ELSE lock

Unlock(p, s) ==
    /\ pc' = [pc EXCEPT ![p] = s]
    /\ lock' = None
    /\ UNCHANGED <<job, todo, made>>

TakeLock(p, s) ==
    /\ lock = None
    /\ lock' = p
    /\ pc' = [pc EXCEPT ![p] = s]
    /\ UNCHANGED <<job, todo, made>>

FactsStay == UNCHANGED <<facts, owner>>

Conflicts(f) == \E g \in facts : g # f /\ Identity[g] = Identity[f]

-----------------------------------------------------------------------------
(* Put                                                                      *)

StartPut(p, f) ==
    /\ pc[p] = "idle"
    /\ pc' = [pc EXCEPT ![p] = "waiting"]
    /\ job' = [job EXCEPT ![p] = f]
    /\ FactsStay
    /\ UNCHANGED <<txVars, current, lock, todo, made, history, bounds>>

LockPut(p) ==
    /\ pc[p] = "waiting" /\ job[p] \in Fact
    /\ TakeLock(p, "putting")
    /\ FactsStay
    /\ UNCHANGED <<txVars, current, history, bounds>>

\* The same content is a no-op, another content of the identity a conflict.
Put(p) ==
    LET f == job[p]
    IN  /\ pc[p] = "putting"
        /\ \/ /\ Conflicts(f)
              /\ UNCHANGED <<facts, acked>>
           \/ /\ ~Conflicts(f)
              /\ facts' = facts \cup {f}
              /\ acked' = acked \cup {f}
        /\ Return(p)
        /\ UNCHANGED <<txVars, current, owner, sealed, effective, bounds>>

-----------------------------------------------------------------------------
(* ApplyMigration                                                           *)

\* BuildMigrationPlanFromStores: the target's CURRENT is part of the plan.
Preview(m) ==
    /\ m \notin planned
    /\ planned' = planned \cup {m}
    /\ base' = [base EXCEPT ![m] = current]
    /\ FactsStay
    /\ UNCHANGED <<begun, snapshot, prepared, published, committed, aborted,
                   current, procVars, history, bounds>>

\* The source is verified, then Begin claims the key and waits for the lock.
BeginMigration(p, m) ==
    /\ pc[p] = "idle"
    /\ m \in planned
    /\ begun' = begun \cup {m}
    /\ pc' = [pc EXCEPT ![p] = "waiting"]
    /\ job' = [job EXCEPT ![p] = m]
    /\ FactsStay
    /\ UNCHANGED <<base, planned, snapshot, prepared, published, committed,
                   aborted, current, lock, todo, made, history, bounds>>

LockMigration(p) ==
    /\ pc[p] = "waiting" /\ job[p] \in Mig \ committed
    /\ TakeLock(p, "snapshotting")
    /\ FactsStay
    /\ UNCHANGED <<txVars, current, history, bounds>>

\* The replay of a committed migration returns the first result and copies
\* nothing. (The lock is taken and released within the step.)
ReplayMigration(p) ==
    /\ pc[p] = "waiting" /\ job[p] \in committed
    /\ lock = None
    /\ Return(p)
    /\ FactsStay
    /\ UNCHANGED <<txVars, current, history, bounds>>

LockTimeout(p) ==
    /\ pc[p] = "waiting"
    /\ lock # None
    /\ Return(p)
    /\ FactsStay
    /\ UNCHANGED <<txVars, current, history, bounds>>

WriteSnapshot(p) ==
    /\ pc[p] = "snapshotting"
    /\ snapshot' = snapshot \cup {job[p]}
    /\ Goto(p, "resolving")
    /\ FactsStay
    /\ UNCHANGED <<begun, base, planned, prepared, published, committed,
                   aborted, current, history, bounds>>

\* Mutant: a fact that was there already counts as created by the batch.
Resolve_NoopCreated(p) ==
    LET b == Batch(job[p])
    IN  /\ pc[p] = "resolving"
        /\ \/ /\ \E f \in b : Conflicts(f)
              /\ Goto(p, "undoing")
           \/ /\ \A f \in b : ~Conflicts(f)
              /\ todo' = [todo EXCEPT ![p] = b \ facts]
              /\ made' = [made EXCEPT ![p] = b \cap facts]
              /\ pc' = [pc EXCEPT ![p] = "copying"]
              /\ UNCHANGED <<lock, job>>
        /\ FactsStay
        /\ UNCHANGED <<txVars, current, history, bounds>>

\* prepareBatch: the whole batch is resolved before its first write. A conflict
\* refuses it and the transaction is aborted.
Resolve(p) ==
    LET b == Batch(job[p])
    IN  /\ pc[p] = "resolving"
        /\ \/ /\ \E f \in b : Conflicts(f)
              /\ Goto(p, "undoing")
           \/ /\ \A f \in b : ~Conflicts(f)
              /\ todo' = [todo EXCEPT ![p] = b \ facts]
              /\ pc' = [pc EXCEPT ![p] = "copying"]
              /\ UNCHANGED <<lock, job, made>>
        /\ FactsStay
        /\ UNCHANGED <<txVars, current, history, bounds>>

CopyFact(p, f) ==
    /\ pc[p] = "copying" /\ f \in todo[p]
    /\ facts' = facts \cup {f}
    /\ owner' = [owner EXCEPT ![f] = job[p]]
    /\ todo' = [todo EXCEPT ![p] = @ \ {f}]
    /\ made' = [made EXCEPT ![p] = @ \cup {f}]
    /\ UNCHANGED <<txVars, current, lock, pc, job, history, bounds>>

CopyDone(p) ==
    /\ pc[p] = "copying" /\ todo[p] = {}
    /\ Goto(p, "preparing")
    /\ FactsStay
    /\ UNCHANGED <<txVars, current, history, bounds>>

\* Mutant: a fact the store already had is not staged in the transaction.
Prepare_NewOnly(p) ==
    LET m == job[p]
    IN  /\ pc[p] = "preparing"
        /\ \/ /\ m \in aborted
              /\ Goto(p, "undoing")
              /\ UNCHANGED prepared
           \/ /\ m \notin aborted
              /\ prepared' = [prepared EXCEPT ![m] =
                                @ \cup (Inputs[m] \cap made[p])]
              /\ Goto(p, "publishing")
        /\ FactsStay
        /\ UNCHANGED <<begun, base, planned, snapshot, published, committed,
                       aborted, current, history, bounds>>

\* PrepareFact for every input, then the compiled output and the manifest of
\* the new generation. The key of an aborted migration gets this far.
Prepare(p) ==
    LET m == job[p]
    IN  /\ pc[p] = "preparing"
        /\ \/ /\ m \in aborted
              /\ Goto(p, "undoing")
              /\ UNCHANGED prepared
           \/ /\ m \notin aborted
              /\ prepared' = [prepared EXCEPT ![m] = @ \cup Inputs[m]]
              /\ Goto(p, "publishing")
        /\ FactsStay
        /\ UNCHANGED <<begun, base, planned, snapshot, published, committed,
                       aborted, current, history, bounds>>

Publish(p) ==
    /\ pc[p] = "publishing"
    /\ published' = published \cup {job[p]}
    /\ Goto(p, "casing")
    /\ FactsStay
    /\ UNCHANGED <<begun, base, planned, snapshot, prepared, committed, aborted,
                   current, history, bounds>>

\* Mutant: the conflict is returned like a success, without the undo.
CheckBase_NoUndo(p) ==
    LET m == job[p]
    IN  /\ pc[p] = "casing"
        /\ \/ /\ current = m
              /\ Goto(p, "auditing")
              /\ sealed' = sealed \cup made[p]
           \/ /\ current # m /\ current = base[m]
              /\ Goto(p, "switching")
              /\ UNCHANGED sealed
           \/ /\ current # m /\ current # base[m]
              /\ Return(p)
              /\ UNCHANGED sealed
        /\ FactsStay
        /\ UNCHANGED <<txVars, current, effective, acked, bounds>>

\* On a conflict Commit releases the lock and returns the error; the facts are
\* undone after it, without the lock.
CheckBase(p) ==
    LET m == job[p]
    IN  /\ pc[p] = "casing"
        /\ \/ /\ current = m
              /\ Goto(p, "auditing")
              /\ sealed' = sealed \cup made[p]
           \/ /\ current # m /\ current = base[m]
              /\ Goto(p, "switching")
              /\ UNCHANGED sealed
           \/ /\ current # m /\ current # base[m]
              /\ Unlock(p, "undoing")
              /\ UNCHANGED sealed
        /\ FactsStay
        /\ UNCHANGED <<txVars, current, effective, acked, bounds>>

SwitchCurrent(p) ==
    /\ pc[p] = "switching"
    /\ current' = job[p]
    /\ effective' = effective \cup {job[p]}
    /\ sealed' = sealed \cup made[p]
    /\ Goto(p, "auditing")
    /\ FactsStay
    /\ UNCHANGED <<txVars, acked, bounds>>

WriteCommitRecord(p) ==
    /\ pc[p] = "auditing"
    /\ committed' = committed \cup {job[p]}
    /\ acked' = acked \cup Batch(job[p])
    /\ Return(p)
    /\ FactsStay
    /\ UNCHANGED <<begun, base, planned, snapshot, prepared, published, aborted,
                   current, sealed, effective, bounds>>

\* Mutant: every error of Commit undoes the facts.
PendingRecovery_Undone(p) ==
    /\ pc[p] = "auditing"
    /\ failures < MaxFailures
    /\ failures' = failures + 1
    /\ acked' = acked \cup Batch(job[p])
    /\ Goto(p, "undoing")
    /\ FactsStay
    /\ UNCHANGED <<txVars, current, sealed, effective, crashes>>

\* The audit fails: recovery is pending, nothing is undone, and the lock stays
\* with a transaction the caller no longer has.
PendingRecovery(p) ==
    /\ pc[p] = "auditing"
    /\ failures < MaxFailures
    /\ failures' = failures + 1
    /\ acked' = acked \cup Batch(job[p])
    /\ Goto(p, "holding")
    /\ FactsStay
    /\ UNCHANGED <<txVars, current, sealed, effective, crashes>>

\* A write fails: before Commit the lock is still held, within Commit it is
\* released first.
Fail(p) ==
    /\ failures < MaxFailures
    /\ failures' = failures + 1
    /\ \/ pc[p] \in BeforeCommit /\ Goto(p, "undoing")
       \/ pc[p] \in InCommit /\ Unlock(p, "undoing")
    /\ FactsStay
    /\ UNCHANGED <<txVars, current, history, crashes>>

UndoFact(p, f) ==
    /\ pc[p] = "undoing" /\ f \in made[p]
    /\ facts' = facts \ {f}
    /\ owner' = [owner EXCEPT ![f] = None]
    /\ made' = [made EXCEPT ![p] = @ \ {f}]
    /\ UNCHANGED <<txVars, current, lock, pc, job, todo, history, bounds>>

\* A failed Commit is only returned. Any other failure aborts the transaction,
\* which is refused, and keeps the lock, once CURRENT names it.
UndoDone(p) ==
    LET m == job[p]
    IN  /\ pc[p] = "undoing" /\ made[p] = {}
        /\ \/ /\ lock # p
              /\ Return(p)
              /\ UNCHANGED aborted
           \/ /\ lock = p /\ current # m
              /\ aborted' = aborted \cup {m}
              /\ Return(p)
           \/ /\ lock = p /\ current = m
              /\ Goto(p, "holding")
              /\ UNCHANGED aborted
        /\ FactsStay
        /\ UNCHANGED <<begun, base, planned, snapshot, prepared, published,
                       committed, current, history, bounds>>

-----------------------------------------------------------------------------
(* Around the migrations                                                    *)

\* ApplyRollbackPlan may name any published generation, orphans included.
Rollback(m) ==
    /\ lock = None
    /\ current # None /\ m \in published \ {current}
    /\ current' = m
    /\ effective' = effective \cup {m}
    /\ FactsStay
    /\ UNCHANGED <<txVars, procVars, sealed, acked, bounds>>

\* Recover completes the audit of the generation CURRENT names.
Recover ==
    /\ lock = None
    /\ current \in Mig \ committed
    /\ committed' = committed \cup {current}
    /\ FactsStay
    /\ UNCHANGED <<begun, base, planned, snapshot, prepared, published, aborted,
                   current, procVars, history, bounds>>

\* The process that was left with the lock ends.
Exit(p) ==
    /\ pc[p] = "holding"
    /\ Return(p)
    /\ FactsStay
    /\ UNCHANGED <<txVars, current, history, bounds>>

\* A process dies. What its batch had created stays, and is nobody's to undo.
Crash(p) ==
    /\ crashes < MaxCrashes
    /\ crashes' = crashes + 1
    /\ pc[p] \notin {"idle", "holding"}
    /\ owner' = [f \in Fact |-> IF f \in made[p] THEN None ELSE owner[f]]
    /\ Return(p)
    /\ UNCHANGED <<facts, txVars, current, history, failures>>

Client(p) == (\E f \in Puts : StartPut(p, f)) \/ LockPut(p) \/ Put(p)

Migrate(p) ==
    \/ \E m \in Mig : BeginMigration(p, m)
    \/ LockMigration(p) \/ ReplayMigration(p)
    \/ WriteSnapshot(p) \/ Resolve(p) \/ CopyDone(p)
    \/ Prepare(p) \/ Publish(p) \/ CheckBase(p) \/ SwitchCurrent(p)
    \/ WriteCommitRecord(p) \/ PendingRecovery(p)
    \/ Fail(p) \/ UndoDone(p)
    \/ \E f \in Fact : CopyFact(p, f) \/ UndoFact(p, f)

Next ==
    \/ \E m \in Mig : Preview(m) \/ Rollback(m)
    \/ Recover
    \/ \E p \in Proc : Client(p) \/ Migrate(p) \/ LockTimeout(p) \/ Exit(p) \/ Crash(p)

Spec == Init /\ [][Next]_vars

-----------------------------------------------------------------------------
(* Properties *)

\* A fact a migration created is accounted for at every moment: its generation
\* became effective under it, or its live process will still undo it. So a
\* failure that is returned leaves nothing behind; only a death does.
NothingLeftBehind ==
    \A f \in facts : owner[f] # None =>
        f \in sealed \/ \E p \in Proc : f \in made[p]

\* The undo removes what its own batch created and nothing else: not what was
\* there before, not what another client or a dead attempt had written.
UndoesItsOwn ==
    [][\A f \in facts \ facts' :
          owner[f] # None /\ \E p \in Proc : job[p] = owner[f] /\ pc[p] = "undoing"]_vars

\* Once a migration has seen CURRENT name its generation, whether or not its
\* audit succeeds, the facts it created stay.
SealedStay == [][sealed \cap (facts \ facts') = {}]_vars

\* Every input of a generation that was ever effective can be read, as a fact
\* or from its transaction record, although another migration's undo may take
\* the fact and a rollback may make an undone migration effective.
InputsReadable == \A m \in effective : Inputs[m] \subseteq facts \cup prepared[m]

\* Facts are not deleted (MEM-01D, section 4: no failing step deletes a
\* canonical fact; MEM-05D: only new facts of this migration are undone and
\* existing facts are kept). A fact whose client was told that it is stored is
\* there. Undone without the lock, a fact may have been acknowledged as already
\* stored to another client in between.
AckedStay == acked \subseteq facts

=============================================================================
