---------------------------- MODULE RollbackStore ----------------------------
(***************************************************************************)
(* Audited rollbacks of CURRENT (BuildRollbackPlan and ApplyRollbackPlan)  *)
(* beside the generation transactions, aborts and recoveries they share    *)
(* the store with.                                                         *)
(*                                                                         *)
(* GenerationStore has the transactions in full. Here each is reduced to   *)
(* the writes a rollback can meet: the published directory, CURRENT, and   *)
(* the commit and abort records. A rollback is modelled write by write. An *)
(* operator's command is a key and a target; each invocation plans anew.   *)
(***************************************************************************)
EXTENDS Naturals

CONSTANTS
    Gen,         \* generations, each with its one transaction
    Key,         \* rollback idempotency keys
    Target,      \* the generation each key's command names
    Proc,        \* client processes
    MaxCrashes,  \* bound on process deaths
    None

ASSUME RollbackAssumption ==
    /\ None \notin Gen \cup Key \cup Proc
    /\ Target \in [Key -> Gen]
    /\ MaxCrashes \in Nat

VARIABLES
    begun,      \* generations with a transaction record
    base,       \* the CURRENT each of them was begun on
    published,  \* generations/<gen>, complete and intact
    committed,  \* transactions with commit.json
    aborted,    \* transactions with abort.json
    current,    \* CURRENT's generation
    source,     \* rollback claim and record: the CURRENT the plan was made on
    rbClaim,    \* rollback-idempotency/<key>.json: its status, or "none"
    rbRec,      \* rollbacks/<id>.json: its status, or "none"
    lock,       \* the process with the scope write lock
    pc,         \* where each process is
    job,        \* the generation or the rollback key it works on
    seen,       \* the CURRENT its plan (or its Recover) has read
    effective,  \* history: generations that CURRENT has named
    switched,   \* history: how often each key's rollback replaced CURRENT
    told,       \* history: keys whose operator has been given a result
    crashes     \* bound

genVars == <<begun, base, published, committed, aborted>>
rbVars == <<source, rbClaim, rbRec>>
procVars == <<lock, pc, job, seen>>
vars == <<genVars, rbVars, procVars, current, effective, switched, told, crashes>>

Base == Gen \cup {None}
Locked == {"publishing", "casing", "switching", "auditing", "filing",
           "checking", "claiming", "recording", "moving", "closing", "settling"}
PC == Locked \cup {"idle", "waiting", "recovering"}

TypeOK ==
    /\ begun \subseteq Gen /\ published \subseteq begun
    /\ committed \subseteq begun /\ aborted \subseteq begun
    /\ base \in [Gen -> Base]
    /\ current \in Base /\ effective \subseteq Gen
    /\ source \in [Key -> Base]
    /\ rbClaim \in [Key -> {"none", "pending", "committed"}]
    /\ rbRec \in [Key -> {"none", "pending", "committed"}]
    /\ lock \in Proc \cup {None}
    /\ pc \in [Proc -> PC]
    /\ job \in [Proc -> Gen \cup Key \cup {None}]
    /\ seen \in [Proc -> Base]
    /\ switched \in [Key -> Nat]
    /\ told \subseteq Key
    /\ crashes \in 0..MaxCrashes

Init ==
    /\ begun = {} /\ published = {} /\ committed = {} /\ aborted = {}
    /\ base = [g \in Gen |-> None]
    /\ current = None /\ effective = {}
    /\ source = [k \in Key |-> None]
    /\ rbClaim = [k \in Key |-> "none"]
    /\ rbRec = [k \in Key |-> "none"]
    /\ lock = None
    /\ pc = [p \in Proc |-> "idle"]
    /\ job = [p \in Proc |-> None]
    /\ seen = [p \in Proc |-> None]
    /\ switched = [k \in Key |-> 0]
    /\ told = {}
    /\ crashes = 0

-----------------------------------------------------------------------------

Goto(p, s) ==
    /\ pc' = [pc EXCEPT ![p] = s]
    /\ UNCHANGED <<lock, job, seen>>

Return(p) ==
    /\ pc' = [pc EXCEPT ![p] = "idle"]
    /\ job' = [job EXCEPT ![p] = None]
    /\ seen' = [seen EXCEPT ![p] = None]
    /\ lock' = IF lock = p THEN None ELSE lock

TakeLock(p, s) ==
    /\ lock = None
    /\ lock' = p
    /\ pc' = [pc EXCEPT ![p] = s]

MoveCurrent(g) ==
    /\ current' = g
    /\ effective' = effective \cup {g}

CurrentStays == UNCHANGED <<current, effective>>

-----------------------------------------------------------------------------
(* Generation transactions                                                  *)

\* Begin's claim and record, on the CURRENT the caller has read.
BeginTx(g) ==
    /\ g \notin begun
    /\ begun' = begun \cup {g}
    /\ base' = [base EXCEPT ![g] = current]
    /\ CurrentStays
    /\ UNCHANGED <<published, committed, aborted, rbVars, procVars, switched,
                   told, crashes>>

\* Begin's lock and Commit's first checks. A terminal transaction has nothing
\* left to commit.
StartCommit(p, g) ==
    /\ pc[p] = "idle"
    /\ g \in begun \ (committed \cup aborted)
    /\ TakeLock(p, "publishing")
    /\ job' = [job EXCEPT ![p] = g]
    /\ CurrentStays
    /\ UNCHANGED <<genVars, rbVars, seen, switched, told, crashes>>

Publish(p) ==
    /\ pc[p] = "publishing"
    /\ published' = published \cup {job[p]}
    /\ Goto(p, "casing")
    /\ CurrentStays
    /\ UNCHANGED <<begun, base, committed, aborted, rbVars, switched, told, crashes>>

\* Mutant: a transaction that lost the race goes on to its audit.
CheckBase_ConflictAudited(p) ==
    LET g == job[p]
    IN  /\ pc[p] = "casing"
        /\ \/ current # g /\ current = base[g] /\ Goto(p, "switching")
           \/ (current = g \/ current # base[g]) /\ Goto(p, "auditing")
        /\ CurrentStays
        /\ UNCHANGED <<genVars, rbVars, switched, told, crashes>>

CheckBase(p) ==
    LET g == job[p]
    IN  /\ pc[p] = "casing"
        /\ \/ current = g /\ Goto(p, "auditing")
           \/ current # g /\ current = base[g] /\ Goto(p, "switching")
           \/ current # g /\ current # base[g] /\ Return(p)
        /\ CurrentStays
        /\ UNCHANGED <<genVars, rbVars, switched, told, crashes>>

SwitchCurrent(p) ==
    /\ pc[p] = "switching"
    /\ MoveCurrent(job[p])
    /\ Goto(p, "auditing")
    /\ UNCHANGED <<genVars, rbVars, switched, told, crashes>>

WriteCommitRecord(p) ==
    /\ pc[p] = "auditing"
    /\ committed' = committed \cup {job[p]}
    /\ Return(p)
    /\ CurrentStays
    /\ UNCHANGED <<begun, base, published, aborted, rbVars, switched, told, crashes>>

\* Abort, under the lock for the length of its one write: refused for a
\* committed transaction and for the one CURRENT names.
Abort(g) ==
    /\ lock = None
    /\ g \in begun \ committed
    /\ current # g
    /\ aborted' = aborted \cup {g}
    /\ CurrentStays
    /\ UNCHANGED <<begun, base, published, committed, rbVars, procVars, switched,
                   told, crashes>>

\* Recover reads CURRENT without the lock; its generation document leads it to
\* a transaction, never to a rollback record.
StartRecover(p) ==
    /\ pc[p] = "idle"
    /\ current \in Gen \ committed
    /\ seen' = [seen EXCEPT ![p] = current]
    /\ pc' = [pc EXCEPT ![p] = "recovering"]
    /\ CurrentStays
    /\ UNCHANGED <<genVars, rbVars, lock, job, switched, told, crashes>>

RecoverLock(p) ==
    /\ pc[p] = "recovering"
    /\ TakeLock(p, "filing")
    /\ CurrentStays
    /\ UNCHANGED <<genVars, rbVars, job, seen, switched, told, crashes>>

FileCommitRecord(p) ==
    /\ pc[p] = "filing"
    /\ committed' = committed \cup {seen[p]}
    /\ Return(p)
    /\ CurrentStays
    /\ UNCHANGED <<begun, base, published, aborted, rbVars, switched, told, crashes>>

-----------------------------------------------------------------------------
(* Rollback                                                                 *)

\* BuildRollbackPlan, without the lock: CURRENT is read, and an ineligible
\* target ends the invocation there.
PlanRollback(p, k) ==
    /\ pc[p] = "idle"
    /\ current # None
    /\ Target[k] \in published \ {current}
    /\ seen' = [seen EXCEPT ![p] = current]
    /\ job' = [job EXCEPT ![p] = k]
    /\ pc' = [pc EXCEPT ![p] = "waiting"]
    /\ CurrentStays
    /\ UNCHANGED <<genVars, rbVars, lock, switched, told, crashes>>

RollbackLock(p) ==
    /\ pc[p] = "waiting"
    /\ TakeLock(p, "checking")
    /\ CurrentStays
    /\ UNCHANGED <<genVars, rbVars, job, seen, switched, told, crashes>>

\* Mutant: a replay is answered from its record, whatever the record says.
ReplayRollback_Pending(p) ==
    LET k == job[p]
    IN  /\ pc[p] = "checking"
        /\ rbClaim[k] # "none"
        /\ told' = IF source[k] = seen[p] THEN told \cup {k} ELSE told
        /\ Return(p)
        /\ CurrentStays
        /\ UNCHANGED <<genVars, rbVars, switched, crashes>>

\* A key that is claimed by another request is refused. One that is claimed by
\* this request is answered from its record, and refused while that is pending.
ReplayRollback(p) ==
    LET k == job[p]
    IN  /\ pc[p] = "checking"
        /\ rbClaim[k] # "none"
        /\ told' = IF source[k] = seen[p] /\ rbRec[k] = "committed"
                   THEN told \cup {k} ELSE told
        /\ Return(p)
        /\ CurrentStays
        /\ UNCHANGED <<genVars, rbVars, switched, crashes>>

\* A new key: CURRENT must still be the plan's source.
CheckRollback(p) ==
    LET k == job[p]
    IN  /\ pc[p] = "checking"
        /\ rbClaim[k] = "none"
        /\ \/ current = seen[p] /\ Goto(p, "claiming")
           \/ current # seen[p] /\ Return(p)
        /\ CurrentStays
        /\ UNCHANGED <<genVars, rbVars, switched, told, crashes>>

ClaimRollback(p) ==
    /\ pc[p] = "claiming"
    /\ rbClaim' = [rbClaim EXCEPT ![job[p]] = "pending"]
    /\ source' = [source EXCEPT ![job[p]] = seen[p]]
    /\ Goto(p, "recording")
    /\ CurrentStays
    /\ UNCHANGED <<genVars, rbRec, switched, told, crashes>>

\* Mutant: the record is left to the end.
RecordRollback_Late(p) ==
    /\ pc[p] = "recording"
    /\ Goto(p, "moving")
    /\ CurrentStays
    /\ UNCHANGED <<genVars, rbVars, switched, told, crashes>>

RecordRollback(p) ==
    /\ pc[p] = "recording"
    /\ rbRec' = [rbRec EXCEPT ![job[p]] = "pending"]
    /\ Goto(p, "moving")
    /\ CurrentStays
    /\ UNCHANGED <<genVars, source, rbClaim, switched, told, crashes>>

SwitchBack(p) ==
    /\ pc[p] = "moving"
    /\ MoveCurrent(Target[job[p]])
    /\ switched' = [switched EXCEPT ![job[p]] = @ + 1]
    /\ Goto(p, "closing")
    /\ UNCHANGED <<genVars, rbVars, told, crashes>>

CloseRecord(p) ==
    /\ pc[p] = "closing"
    /\ rbRec' = [rbRec EXCEPT ![job[p]] = "committed"]
    /\ Goto(p, "settling")
    /\ CurrentStays
    /\ UNCHANGED <<genVars, source, rbClaim, switched, told, crashes>>

CloseClaim(p) ==
    /\ pc[p] = "settling"
    /\ rbClaim' = [rbClaim EXCEPT ![job[p]] = "committed"]
    /\ told' = told \cup {job[p]}
    /\ Return(p)
    /\ CurrentStays
    /\ UNCHANGED <<genVars, source, rbRec, switched, crashes>>

-----------------------------------------------------------------------------

\* A process dies, or one of its writes fails and it returns the error.
Crash(p) ==
    /\ crashes < MaxCrashes
    /\ crashes' = crashes + 1
    /\ pc[p] # "idle"
    /\ Return(p)
    /\ CurrentStays
    /\ UNCHANGED <<genVars, rbVars, switched, told>>

Rollback(p) ==
    \/ \E k \in Key : PlanRollback(p, k)
    \/ RollbackLock(p) \/ ReplayRollback(p) \/ CheckRollback(p)
    \/ ClaimRollback(p) \/ RecordRollback(p) \/ SwitchBack(p)
    \/ CloseRecord(p) \/ CloseClaim(p)

Commit(p) ==
    \/ \E g \in Gen : StartCommit(p, g)
    \/ Publish(p) \/ CheckBase(p) \/ SwitchCurrent(p) \/ WriteCommitRecord(p)

Recover(p) == StartRecover(p) \/ RecoverLock(p) \/ FileCommitRecord(p)

Step(p) == Commit(p) \/ Recover(p) \/ Rollback(p)

Next ==
    \/ \E g \in Gen : BeginTx(g) \/ Abort(g)
    \/ \E p \in Proc : Step(p) \/ Crash(p)

Spec == Init /\ [][Next]_vars

\* Every process finishes what it started, and every command is repeated for as
\* long as it is eligible.
FairSpec ==
    /\ Spec
    /\ \A p \in Proc : WF_vars(Step(p))
    /\ \A k \in Key : SF_vars(\E p \in Proc : PlanRollback(p, k))

-----------------------------------------------------------------------------
(* Properties *)

\* CURRENT always names a complete generation, although a rollback's target was
\* examined before the lock was taken and transactions publish in between.
CurrentPublished == current \in published \cup {None}

\* The audit tells the truth at every crash point: no switch without a record,
\* no committed record without its one switch, and a claim is closed last.
RollbackAudited ==
    \A k \in Key : /\ switched[k] > 0 => rbRec[k] # "none"
                   /\ rbRec[k] = "committed" => switched[k] = 1
                   /\ rbRec[k] # "none" => rbClaim[k] # "none"
                   /\ rbClaim[k] = "committed" => rbRec[k] = "committed"

\* Recover and Commit file commit records only for generations CURRENT has
\* named, also when a rollback moves CURRENT away between Recover's read and
\* its write.
CommittedWereEffective == committed \subseteq effective

\* An operator is told a rollback is done only when its record says so.
ToldTruth == \A k \in told : rbRec[k] = "committed" /\ switched[k] = 1

CurrentMove ==
    current' # current =>
        \/ \E k \in Key : /\ switched' = [switched EXCEPT ![k] = 1]
                          /\ switched[k] = 0
                          /\ current = source[k] /\ current' = Target[k]
        \/ /\ switched' = switched
           /\ current = base[current'] /\ current' \notin aborted
\* No lost update of CURRENT between rollbacks and transactions: a rollback
\* replaces the generation its plan was made on, once, and a transaction the
\* base it was begun on.
MovesWhatItRead == [][CurrentMove]_vars

\* What MEM-05C promises (section 2 of its plan: repeating the key and the
\* request is a no-op, and a failure after the switch is only recovery-pending):
\* a claimed rollback whose command is repeated is settled in the end.
\* A process that dies, or fails, after the claim leaves a record that nothing
\* completes: Recover never reads it and every repetition is refused.
RollbackSettles == \A k \in Key : (rbClaim[k] = "pending") ~> (rbRec[k] = "committed")

=============================================================================
