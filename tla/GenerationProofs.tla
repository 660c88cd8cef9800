--------------------------- MODULE GenerationProofs ---------------------------
(***************************************************************************)
(* The inductive invariant of GenerationStore, and what follows from it    *)
(* for every set of keys, processes, requests, compilers and manifests.    *)
(***************************************************************************)
EXTENDS GenerationStore, TLAPS

\* The lock is held by exactly the processes that believe they hold it.
LockInv == \A p \in Proc : pc[p] \in Locked <=> lock = p

\* A process names a transaction whose claim exists, and from finalizeBegin on
\* one whose record exists.
HandleInv ==
    \A p \in Proc :
        /\ pc[p] \in {"recording", "locking", "binding"} =>
              tx[p] \in Tx /\ claim[tx[p]] # "none"
        /\ pc[p] \in Open \cup Committing \cup {"aborting"} =>
              tx[p] \in Tx /\ record[tx[p]]

\* What a claim binds: a record and a base need one first.
BindingInv ==
    \A t \in Tx : /\ record[t] => claim[t] # "none"
                  /\ request[t] # None => claim[request[t]] # "none"

\* Staging holds views only for a compiler that writes them, all of them when a
\* handle has compiled, and a published directory is intact.
StagingInv ==
    /\ \A t \in Tx : /\ views[t] => t \in Okf
                     /\ published[t] # "none" => Intact(t)
    /\ \A p \in Proc :
          /\ pc[p] \in {"compiled", "validated"} => (views[tx[p]] <=> tx[p] \in Okf)
          /\ pc[p] = "pending" => published[tx[p]] # "none"
          /\ pc[p] \in {"manifesting", "publishing"} =>
                /\ doc[tx[p]] = BuiltDoc(tx[p])
                /\ published[tx[p]] # "none" \/ (views[tx[p]] <=> tx[p] \in Okf)

\* What is on disk, and known of CURRENT, at each step of Commit.
CommitInv ==
    \A p \in Proc :
        /\ pc[p] \in Committing => prepManifest[tx[p]] # None
        /\ pc[p] \in Committing \ {"manifesting"} => manifestFact[tx[p]] # None
        /\ pc[p] \in {"casing", "switching", "auditing", "claiming"} =>
              published[tx[p]] # "none"
        /\ pc[p] \in {"manifesting", "publishing", "casing", "switching"} =>
              ~abortRec[tx[p]]
        /\ pc[p] = "switching" => current = request[tx[p]] /\ current # tx[p]
        /\ pc[p] \in {"auditing", "claiming", "pending"} => tx[p] \in effective
        /\ pc[p] = "claiming" => commitRec[tx[p]] # None

\* An effective generation is complete, and its base was effective before it
\* and is not CURRENT any more.
LineageInv ==
    /\ current \in effective \cup {None}
    /\ \A t \in effective : /\ record[t]
                            /\ prepManifest[t] # None
                            /\ manifestFact[t] # None
                            /\ published[t] # "none"
                            /\ request[t] \in effective \cup {None}
                            /\ request[t] # current

\* What the processes know of terminal records is written down.
TerminalInv ==
    /\ \A p \in Proc :
          /\ pc[p] = "aborting" => abortRec[tx[p]]
          /\ pc[p] \in {"scanning", "recovering", "completing"} =>
                tx[p] \in effective \cup {None}
          /\ pc[p] \in {"restoring", "filing", "syncing"} => tx[p] \in effective
          /\ pc[p] = "syncing" => commitRec[tx[p]] # None
          /\ \A e \in todo[p] :
                /\ claim[e[1]] # "none"
                /\ IF e[2] = "committed" THEN commitRec[e[1]] # None
                                         ELSE abortRec[e[1]]

IInv ==
    /\ TypeOK /\ LockInv /\ HandleInv /\ BindingInv /\ StagingInv /\ CommitInv
    /\ LineageInv /\ TerminalInv
    /\ OneSuccessor /\ CommitRecordEarned /\ ClaimFollowsRecord

-----------------------------------------------------------------------------
(* One lemma per part of the invariant, one step per action.               *)

LEMMA InitEstablishes == Init => IInv
  BY StoreAssumption DEF Init, IInv, TypeOK, LockInv, HandleInv, BindingInv,
     StagingInv, CommitInv, LineageInv, TerminalInv, OneSuccessor,
     CommitRecordEarned, ClaimFollowsRecord, Status, Docs, PC, Base, Locked,
     Open, Committing

\* Every step keeps the types.
LEMMA TypeStep == TypeOK /\ HandleInv /\ [Next]_vars => TypeOK'
<1> SUFFICES ASSUME TypeOK, HandleInv, [Next]_vars
             PROVE  TypeOK'
    OBVIOUS
<1> USE StoreAssumption DEF TypeOK, Goto, Return, Status, Docs, Base, PC,
        Locked, Open, Committing, recordVars, stagingVars, factVars,
        currentVars, diskVars, procVars
<1>0. CASE UNCHANGED vars
    BY <1>0 DEF vars
<1>1. ASSUME NEW p \in Proc, NEW t \in Tx, NEW b \in Base, Claim(p, t, b)
      PROVE  TypeOK'
    BY <1>1 DEF Claim
<1>2. ASSUME NEW p \in Proc, CreateTxRecord(p)
      PROVE  TypeOK'
  <2>1. record' \in [Tx -> BOOLEAN]
      BY <1>2 DEF CreateTxRecord
  <2>q. QED
      BY <1>2, <2>1 DEF CreateTxRecord
<1>3. ASSUME NEW p \in Proc, NEW m \in Manifests, PrepareManifest(p, m)
      PROVE  TypeOK'
    BY <1>3 DEF PrepareManifest
<1>4. ASSUME NEW p \in Proc, WriteCompiledOutput(p)
      PROVE  TypeOK'
    BY <1>4 DEF WriteCompiledOutput
<1>5. ASSUME NEW p \in Proc, ValidateStaging(p)
      PROVE  TypeOK'
    BY <1>5 DEF ValidateStaging, Build, BuiltDoc
<1>6. ASSUME NEW p \in Proc, StartCommit(p)
      PROVE  TypeOK'
    BY <1>6 DEF StartCommit, Committable, Build, BuiltDoc
<1>7. ASSUME NEW p \in Proc, PutManifest(p)
      PROVE  TypeOK'
    BY <1>7 DEF PutManifest
<1>8. ASSUME NEW p \in Proc, Publish(p)
      PROVE  TypeOK'
  <2>1. tx[p] \in Tx => doc[tx[p]] \in Docs
      OBVIOUS
  <2>2. published' \in [Tx -> Docs]
      BY <1>8, <2>1 DEF Publish
  <2>3. doc' \in [Tx -> Docs]
      BY <1>8 DEF Publish
  <2>4. views' \in [Tx -> BOOLEAN]
      BY <1>8 DEF Publish
  <2>q. QED
      BY <1>8, <2>2, <2>3, <2>4 DEF Publish
<1>9. ASSUME NEW p \in Proc, SwitchCurrent(p)
      PROVE  TypeOK'
    BY <1>9 DEF SwitchCurrent, HandleInv
<1>10. ASSUME NEW p \in Proc, WriteCommitRecord(p)
      PROVE  TypeOK'
    BY <1>10 DEF WriteCommitRecord
<1>11. ASSUME NEW p \in Proc, UpdateClaimStatus(p)
      PROVE  TypeOK'
    BY <1>11 DEF UpdateClaimStatus
<1>12. ASSUME NEW p \in Proc, StartRecover(p)
      PROVE  TypeOK'
    BY <1>12 DEF StartRecover
<1>13. ASSUME NEW p \in Proc, ScanRecover(p)
      PROVE  TypeOK'
    BY <1>13 DEF ScanRecover, Drifted
<1>14. ASSUME NEW p \in Proc, CompleteClaim(p)
      PROVE  TypeOK'
    BY <1>14 DEF CompleteClaim
<1>15. ASSUME NEW p \in Proc, RestoreManifest(p)
      PROVE  TypeOK'
    BY <1>15 DEF RestoreManifest
<1>16. ASSUME NEW p \in Proc, FileCommitRecord(p)
      PROVE  TypeOK'
    BY <1>16 DEF FileCommitRecord
<1>17. ASSUME NEW p \in Proc, SyncClaim(p)
      PROVE  TypeOK'
    BY <1>17 DEF SyncClaim
<1>18. ASSUME NEW p \in Proc, Abort(p)
      PROVE  TypeOK'
  <2>1. abortRec' \in [Tx -> BOOLEAN]
      BY <1>18 DEF Abort
  <2>q. QED
      BY <1>18, <2>1 DEF Abort
<1>19. ASSUME NEW p \in Proc, AbortClaim(p)
      PROVE  TypeOK'
    BY <1>19 DEF AbortClaim
<1>20. ASSUME NEW p \in Proc,
               \/ BeginLock(p) \/ FinalizeBegin(p) \/ CheckBase(p)
      PROVE  TypeOK'
    BY <1>20 DEF BeginLock, TakeLock, FinalizeBegin, CheckBase
<1>21. ASSUME NEW p \in Proc,
               \/ RecoverLock(p) \/ StartAudit(p) \/ Release(p) \/ Crash(p)
      PROVE  TypeOK'
    BY <1>21 DEF RecoverLock, TakeLock, StartAudit, Release, Crash
<1>q. QED
    BY <1>0, <1>1, <1>2, <1>3, <1>4, <1>5, <1>6, <1>7, <1>8, <1>9, <1>10,
       <1>11, <1>12, <1>13, <1>14, <1>15, <1>16, <1>17, <1>18, <1>19, <1>20,
       <1>21 DEF Next, Begin, Prepare, Commit, Recover

\* The lock is taken when it is free and given back by the one who has it.
LEMMA LockStep == TypeOK /\ LockInv /\ [Next]_vars => LockInv'
<1> SUFFICES ASSUME TypeOK, LockInv, [Next]_vars
             PROVE  LockInv'
    OBVIOUS
<1> USE StoreAssumption DEF TypeOK, LockInv, Goto, Return, PC, Locked, Open,
        Committing, recordVars, stagingVars, factVars, currentVars, diskVars,
        procVars
<1>0. CASE UNCHANGED vars
    BY <1>0 DEF vars
<1>1. ASSUME NEW p \in Proc, NEW t \in Tx, NEW b \in Base, Claim(p, t, b)
      PROVE  LockInv'
    BY <1>1 DEF Claim
<1>2. ASSUME NEW p \in Proc, BeginLock(p)
      PROVE  LockInv'
    BY <1>2 DEF BeginLock, TakeLock
<1>3. ASSUME NEW p \in Proc, NEW m \in Manifests, PrepareManifest(p, m)
      PROVE  LockInv'
    BY <1>3 DEF PrepareManifest
<1>4. ASSUME NEW p \in Proc, StartCommit(p)
      PROVE  LockInv'
    BY <1>4 DEF StartCommit, Committable
<1>5. ASSUME NEW p \in Proc, UpdateClaimStatus(p)
      PROVE  LockInv'
    BY <1>5 DEF UpdateClaimStatus
<1>6. ASSUME NEW p \in Proc, RecoverLock(p)
      PROVE  LockInv'
    BY <1>6 DEF RecoverLock, TakeLock
<1>7. ASSUME NEW p \in Proc, Abort(p)
      PROVE  LockInv'
    BY <1>7 DEF Abort
<1>8. ASSUME NEW p \in Proc, Crash(p)
      PROVE  LockInv'
    BY <1>8 DEF Crash
<1>9. ASSUME NEW p \in Proc,
               \/ CreateTxRecord(p) \/ FinalizeBegin(p)
               \/ WriteCompiledOutput(p) \/ ValidateStaging(p)
      PROVE  LockInv'
    BY <1>9 DEF CreateTxRecord, FinalizeBegin, WriteCompiledOutput,
        ValidateStaging
<1>10. ASSUME NEW p \in Proc,
               \/ PutManifest(p) \/ Publish(p) \/ CheckBase(p)
               \/ SwitchCurrent(p) \/ WriteCommitRecord(p)
      PROVE  LockInv'
    BY <1>10 DEF PutManifest, Publish, CheckBase, SwitchCurrent,
        WriteCommitRecord
<1>11. ASSUME NEW p \in Proc,
               \/ StartRecover(p) \/ ScanRecover(p) \/ CompleteClaim(p)
               \/ StartAudit(p) \/ RestoreManifest(p) \/ FileCommitRecord(p)
               \/ SyncClaim(p) \/ AbortClaim(p) \/ Release(p)
      PROVE  LockInv'
    BY <1>11 DEF StartRecover, ScanRecover, CompleteClaim, StartAudit,
        RestoreManifest, FileCommitRecord, SyncClaim, AbortClaim, Release
<1>q. QED
    BY <1>0, <1>1, <1>2, <1>3, <1>4, <1>5, <1>6, <1>7, <1>8, <1>9, <1>10,
       <1>11 DEF Next, Begin, Prepare, Commit, Recover

\* A handle's claim and record are written before the handle is.
LEMMA HandleStep == TypeOK /\ LockInv /\ HandleInv /\ [Next]_vars =>
    HandleInv'
<1> SUFFICES ASSUME TypeOK, LockInv, HandleInv, [Next]_vars
             PROVE  HandleInv'
    OBVIOUS
<1> USE StoreAssumption DEF TypeOK, HandleInv, Goto, Return, PC, Base, Locked,
        Open, Committing, recordVars, stagingVars, factVars, currentVars,
        diskVars, procVars
<1>0. CASE UNCHANGED vars
    BY <1>0 DEF vars
<1>1. ASSUME NEW p \in Proc, NEW t \in Tx, NEW b \in Base, Claim(p, t, b)
      PROVE  HandleInv'
    BY <1>1 DEF Claim
<1>2. ASSUME NEW p \in Proc, CreateTxRecord(p)
      PROVE  HandleInv'
    BY <1>2 DEF CreateTxRecord
<1>3. ASSUME NEW p \in Proc, BeginLock(p)
      PROVE  HandleInv'
    BY <1>3 DEF BeginLock, TakeLock
<1>4. ASSUME NEW p \in Proc, FinalizeBegin(p)
      PROVE  HandleInv'
    BY <1>4 DEF FinalizeBegin
<1>5. ASSUME NEW p \in Proc, StartCommit(p)
      PROVE  HandleInv'
    BY <1>5 DEF StartCommit, Committable
<1>6. ASSUME NEW p \in Proc, CompleteClaim(p)
      PROVE  HandleInv'
    BY <1>6 DEF CompleteClaim
<1>7. ASSUME NEW p \in Proc, Abort(p)
      PROVE  HandleInv'
    BY <1>7 DEF Abort
<1>8. ASSUME NEW p \in Proc,
               \/ (\E m \in Manifests : PrepareManifest(p, m))
               \/ WriteCompiledOutput(p) \/ ValidateStaging(p)
               \/ PutManifest(p) \/ Publish(p) \/ CheckBase(p)
               \/ SwitchCurrent(p) \/ WriteCommitRecord(p)
               \/ UpdateClaimStatus(p) \/ StartRecover(p) \/ ScanRecover(p)
               \/ RecoverLock(p) \/ StartAudit(p) \/ RestoreManifest(p)
               \/ FileCommitRecord(p) \/ SyncClaim(p) \/ AbortClaim(p)
               \/ Release(p) \/ Crash(p)
      PROVE  HandleInv'
    BY <1>8 DEF PrepareManifest, WriteCompiledOutput, ValidateStaging,
        PutManifest, Publish, CheckBase, SwitchCurrent, WriteCommitRecord,
        UpdateClaimStatus, StartRecover, ScanRecover, RecoverLock, TakeLock,
        StartAudit, RestoreManifest, FileCommitRecord, SyncClaim, AbortClaim,
        Release, Crash
<1>q. QED
    BY <1>0, <1>1, <1>2, <1>3, <1>4, <1>5, <1>6, <1>7, <1>8 DEF Next, Begin,
       Prepare, Commit, Recover

\* Claims are never removed, so what they bind stays bound.
LEMMA BindingStep == TypeOK /\ HandleInv /\ BindingInv /\ TerminalInv /\
    [Next]_vars => BindingInv'
<1> SUFFICES ASSUME TypeOK, HandleInv, BindingInv, TerminalInv, [Next]_vars
             PROVE  BindingInv'
    OBVIOUS
<1> USE StoreAssumption DEF TypeOK, HandleInv, BindingInv, TerminalInv, Goto,
        Return, PC, Base, Status, Locked, Open, Committing, recordVars,
        stagingVars, factVars, currentVars, diskVars, procVars
<1>0. CASE UNCHANGED vars
    BY <1>0 DEF vars
<1>1. ASSUME NEW p \in Proc, NEW t \in Tx, NEW b \in Base, Claim(p, t, b)
      PROVE  BindingInv'
    BY <1>1 DEF Claim
<1>2. ASSUME NEW p \in Proc, CreateTxRecord(p)
      PROVE  BindingInv'
    BY <1>2 DEF CreateTxRecord
<1>3. ASSUME NEW p \in Proc, StartCommit(p)
      PROVE  BindingInv'
    BY <1>3 DEF StartCommit, Committable
<1>4. ASSUME NEW p \in Proc, UpdateClaimStatus(p)
      PROVE  BindingInv'
    BY <1>4 DEF UpdateClaimStatus
<1>5. ASSUME NEW p \in Proc, CompleteClaim(p)
      PROVE  BindingInv'
    BY <1>5 DEF CompleteClaim
<1>6. ASSUME NEW p \in Proc, SyncClaim(p)
      PROVE  BindingInv'
    BY <1>6 DEF SyncClaim
<1>7. ASSUME NEW p \in Proc, AbortClaim(p)
      PROVE  BindingInv'
    BY <1>7 DEF AbortClaim
<1>8. ASSUME NEW p \in Proc,
               \/ BeginLock(p) \/ FinalizeBegin(p)
               \/ (\E m \in Manifests : PrepareManifest(p, m))
               \/ WriteCompiledOutput(p) \/ ValidateStaging(p)
               \/ PutManifest(p) \/ Publish(p) \/ CheckBase(p)
               \/ SwitchCurrent(p) \/ WriteCommitRecord(p) \/ StartRecover(p)
               \/ ScanRecover(p) \/ RecoverLock(p) \/ StartAudit(p)
               \/ RestoreManifest(p) \/ FileCommitRecord(p) \/ Abort(p)
               \/ Release(p) \/ Crash(p)
      PROVE  BindingInv'
    BY <1>8 DEF BeginLock, TakeLock, FinalizeBegin, PrepareManifest,
        WriteCompiledOutput, ValidateStaging, PutManifest, Publish, CheckBase,
        SwitchCurrent, WriteCommitRecord, StartRecover, ScanRecover,
        RecoverLock, StartAudit, RestoreManifest, FileCommitRecord, Abort,
        Release, Crash
<1>q. QED
    BY <1>0, <1>1, <1>2, <1>3, <1>4, <1>5, <1>6, <1>7, <1>8 DEF Next, Begin,
       Prepare, Commit, Recover

\* Only the lock's holder touches staging, and Publish takes a whole one.
LEMMA StagingStep == TypeOK /\ LockInv /\ HandleInv /\ StagingInv /\ CommitInv
    /\ LineageInv /\ [Next]_vars => StagingInv'
<1> SUFFICES ASSUME TypeOK, LockInv, HandleInv, StagingInv, CommitInv,
                LineageInv, [Next]_vars
             PROVE  StagingInv'
    OBVIOUS
<1> USE StoreAssumption DEF TypeOK, LockInv, HandleInv, StagingInv, Goto,
        Return, PC, Base, Docs, Intact, BuiltDoc, Locked, Open, Committing,
        recordVars, stagingVars, factVars, currentVars, diskVars, procVars
<1>0. CASE UNCHANGED vars
    BY <1>0 DEF vars
<1>1. ASSUME NEW p \in Proc, NEW t \in Tx, NEW b \in Base, Claim(p, t, b)
      PROVE  StagingInv'
    BY <1>1 DEF Claim
<1>2. ASSUME NEW p \in Proc, BeginLock(p)
      PROVE  StagingInv'
    BY <1>2 DEF BeginLock, TakeLock
<1>3. ASSUME NEW p \in Proc, NEW m \in Manifests, PrepareManifest(p, m)
      PROVE  StagingInv'
    BY <1>3 DEF PrepareManifest
<1>4. ASSUME NEW p \in Proc, WriteCompiledOutput(p)
      PROVE  StagingInv'
    BY <1>4 DEF WriteCompiledOutput
<1>5. ASSUME NEW p \in Proc, ValidateStaging(p)
      PROVE  StagingInv'
    BY <1>5 DEF ValidateStaging, CanBuild, Build
<1>6. ASSUME NEW p \in Proc, StartCommit(p)
      PROVE  StagingInv'
    BY <1>6 DEF StartCommit, Committable, CanBuild, Build
<1>7. ASSUME NEW p \in Proc, Publish(p)
      PROVE  StagingInv'
    BY <1>7 DEF Publish
<1>8. ASSUME NEW p \in Proc, WriteCommitRecord(p)
      PROVE  StagingInv'
    BY <1>8 DEF WriteCommitRecord, CommitInv
<1>9. ASSUME NEW p \in Proc, UpdateClaimStatus(p)
      PROVE  StagingInv'
    BY <1>9 DEF UpdateClaimStatus, CommitInv
<1>10. ASSUME NEW p \in Proc, Abort(p)
      PROVE  StagingInv'
    BY <1>10 DEF Abort, LineageInv
<1>11. ASSUME NEW p \in Proc,
               \/ CreateTxRecord(p) \/ FinalizeBegin(p) \/ PutManifest(p)
               \/ CheckBase(p) \/ SwitchCurrent(p)
      PROVE  StagingInv'
    BY <1>11 DEF CreateTxRecord, FinalizeBegin, PutManifest, CheckBase,
        SwitchCurrent
<1>12. ASSUME NEW p \in Proc,
               \/ StartRecover(p) \/ ScanRecover(p) \/ RecoverLock(p)
               \/ CompleteClaim(p) \/ StartAudit(p) \/ RestoreManifest(p)
               \/ FileCommitRecord(p) \/ SyncClaim(p) \/ AbortClaim(p)
               \/ Release(p) \/ Crash(p)
      PROVE  StagingInv'
    BY <1>12 DEF StartRecover, ScanRecover, RecoverLock, TakeLock,
        CompleteClaim, StartAudit, RestoreManifest, FileCommitRecord,
        SyncClaim, AbortClaim, Release, Crash
<1>q. QED
    BY <1>0, <1>1, <1>2, <1>3, <1>4, <1>5, <1>6, <1>7, <1>8, <1>9, <1>10,
       <1>11, <1>12 DEF Next, Begin, Prepare, Commit, Recover

\* Commit's facts survive the others' steps, because it has the lock.
LEMMA CommitStep == TypeOK /\ LockInv /\ HandleInv /\ BindingInv /\ StagingInv
    /\ CommitInv /\ LineageInv /\ [Next]_vars => CommitInv'
<1> SUFFICES ASSUME TypeOK, LockInv, HandleInv, BindingInv, StagingInv,
                CommitInv, LineageInv, [Next]_vars
             PROVE  CommitInv'
    OBVIOUS
<1> USE StoreAssumption DEF TypeOK, LockInv, HandleInv, CommitInv, Goto,
        Return, PC, Base, Locked, Open, Committing, recordVars, stagingVars,
        factVars, currentVars, diskVars, procVars
<1>0. CASE UNCHANGED vars
    BY <1>0 DEF vars
<1>1. ASSUME NEW p \in Proc, NEW t \in Tx, NEW b \in Base, Claim(p, t, b)
      PROVE  CommitInv'
    BY <1>1 DEF Claim, BindingInv
<1>2. ASSUME NEW p \in Proc, NEW m \in Manifests, PrepareManifest(p, m)
      PROVE  CommitInv'
    BY <1>2 DEF PrepareManifest
<1>3. ASSUME NEW p \in Proc, StartCommit(p)
      PROVE  CommitInv'
    BY <1>3 DEF StartCommit, Committable
<1>4. ASSUME NEW p \in Proc, PutManifest(p)
      PROVE  CommitInv'
    BY <1>4 DEF PutManifest
<1>5. ASSUME NEW p \in Proc, Publish(p)
      PROVE  CommitInv'
    BY <1>5 DEF Publish, StagingInv, BuiltDoc
<1>6. ASSUME NEW p \in Proc, CheckBase(p)
      PROVE  CommitInv'
    BY <1>6 DEF CheckBase, LineageInv
<1>7. ASSUME NEW p \in Proc, SwitchCurrent(p)
      PROVE  CommitInv'
    BY <1>7 DEF SwitchCurrent
<1>8. ASSUME NEW p \in Proc, WriteCommitRecord(p)
      PROVE  CommitInv'
    BY <1>8 DEF WriteCommitRecord
<1>9. ASSUME NEW p \in Proc, UpdateClaimStatus(p)
      PROVE  CommitInv'
    BY <1>9 DEF UpdateClaimStatus
<1>10. ASSUME NEW p \in Proc, RestoreManifest(p)
      PROVE  CommitInv'
    BY <1>10 DEF RestoreManifest
<1>11. ASSUME NEW p \in Proc, FileCommitRecord(p)
      PROVE  CommitInv'
    BY <1>11 DEF FileCommitRecord
<1>12. ASSUME NEW p \in Proc, Abort(p)
      PROVE  CommitInv'
    BY <1>12 DEF Abort, LineageInv
<1>13. ASSUME NEW p \in Proc,
               \/ CreateTxRecord(p) \/ BeginLock(p) \/ FinalizeBegin(p)
               \/ WriteCompiledOutput(p) \/ ValidateStaging(p)
               \/ StartRecover(p) \/ ScanRecover(p) \/ RecoverLock(p)
               \/ CompleteClaim(p) \/ StartAudit(p) \/ SyncClaim(p)
               \/ AbortClaim(p) \/ Release(p) \/ Crash(p)
      PROVE  CommitInv'
    BY <1>13 DEF CreateTxRecord, BeginLock, TakeLock, FinalizeBegin,
        WriteCompiledOutput, ValidateStaging, StartRecover, ScanRecover,
        RecoverLock, CompleteClaim, StartAudit, SyncClaim, AbortClaim,
        Release, Crash
<1>q. QED
    BY <1>0, <1>1, <1>2, <1>3, <1>4, <1>5, <1>6, <1>7, <1>8, <1>9, <1>10,
       <1>11, <1>12, <1>13 DEF Next, Begin, Prepare, Commit, Recover

\* The switch is the only step that extends the chain of generations.
LEMMA LineageStep == TypeOK /\ LockInv /\ HandleInv /\ BindingInv /\
    StagingInv /\ CommitInv /\ LineageInv /\ [Next]_vars => LineageInv'
<1> SUFFICES ASSUME TypeOK, LockInv, HandleInv, BindingInv, StagingInv,
                CommitInv, LineageInv, [Next]_vars
             PROVE  LineageInv'
    OBVIOUS
<1> USE StoreAssumption DEF TypeOK, HandleInv, CommitInv, LineageInv, Goto,
        Return, PC, Base, Locked, Open, Committing, recordVars, stagingVars,
        factVars, currentVars, diskVars, procVars
<1>0. CASE UNCHANGED vars
    BY <1>0 DEF vars
<1>1. ASSUME NEW p \in Proc, NEW t \in Tx, NEW b \in Base, Claim(p, t, b)
      PROVE  LineageInv'
    BY <1>1 DEF Claim, BindingInv
<1>2. ASSUME NEW p \in Proc, CreateTxRecord(p)
      PROVE  LineageInv'
    BY <1>2 DEF CreateTxRecord
<1>3. ASSUME NEW p \in Proc, NEW m \in Manifests, PrepareManifest(p, m)
      PROVE  LineageInv'
    BY <1>3 DEF PrepareManifest
<1>4. ASSUME NEW p \in Proc, PutManifest(p)
      PROVE  LineageInv'
    BY <1>4 DEF PutManifest
<1>5. ASSUME NEW p \in Proc, Publish(p)
      PROVE  LineageInv'
    BY <1>5 DEF Publish
<1>6. ASSUME NEW p \in Proc, SwitchCurrent(p)
      PROVE  LineageInv'
    BY <1>6 DEF SwitchCurrent
<1>7. ASSUME NEW p \in Proc, RestoreManifest(p)
      PROVE  LineageInv'
    BY <1>7 DEF RestoreManifest
<1>8. ASSUME NEW p \in Proc,
               \/ BeginLock(p) \/ FinalizeBegin(p) \/ WriteCompiledOutput(p)
               \/ ValidateStaging(p) \/ StartCommit(p) \/ CheckBase(p)
               \/ WriteCommitRecord(p) \/ UpdateClaimStatus(p)
               \/ StartRecover(p) \/ ScanRecover(p) \/ RecoverLock(p)
               \/ CompleteClaim(p) \/ StartAudit(p) \/ FileCommitRecord(p)
               \/ SyncClaim(p) \/ Abort(p) \/ AbortClaim(p) \/ Release(p)
               \/ Crash(p)
      PROVE  LineageInv'
    BY <1>8 DEF BeginLock, TakeLock, FinalizeBegin, WriteCompiledOutput,
        ValidateStaging, StartCommit, Committable, CheckBase,
        WriteCommitRecord, UpdateClaimStatus, StartRecover, ScanRecover,
        RecoverLock, CompleteClaim, StartAudit, FileCommitRecord, SyncClaim,
        Abort, AbortClaim, Release, Crash
<1>q. QED
    BY <1>0, <1>1, <1>2, <1>3, <1>4, <1>5, <1>6, <1>7, <1>8 DEF Next, Begin,
       Prepare, Commit, Recover

\* Recover's decisions, taken without the lock, stay true until it acts.
LEMMA TerminalStep == TypeOK /\ LockInv /\ HandleInv /\ BindingInv /\
    CommitInv /\ LineageInv /\ TerminalInv /\ [Next]_vars => TerminalInv'
<1> SUFFICES ASSUME TypeOK, LockInv, HandleInv, BindingInv, CommitInv,
                LineageInv, TerminalInv, [Next]_vars
             PROVE  TerminalInv'
    OBVIOUS
<1> USE StoreAssumption DEF TypeOK, LockInv, HandleInv, TerminalInv, Goto,
        Return, PC, Base, Locked, Open, Committing, recordVars, stagingVars,
        factVars, currentVars, diskVars, procVars
<1>0. CASE UNCHANGED vars
    BY <1>0 DEF vars
<1>1. ASSUME NEW p \in Proc, NEW t \in Tx, NEW b \in Base, Claim(p, t, b)
      PROVE  TerminalInv'
    BY <1>1 DEF Claim
<1>2. ASSUME NEW p \in Proc, WriteCommitRecord(p)
      PROVE  TerminalInv'
    BY <1>2 DEF WriteCommitRecord, CommitInv
<1>3. ASSUME NEW p \in Proc, StartRecover(p)
      PROVE  TerminalInv'
    BY <1>3 DEF StartRecover, LineageInv
<1>4. ASSUME NEW p \in Proc, ScanRecover(p)
      PROVE  TerminalInv'
    BY <1>4 DEF ScanRecover, Drifted, Terminal, LineageInv
<1>5. ASSUME NEW p \in Proc, RecoverLock(p)
      PROVE  TerminalInv'
    BY <1>5 DEF RecoverLock, TakeLock
<1>6. ASSUME NEW p \in Proc, CompleteClaim(p)
      PROVE  TerminalInv'
    BY <1>6 DEF CompleteClaim
<1>7. ASSUME NEW p \in Proc, StartAudit(p)
      PROVE  TerminalInv'
    BY <1>7 DEF StartAudit
<1>8. ASSUME NEW p \in Proc, FileCommitRecord(p)
      PROVE  TerminalInv'
    BY <1>8 DEF FileCommitRecord, LineageInv
<1>9. ASSUME NEW p \in Proc, Abort(p)
      PROVE  TerminalInv'
    BY <1>9 DEF Abort
<1>10. ASSUME NEW p \in Proc,
               \/ CreateTxRecord(p) \/ BeginLock(p) \/ FinalizeBegin(p)
               \/ (\E m \in Manifests : PrepareManifest(p, m))
               \/ WriteCompiledOutput(p) \/ ValidateStaging(p)
               \/ StartCommit(p) \/ PutManifest(p) \/ Publish(p)
               \/ CheckBase(p) \/ SwitchCurrent(p) \/ UpdateClaimStatus(p)
               \/ RestoreManifest(p) \/ SyncClaim(p) \/ AbortClaim(p)
               \/ Release(p) \/ Crash(p)
      PROVE  TerminalInv'
    BY <1>10 DEF CreateTxRecord, BeginLock, TakeLock, FinalizeBegin,
        PrepareManifest, WriteCompiledOutput, ValidateStaging, StartCommit,
        Committable, PutManifest, Publish, CheckBase, SwitchCurrent,
        UpdateClaimStatus, RestoreManifest, SyncClaim, AbortClaim, Release,
        Crash
<1>q. QED
    BY <1>0, <1>1, <1>2, <1>3, <1>4, <1>5, <1>6, <1>7, <1>8, <1>9, <1>10 DEF
       Next, Begin, Prepare, Commit, Recover

\* A base that already has a successor is not CURRENT.
LEMMA OneSuccessorStep == TypeOK /\ HandleInv /\ BindingInv /\ CommitInv /\
    LineageInv /\ OneSuccessor /\ [Next]_vars => OneSuccessor'
<1> SUFFICES ASSUME TypeOK, HandleInv, BindingInv, CommitInv, LineageInv,
                OneSuccessor, [Next]_vars
             PROVE  OneSuccessor'
    OBVIOUS
<1> USE StoreAssumption DEF TypeOK, OneSuccessor, Goto, Return, recordVars,
        stagingVars, factVars, currentVars, diskVars, procVars
<1>0. CASE UNCHANGED vars
    BY <1>0 DEF vars
<1>1. ASSUME NEW p \in Proc, NEW t \in Tx, NEW b \in Base, Claim(p, t, b)
      PROVE  OneSuccessor'
    BY <1>1 DEF Claim, LineageInv, BindingInv
<1>2. ASSUME NEW p \in Proc, SwitchCurrent(p)
      PROVE  OneSuccessor'
    BY <1>2 DEF SwitchCurrent, HandleInv, CommitInv, LineageInv, Locked,
        Committing, Base
<1>3. ASSUME NEW p \in Proc,
               \/ CreateTxRecord(p) \/ BeginLock(p) \/ FinalizeBegin(p)
               \/ (\E m \in Manifests : PrepareManifest(p, m))
               \/ WriteCompiledOutput(p) \/ ValidateStaging(p)
               \/ StartCommit(p) \/ PutManifest(p) \/ Publish(p)
               \/ CheckBase(p) \/ WriteCommitRecord(p)
               \/ UpdateClaimStatus(p) \/ StartRecover(p) \/ ScanRecover(p)
               \/ RecoverLock(p) \/ CompleteClaim(p) \/ StartAudit(p)
               \/ RestoreManifest(p) \/ FileCommitRecord(p) \/ SyncClaim(p)
               \/ Abort(p) \/ AbortClaim(p) \/ Release(p) \/ Crash(p)
      PROVE  OneSuccessor'
    BY <1>3 DEF CreateTxRecord, BeginLock, TakeLock, FinalizeBegin,
        PrepareManifest, WriteCompiledOutput, ValidateStaging, StartCommit,
        Committable, PutManifest, Publish, CheckBase, WriteCommitRecord,
        UpdateClaimStatus, StartRecover, ScanRecover, RecoverLock,
        CompleteClaim, StartAudit, RestoreManifest, FileCommitRecord,
        SyncClaim, Abort, AbortClaim, Release, Crash
<1>q. QED
    BY <1>0, <1>1, <1>2, <1>3 DEF Next, Begin, Prepare, Commit, Recover

\* Both writers of commit records have seen CURRENT switched.
LEMMA CommitRecordEarnedStep == TypeOK /\ HandleInv /\ CommitInv /\
    TerminalInv /\ CommitRecordEarned /\ [Next]_vars => CommitRecordEarned'
<1> SUFFICES ASSUME TypeOK, HandleInv, CommitInv, TerminalInv,
                CommitRecordEarned, [Next]_vars
             PROVE  CommitRecordEarned'
    OBVIOUS
<1> USE StoreAssumption DEF TypeOK, CommitRecordEarned, Goto, Return,
        recordVars, stagingVars, factVars, currentVars, diskVars, procVars
<1>0. CASE UNCHANGED vars
    BY <1>0 DEF vars
<1>1. ASSUME NEW p \in Proc, SwitchCurrent(p)
      PROVE  CommitRecordEarned'
    BY <1>1 DEF SwitchCurrent
<1>2. ASSUME NEW p \in Proc, WriteCommitRecord(p)
      PROVE  CommitRecordEarned'
    BY <1>2 DEF WriteCommitRecord, CommitInv
<1>3. ASSUME NEW p \in Proc, FileCommitRecord(p)
      PROVE  CommitRecordEarned'
    BY <1>3 DEF FileCommitRecord, TerminalInv
<1>4. ASSUME NEW p \in Proc,
               \/ (\E t \in Tx, b \in Base : Claim(p, t, b))
               \/ CreateTxRecord(p) \/ BeginLock(p) \/ FinalizeBegin(p)
               \/ (\E m \in Manifests : PrepareManifest(p, m))
               \/ WriteCompiledOutput(p) \/ ValidateStaging(p)
               \/ StartCommit(p) \/ PutManifest(p) \/ Publish(p)
               \/ CheckBase(p) \/ UpdateClaimStatus(p) \/ StartRecover(p)
               \/ ScanRecover(p) \/ RecoverLock(p) \/ CompleteClaim(p)
               \/ StartAudit(p) \/ RestoreManifest(p) \/ SyncClaim(p)
               \/ Abort(p) \/ AbortClaim(p) \/ Release(p) \/ Crash(p)
      PROVE  CommitRecordEarned'
    BY <1>4 DEF Claim, CreateTxRecord, BeginLock, TakeLock, FinalizeBegin,
        PrepareManifest, WriteCompiledOutput, ValidateStaging, StartCommit,
        Committable, PutManifest, Publish, CheckBase, UpdateClaimStatus,
        StartRecover, ScanRecover, RecoverLock, CompleteClaim, StartAudit,
        RestoreManifest, SyncClaim, Abort, AbortClaim, Release, Crash
<1>q. QED
    BY <1>0, <1>1, <1>2, <1>3, <1>4 DEF Next, Begin, Prepare, Commit, Recover

\* Whoever updates a claim has the terminal record in hand, and it stays.
LEMMA ClaimFollowsRecordStep == TypeOK /\ HandleInv /\ CommitInv /\ LineageInv
    /\ TerminalInv /\ ClaimFollowsRecord /\ [Next]_vars => ClaimFollowsRecord'
<1> SUFFICES ASSUME TypeOK, HandleInv, CommitInv, LineageInv, TerminalInv,
                ClaimFollowsRecord, [Next]_vars
             PROVE  ClaimFollowsRecord'
    OBVIOUS
<1> USE StoreAssumption DEF TypeOK, ClaimFollowsRecord, Goto, Return, Status,
        recordVars, stagingVars, factVars, currentVars, diskVars, procVars
<1>0. CASE UNCHANGED vars
    BY <1>0 DEF vars
<1>1. ASSUME NEW p \in Proc, NEW t \in Tx, NEW b \in Base, Claim(p, t, b)
      PROVE  ClaimFollowsRecord'
    BY <1>1 DEF Claim
<1>2. ASSUME NEW p \in Proc, StartCommit(p)
      PROVE  ClaimFollowsRecord'
    BY <1>2 DEF StartCommit, Committable
<1>3. ASSUME NEW p \in Proc, WriteCommitRecord(p)
      PROVE  ClaimFollowsRecord'
    BY <1>3 DEF WriteCommitRecord, CommitInv, Committing
<1>4. ASSUME NEW p \in Proc, UpdateClaimStatus(p)
      PROVE  ClaimFollowsRecord'
    BY <1>4 DEF UpdateClaimStatus, CommitInv
<1>5. ASSUME NEW p \in Proc, CompleteClaim(p)
      PROVE  ClaimFollowsRecord'
    BY <1>5 DEF CompleteClaim, TerminalInv
<1>6. ASSUME NEW p \in Proc, FileCommitRecord(p)
      PROVE  ClaimFollowsRecord'
    BY <1>6 DEF FileCommitRecord, TerminalInv, LineageInv
<1>7. ASSUME NEW p \in Proc, SyncClaim(p)
      PROVE  ClaimFollowsRecord'
    BY <1>7 DEF SyncClaim, TerminalInv
<1>8. ASSUME NEW p \in Proc, Abort(p)
      PROVE  ClaimFollowsRecord'
    BY <1>8 DEF Abort
<1>9. ASSUME NEW p \in Proc, AbortClaim(p)
      PROVE  ClaimFollowsRecord'
    BY <1>9 DEF AbortClaim, TerminalInv
<1>10. ASSUME NEW p \in Proc,
               \/ CreateTxRecord(p) \/ BeginLock(p) \/ FinalizeBegin(p)
               \/ (\E m \in Manifests : PrepareManifest(p, m))
               \/ WriteCompiledOutput(p) \/ ValidateStaging(p)
               \/ PutManifest(p) \/ Publish(p) \/ CheckBase(p)
               \/ SwitchCurrent(p) \/ StartRecover(p) \/ ScanRecover(p)
               \/ RecoverLock(p) \/ StartAudit(p) \/ RestoreManifest(p)
               \/ Release(p) \/ Crash(p)
      PROVE  ClaimFollowsRecord'
    BY <1>10 DEF CreateTxRecord, BeginLock, TakeLock, FinalizeBegin,
        PrepareManifest, WriteCompiledOutput, ValidateStaging, PutManifest,
        Publish, CheckBase, SwitchCurrent, StartRecover, ScanRecover,
        RecoverLock, StartAudit, RestoreManifest, Release, Crash
<1>q. QED
    BY <1>0, <1>1, <1>2, <1>3, <1>4, <1>5, <1>6, <1>7, <1>8, <1>9, <1>10 DEF
       Next, Begin, Prepare, Commit, Recover

-----------------------------------------------------------------------------
(* The theorems                                                             *)

\* The conjunction of the parts is inductive, so it holds of every reachable
\* state of a store with any number of keys, processes and manifests.
THEOREM Invariance == Spec => []IInv
<1>1. Init => IInv
    BY InitEstablishes
<1>2. IInv /\ [Next]_vars => IInv'
    BY TypeStep, LockStep, HandleStep, BindingStep, StagingStep, CommitStep,
       LineageStep, TerminalStep, OneSuccessorStep, CommitRecordEarnedStep,
       ClaimFollowsRecordStep DEF IInv
<1>q. QED
    BY <1>1, <1>2, PTL DEF Spec

\* Every variable keeps its type.
THEOREM TypeCorrect == Spec => []TypeOK
<1>1. IInv => TypeOK
    BY DEF IInv
<1>q. QED
    BY <1>1, Invariance, PTL

\* A reader of CURRENT always finds a complete generation.
THEOREM CurrentAlwaysBacked == Spec => []CurrentIsBacked
<1>1. IInv => CurrentIsBacked
    BY StoreAssumption DEF IInv, TypeOK, StagingInv, LineageInv,
       CurrentIsBacked
<1>q. QED
    BY <1>1, Invariance, PTL

\* The CAS on CURRENT lets one transaction per base win.
THEOREM SingleSuccessor == Spec => []OneSuccessor
<1>1. IInv => OneSuccessor
    BY DEF IInv
<1>q. QED
    BY <1>1, Invariance, PTL

\* No commit record without a switch of CURRENT.
THEOREM CommitRecordsEarned == Spec => []CommitRecordEarned
<1>1. IInv => CommitRecordEarned
    BY DEF IInv
<1>q. QED
    BY <1>1, Invariance, PTL

\* No terminal claim without the terminal record.
THEOREM ClaimsFollowRecords == Spec => []ClaimFollowsRecord
<1>1. IInv => ClaimFollowsRecord
    BY DEF IInv
<1>q. QED
    BY <1>1, Invariance, PTL

-----------------------------------------------------------------------------
(* Action properties and refinement                                         *)

SwitchesOnce == current' # current => /\ current' \notin effective
                                      /\ ~abortRec[current']

KeepsPublished ==
    \A t \in Tx :
        /\ published[t] # "none" => published'[t] = published[t]
        /\ manifestFact[t] # None => manifestFact'[t] = manifestFact[t]

CPStep == [CP!Next]_(CP!cpVars)

\* Only the commit point moves CURRENT.
LEMMA SwitchStep == IInv /\ [Next]_vars => SwitchesOnce
<1> SUFFICES ASSUME IInv, [Next]_vars
             PROVE  SwitchesOnce
    OBVIOUS
<1> USE StoreAssumption DEF IInv, TypeOK, SwitchesOnce, Goto, Return, Base,
        recordVars, stagingVars, factVars, currentVars, diskVars, procVars
<1>0. CASE UNCHANGED vars
    BY <1>0 DEF vars
<1>1. ASSUME NEW p \in Proc, SwitchCurrent(p)
      PROVE  SwitchesOnce
    BY <1>1 DEF SwitchCurrent, HandleInv, CommitInv, LineageInv, Committing
<1>2. ASSUME NEW p \in Proc,
               \/ (\E t \in Tx, b \in Base : Claim(p, t, b))
               \/ CreateTxRecord(p) \/ BeginLock(p) \/ FinalizeBegin(p)
               \/ (\E m \in Manifests : PrepareManifest(p, m))
               \/ WriteCompiledOutput(p) \/ ValidateStaging(p)
               \/ StartCommit(p) \/ PutManifest(p) \/ Publish(p)
               \/ CheckBase(p) \/ WriteCommitRecord(p)
               \/ UpdateClaimStatus(p) \/ StartRecover(p) \/ ScanRecover(p)
               \/ RecoverLock(p) \/ CompleteClaim(p) \/ StartAudit(p)
               \/ RestoreManifest(p) \/ FileCommitRecord(p) \/ SyncClaim(p)
               \/ Abort(p) \/ AbortClaim(p) \/ Release(p) \/ Crash(p)
      PROVE  SwitchesOnce
    BY <1>2 DEF Claim, CreateTxRecord, BeginLock, TakeLock, FinalizeBegin,
        PrepareManifest, WriteCompiledOutput, ValidateStaging, StartCommit,
        Committable, PutManifest, Publish, CheckBase, WriteCommitRecord,
        UpdateClaimStatus, StartRecover, ScanRecover, RecoverLock,
        CompleteClaim, StartAudit, RestoreManifest, FileCommitRecord,
        SyncClaim, Abort, AbortClaim, Release, Crash
<1>q. QED
    BY <1>0, <1>1, <1>2 DEF Next, Begin, Prepare, Commit, Recover

\* CURRENT never moves twice to one generation, nor to an aborted one.
THEOREM EffectiveAtMostOnce == Spec => EffectiveOnce
<1>1. IInv /\ [Next]_vars => [SwitchesOnce]_vars
    BY SwitchStep
<1>q. QED
    BY <1>1, Invariance, PTL DEF Spec, EffectiveOnce, SwitchesOnce

\* The three writers of permanent files refuse to replace one.
LEMMA PublishedStep == IInv /\ [Next]_vars => KeepsPublished
<1> SUFFICES ASSUME IInv, [Next]_vars
             PROVE  KeepsPublished
    OBVIOUS
<1> USE StoreAssumption DEF IInv, TypeOK, KeepsPublished, Goto, Return,
        recordVars, stagingVars, factVars, currentVars, diskVars, procVars
<1>0. CASE UNCHANGED vars
    BY <1>0 DEF vars
<1>1. ASSUME NEW p \in Proc, PutManifest(p)
      PROVE  KeepsPublished
    BY <1>1 DEF PutManifest
<1>2. ASSUME NEW p \in Proc, Publish(p)
      PROVE  KeepsPublished
    BY <1>2 DEF Publish
<1>3. ASSUME NEW p \in Proc, RestoreManifest(p)
      PROVE  KeepsPublished
    BY <1>3 DEF RestoreManifest
<1>4. ASSUME NEW p \in Proc,
               \/ (\E t \in Tx, b \in Base : Claim(p, t, b))
               \/ CreateTxRecord(p) \/ BeginLock(p) \/ FinalizeBegin(p)
               \/ (\E m \in Manifests : PrepareManifest(p, m))
               \/ WriteCompiledOutput(p) \/ ValidateStaging(p)
               \/ StartCommit(p) \/ CheckBase(p) \/ SwitchCurrent(p)
               \/ WriteCommitRecord(p) \/ UpdateClaimStatus(p)
               \/ StartRecover(p) \/ ScanRecover(p) \/ RecoverLock(p)
               \/ CompleteClaim(p) \/ StartAudit(p) \/ FileCommitRecord(p)
               \/ SyncClaim(p) \/ Abort(p) \/ AbortClaim(p) \/ Release(p)
               \/ Crash(p)
      PROVE  KeepsPublished
    BY <1>4 DEF Claim, CreateTxRecord, BeginLock, TakeLock, FinalizeBegin,
        PrepareManifest, WriteCompiledOutput, ValidateStaging, StartCommit,
        Committable, CheckBase, SwitchCurrent, WriteCommitRecord,
        UpdateClaimStatus, StartRecover, ScanRecover, RecoverLock,
        CompleteClaim, StartAudit, FileCommitRecord, SyncClaim, Abort,
        AbortClaim, Release, Crash
<1>q. QED
    BY <1>0, <1>1, <1>2, <1>3, <1>4 DEF Next, Begin, Prepare, Commit, Recover

\* What is published stays published, unchanged.
THEOREM PermanentlyPublished == Spec => PublishedForGood
<1>1. IInv /\ [Next]_vars => [KeepsPublished]_vars
    BY PublishedStep
<1>q. QED
    BY <1>1, Invariance, PTL DEF Spec, PublishedForGood, KeepsPublished

\* Every step is a step of CommitPoint or leaves its variables alone.
LEMMA RefinementStep == IInv /\ [Next]_vars => CPStep
<1> SUFFICES ASSUME IInv, [Next]_vars
             PROVE  CPStep
    OBVIOUS
<1> USE StoreAssumption DEF IInv, TypeOK, HandleInv, CPStep, BoundKeys,
        CP!cpVars, Goto, Return, Base, Status, recordVars, stagingVars,
        factVars, currentVars, diskVars, procVars
<1>0. CASE UNCHANGED vars
    BY <1>0 DEF vars
<1>1. ASSUME NEW p \in Proc, NEW t \in Tx, NEW b \in Base, Claim(p, t, b)
      PROVE  CPStep
    BY <1>1 DEF Claim, CP!Next, CP!Bind
<1>2. ASSUME NEW p \in Proc, StartCommit(p)
      PROVE  CPStep
    BY <1>2 DEF StartCommit, Committable, BindingInv, Open
<1>3. ASSUME NEW p \in Proc, SwitchCurrent(p)
      PROVE  CPStep
    BY <1>3 DEF SwitchCurrent, CP!Next, CP!Switch, CommitInv, BindingInv,
        LineageInv, Committing
<1>4. ASSUME NEW p \in Proc, UpdateClaimStatus(p)
      PROVE  CPStep
    BY <1>4 DEF UpdateClaimStatus, BindingInv, Committing
<1>5. ASSUME NEW p \in Proc, CompleteClaim(p)
      PROVE  CPStep
    BY <1>5 DEF CompleteClaim, TerminalInv
<1>6. ASSUME NEW p \in Proc, SyncClaim(p)
      PROVE  CPStep
    BY <1>6 DEF SyncClaim, TerminalInv, LineageInv, BindingInv
<1>7. ASSUME NEW p \in Proc, AbortClaim(p)
      PROVE  CPStep
    BY <1>7 DEF AbortClaim, BindingInv
<1>8. ASSUME NEW p \in Proc,
               \/ CreateTxRecord(p) \/ BeginLock(p) \/ FinalizeBegin(p)
               \/ (\E m \in Manifests : PrepareManifest(p, m))
               \/ WriteCompiledOutput(p) \/ ValidateStaging(p)
               \/ PutManifest(p) \/ Publish(p) \/ CheckBase(p)
               \/ WriteCommitRecord(p) \/ StartRecover(p) \/ ScanRecover(p)
               \/ RecoverLock(p) \/ StartAudit(p) \/ RestoreManifest(p)
               \/ FileCommitRecord(p) \/ Abort(p) \/ Release(p) \/ Crash(p)
      PROVE  CPStep
    BY <1>8 DEF CreateTxRecord, BeginLock, TakeLock, FinalizeBegin,
        PrepareManifest, WriteCompiledOutput, ValidateStaging, PutManifest,
        Publish, CheckBase, WriteCommitRecord, StartRecover, ScanRecover,
        RecoverLock, StartAudit, RestoreManifest, FileCommitRecord, Abort,
        Release, Crash
<1>q. QED
    BY <1>0, <1>1, <1>2, <1>3, <1>4, <1>5, <1>6, <1>7, <1>8 DEF Next, Begin,
       Prepare, Commit, Recover

\* The store with its locks, staging, audit and crashes implements the atomic
\* commit point.
THEOREM StoreImplementsCommitPoint == Spec => ImplementsCommitPoint
<1>1. Init => CP!Init
    BY DEF Init, CP!Init, BoundKeys
<1>2. IInv /\ [Next]_vars => CPStep
    BY RefinementStep
<1>q. QED
    BY <1>1, <1>2, Invariance, PTL DEF Spec, ImplementsCommitPoint, CP!Spec, CPStep

=============================================================================
