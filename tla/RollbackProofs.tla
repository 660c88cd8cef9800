---------------------------- MODULE RollbackProofs ----------------------------
(* The audit of rollbacks, proved for any generations, keys and processes and *)
(* any number of deaths. Everything a rollback or a commit decides under the  *)
(* lock stays true until it gives the lock back: Steady says what each place  *)
(* of the code may rely on, and the properties follow from it.                *)
EXTENDS RollbackStore, StoreLock, TLAPS

OneHolder == \A p \in Proc : pc[p] \in Locked <=> lock = p

\* CURRENT is a generation that was published when it was named.
CurrentKnown ==
    /\ effective \subseteq published
    /\ current \in effective \cup {None}

\* What a transaction has established on its way through Commit.
CommitSteady ==
    \A p \in Proc :
        /\ pc[p] \in {"publishing", "casing", "switching", "auditing"} => job[p] \in begun
        /\ pc[p] \in {"publishing", "casing", "switching"} => job[p] \notin aborted
        /\ pc[p] \in {"casing", "switching", "auditing"} => job[p] \in published
        /\ pc[p] = "switching" => current = base[job[p]]
        /\ pc[p] = "auditing" => job[p] \in effective
        /\ pc[p] \in {"recovering", "filing"} => seen[p] \in effective

InRollback == {"checking", "claiming", "recording", "moving", "closing", "settling"}

\* What a rollback has established on its way through ApplyRollbackPlan.
RollbackSteady ==
    \A p \in Proc :
        /\ pc[p] \in InRollback \cup {"waiting"} =>
              job[p] \in Key /\ Target[job[p]] \in published
        /\ pc[p] \in {"claiming", "recording", "moving"} => current = seen[p]
        /\ pc[p] = "claiming" => rbClaim[job[p]] = "none"
        /\ pc[p] \in {"recording", "moving", "closing", "settling"} =>
              rbClaim[job[p]] = "pending"
        /\ pc[p] \in {"recording", "moving"} =>
              source[job[p]] = seen[p] /\ switched[job[p]] = 0
        /\ pc[p] = "recording" => rbRec[job[p]] = "none"
        /\ pc[p] \in {"moving", "closing"} => rbRec[job[p]] = "pending"
        /\ pc[p] \in {"closing", "settling"} => switched[job[p]] = 1
        /\ pc[p] = "settling" => rbRec[job[p]] = "committed"

Steady == OneHolder /\ CurrentKnown /\ CommitSteady /\ RollbackSteady

IInv == /\ TypeOK /\ Steady
        /\ RollbackAudited /\ CommittedWereEffective /\ ToldTruth

LEMMA InitInv == Init => IInv
BY RollbackAssumption DEF Init, IInv, TypeOK, Steady, OneHolder, CurrentKnown, CommitSteady,
   RollbackSteady, InRollback, RollbackAudited, CommittedWereEffective, ToldTruth, Base, PC, Locked

LEMMA StepInv == IInv /\ [Next]_vars => IInv'
<1> SUFFICES ASSUME IInv, [Next]_vars PROVE IInv'
    OBVIOUS
<1> USE RollbackAssumption
    DEF IInv, TypeOK, Steady, OneHolder, CurrentKnown, CommitSteady, RollbackSteady, InRollback,
        RollbackAudited, CommittedWereEffective, ToldTruth, Base, PC, Locked,
        genVars, rbVars, procVars, Goto, Return, TakeLock, MoveCurrent, CurrentStays
<1>1. ASSUME NEW g \in Gen, BeginTx(g) PROVE IInv'
      BY <1>1 DEF BeginTx
<1>2. ASSUME NEW g \in Gen, Abort(g) PROVE IInv'
      BY <1>2 DEF Abort
<1>3. ASSUME NEW p \in Proc, Commit(p) PROVE IInv'
  <2>1. ASSUME NEW g \in Gen, StartCommit(p, g) PROVE IInv'
        BY <2>1 DEF StartCommit
  <2>2. CASE Publish(p)
        BY <2>2 DEF Publish
  <2>3. CASE CheckBase(p)
        BY <2>3 DEF CheckBase
  <2>4. CASE SwitchCurrent(p)
        BY <2>4 DEF SwitchCurrent
  <2>5. CASE WriteCommitRecord(p)
        BY <2>5 DEF WriteCommitRecord
  <2>. QED  BY <1>3, <2>1, <2>2, <2>3, <2>4, <2>5 DEF Commit
<1>4. ASSUME NEW p \in Proc, Recover(p) PROVE IInv'
  <2>1. CASE StartRecover(p)
        BY <2>1 DEF StartRecover
  <2>2. CASE RecoverLock(p)
        BY <2>2 DEF RecoverLock
  <2>3. CASE FileCommitRecord(p)
        BY <2>3 DEF FileCommitRecord
  <2>. QED  BY <1>4, <2>1, <2>2, <2>3 DEF Recover
<1>5. ASSUME NEW p \in Proc, Rollback(p) PROVE IInv'
  <2>1. ASSUME NEW k \in Key, PlanRollback(p, k) PROVE IInv'
        BY <2>1 DEF PlanRollback
  <2>2. CASE RollbackLock(p)
        BY <2>2 DEF RollbackLock
  <2>3. CASE ReplayRollback(p)
        BY <2>3 DEF ReplayRollback
  <2>4. CASE CheckRollback(p)
        BY <2>4 DEF CheckRollback
  <2>5. CASE ClaimRollback(p)
        BY <2>5 DEF ClaimRollback
  <2>6. CASE RecordRollback(p)
        BY <2>6 DEF RecordRollback
  <2>7. CASE SwitchBack(p)
        BY <2>7 DEF SwitchBack
  <2>8. CASE CloseRecord(p)
        BY <2>8 DEF CloseRecord
  <2>9. CASE CloseClaim(p)
        BY <2>9 DEF CloseClaim
  <2>. QED  BY <1>5, <2>1, <2>2, <2>3, <2>4, <2>5, <2>6, <2>7, <2>8, <2>9 DEF Rollback
<1>6. ASSUME NEW p \in Proc, Crash(p) PROVE IInv'
      BY <1>6 DEF Crash
<1>7. CASE UNCHANGED vars
      BY <1>7 DEF vars
<1>. QED  BY <1>1, <1>2, <1>3, <1>4, <1>5, <1>6, <1>7 DEF Next, Step

THEOREM Invariant == Spec => []IInv
<1>. QED  BY InitInv, StepInv, PTL DEF Spec

\* CURRENT always names a complete generation, although the target of a rollback
\* is examined before the lock is taken and transactions publish in between.
THEOREM AlwaysPublished == Spec => []CurrentPublished
<1>1. IInv => CurrentPublished
      BY DEF IInv, Steady, CurrentKnown, CurrentPublished
<1>. QED  BY <1>1, Invariant, PTL

\* At every point where a process may die, the rollback claim, its record and
\* the switch of CURRENT are in the order ApplyRollbackPlan writes them.
THEOREM AlwaysAudited == Spec => []RollbackAudited
<1>1. IInv => RollbackAudited
      BY DEF IInv
<1>. QED  BY <1>1, Invariant, PTL

\* Commit and Recover file a commit record only for a generation that CURRENT
\* has named, however rollbacks move CURRENT between their reads and writes.
THEOREM AlwaysEffective == Spec => []CommittedWereEffective
<1>1. IInv => CommittedWereEffective
      BY DEF IInv
<1>. QED  BY <1>1, Invariant, PTL

\* Whoever repeats a rollback is told that it is done only when it is.
THEOREM AlwaysTrue == Spec => []ToldTruth
<1>1. IInv => ToldTruth
      BY DEF IInv
<1>. QED  BY <1>1, Invariant, PTL

LEMMA StepMoves == IInv /\ [Next]_vars => [CurrentMove]_vars
<1> SUFFICES ASSUME IInv, Next PROVE CurrentMove
    BY DEF vars, CurrentMove
<1> USE DEF IInv, TypeOK, Steady, CommitSteady, RollbackSteady, CurrentMove, CurrentStays, MoveCurrent
<1>1. ASSUME NEW p \in Proc, SwitchCurrent(p) PROVE CurrentMove
      BY <1>1 DEF SwitchCurrent
<1>2. ASSUME NEW p \in Proc, SwitchBack(p) PROVE CurrentMove
  <2> DEFINE k == job[p]
  <2>1. k \in Key /\ switched[k] = 0 /\ current = source[k]
        BY <1>2 DEF SwitchBack, InRollback
  <2>2. current' = Target[k] /\ switched' = [switched EXCEPT ![k] = 1]
        BY <1>2, <2>1 DEF SwitchBack
  <2> HIDE DEF k
  <2>. QED  BY <2>1, <2>2
<1>3. CASE CurrentStays
      BY <1>3
<1>4. \/ \E p \in Proc : SwitchCurrent(p) \/ SwitchBack(p)
      \/ CurrentStays
      BY DEF Next, Step, Commit, Recover, Rollback, Crash, BeginTx, Abort, StartCommit, Publish,
             CheckBase, WriteCommitRecord, StartRecover, RecoverLock, FileCommitRecord,
             PlanRollback, RollbackLock, ReplayRollback, CheckRollback, ClaimRollback,
             RecordRollback, CloseRecord, CloseClaim
<1>. QED  BY <1>1, <1>2, <1>3, <1>4

\* No update of CURRENT is lost between rollbacks and transactions: a rollback
\* replaces the generation its plan was made on, once, and a transaction the
\* base it was begun on.
THEOREM NoLostUpdate == Spec => MovesWhatItRead
<1>. QED  BY Invariant, StepMoves, PTL DEF Spec, MovesWhatItRead

(***************************************************************************)
(* The lock itself, whose holder is all that RollbackStore knows of it:     *)
(* StoreLock, for any threads, any assignment of them to open stores and    *)
(* any number of deaths.  NothingLeaked is inductive together with the      *)
(* types.                                                                   *)
(***************************************************************************)
LockInv == LockTypeOK /\ NothingLeaked

LEMMA LockStarts == LockInit => LockInv
BY StoreLockAssumption DEF LockInit, LockInv, LockTypeOK, NothingLeaked, Place

LEMMA LockStep == LockInv /\ [LockNext]_lockVars => LockInv'
<1> SUFFICES ASSUME LockInv, [LockNext]_lockVars PROVE LockInv'
    OBVIOUS
<1> USE StoreLockAssumption DEF LockInv, LockTypeOK, NothingLeaked, Place, StepTo, FreeGuard
<1>1. ASSUME NEW t \in Thread, Request(t) \/ EnterGuard(t) \/ CancelGuard(t)
      PROVE  LockInv'
      BY <1>1 DEF Request, EnterGuard, CancelGuard
<1>2. ASSUME NEW t \in Thread, TakeFlock(t) \/ TimeOut(t) \/ Fail(t)
      PROVE  LockInv'
      BY <1>2 DEF TakeFlock, TimeOut, Fail
<1>3. ASSUME NEW t \in Thread, Unlock(t) \/ LeaveGuard(t) \/ Keep(t)
      PROVE  LockInv'
      BY <1>3 DEF Unlock, LeaveGuard, Keep
<1>4. ASSUME NEW t \in Thread, Probe(t) \/ EndProbe(t)
      PROVE  LockInv'
      BY <1>4 DEF Probe, EndProbe
<1>5. ASSUME NEW s \in Store, Die(s)
      PROVE  LockInv'
      BY <1>5 DEF Die
<1>6. CASE UNCHANGED lockVars
      BY <1>6 DEF lockVars
<1>. QED  BY <1>1, <1>2, <1>3, <1>4, <1>5, <1>6 DEF LockNext

\* Every path out of acquireWriteLock, its release, LockInfo and a death leaves
\* exactly the locks held whose holders are still there.
THEOREM NoLockLeaks == LockSpec => []NothingLeaked
<1>1. LockSpec => []LockInv
      BY LockStarts, LockStep, PTL DEF LockSpec
<1>2. LockInv => NothingLeaked
      BY DEF LockInv
<1>. QED  BY <1>1, <1>2, PTL

=============================================================================
