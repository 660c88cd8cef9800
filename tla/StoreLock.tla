------------------------------- MODULE StoreLock -------------------------------
(***************************************************************************)
(* The store write lock (acquireWriteLock and LockInfo): a guard in each   *)
(* open store, a channel of capacity one, and behind it the flock on       *)
(* locks/store.lock, which every opening of the file contends for.         *)
(*                                                                         *)
(* The deadline of the flock is a choice a waiter has while another holds  *)
(* the file. No name here is one of RollbackStore's: RollbackProofs, which  *)
(* extends both, is about commands and about the lock they take.           *)
(***************************************************************************)
EXTENDS Naturals

CONSTANTS
    Thread,
    Store,      \* open FactStores, of one or several processes
    StoreOf,    \* the store each thread works on
    MaxDeaths,  \* bound on process deaths
    Free

ASSUME StoreLockAssumption ==
    /\ StoreOf \in [Thread -> Store]
    /\ Free \notin Thread
    /\ MaxDeaths \in Nat

VARIABLES
    local,   \* each store's guard: the thread whose token is in the channel
    flock,   \* the thread whose descriptor has the flock
    at,      \* where each thread is
    deaths

lockVars == <<local, flock, at, deaths>>

\* guarding, polling: inside acquireWriteLock. holding: its caller has the
\* lock. kept: the caller has returned and left the lock with a transaction
\* that is pending recovery. unguarding: inside the release. probing: inside
\* LockInfo, between its flock and its unlock.
Place == {"idle", "guarding", "polling", "holding", "kept", "unguarding", "probing"}

LockTypeOK ==
    /\ local \in [Store -> Thread \cup {Free}]
    /\ flock \in Thread \cup {Free}
    /\ at \in [Thread -> Place]
    /\ deaths \in 0..MaxDeaths

LockInit ==
    /\ local = [s \in Store |-> Free]
    /\ flock = Free
    /\ at = [t \in Thread |-> "idle"]
    /\ deaths = 0

-----------------------------------------------------------------------------

StepTo(t, s) == at' = [at EXCEPT ![t] = s]

\* <-s.local
FreeGuard(t) == local' = [local EXCEPT ![StoreOf[t]] = Free]

Request(t) ==
    /\ at[t] = "idle"
    /\ StepTo(t, "guarding")
    /\ UNCHANGED <<local, flock, deaths>>

EnterGuard(t) ==
    /\ at[t] = "guarding"
    /\ local[StoreOf[t]] = Free
    /\ local' = [local EXCEPT ![StoreOf[t]] = t]
    /\ StepTo(t, "polling")
    /\ UNCHANGED <<flock, deaths>>

\* The context ends while the thread waits for the guard.
CancelGuard(t) ==
    /\ at[t] = "guarding"
    /\ StepTo(t, "idle")
    /\ UNCHANGED <<local, flock, deaths>>

TakeFlock(t) ==
    /\ at[t] = "polling"
    /\ flock = Free
    /\ flock' = t
    /\ StepTo(t, "holding")
    /\ UNCHANGED <<local, deaths>>

\* Mutant: the early return keeps the guard.
TimeOut_KeepsGuard(t) ==
    /\ at[t] = "polling"
    /\ flock # Free
    /\ StepTo(t, "idle")
    /\ UNCHANGED <<local, flock, deaths>>

\* The deadline passes, and the guard is given back with the error.
TimeOut(t) ==
    /\ at[t] = "polling"
    /\ flock # Free
    /\ FreeGuard(t)
    /\ StepTo(t, "idle")
    /\ UNCHANGED <<flock, deaths>>

\* The file cannot be opened or locked, or the context ends between two polls.
Fail(t) ==
    /\ at[t] = "polling"
    /\ FreeGuard(t)
    /\ StepTo(t, "idle")
    /\ UNCHANGED <<flock, deaths>>

\* The first half of the release: unlock and close.
Unlock(t) ==
    /\ at[t] \in {"holding", "kept"}
    /\ flock' = Free
    /\ StepTo(t, "unguarding")
    /\ UNCHANGED <<local, deaths>>

\* Mutant: the release ends with the descriptor.
LeaveGuard_Forgotten(t) ==
    /\ at[t] = "unguarding"
    /\ StepTo(t, "idle")
    /\ UNCHANGED <<local, flock, deaths>>

LeaveGuard(t) ==
    /\ at[t] = "unguarding"
    /\ FreeGuard(t)
    /\ StepTo(t, "idle")
    /\ UNCHANGED <<flock, deaths>>

\* Commit, or Abort, returns committed-recovery-pending and keeps the lock.
Keep(t) ==
    /\ at[t] = "holding"
    /\ StepTo(t, "kept")
    /\ UNCHANGED <<local, flock, deaths>>

\* LockInfo takes the flock to find out whether it is free.
Probe(t) ==
    /\ at[t] = "idle"
    /\ flock = Free
    /\ flock' = t
    /\ StepTo(t, "probing")
    /\ UNCHANGED <<local, deaths>>

EndProbe(t) ==
    /\ at[t] = "probing"
    /\ flock' = Free
    /\ StepTo(t, "idle")
    /\ UNCHANGED <<local, deaths>>

\* A process dies with everything in its store's memory; the kernel closes its
\* descriptors.
Die(s) ==
    LET gone == {t \in Thread : StoreOf[t] = s}
    IN  /\ deaths < MaxDeaths
        /\ deaths' = deaths + 1
        /\ local' = [local EXCEPT ![s] = Free]
        /\ flock' = IF flock \in gone THEN Free ELSE flock
        /\ at' = [t \in Thread |-> IF t \in gone THEN "idle" ELSE at[t]]

LockNext ==
    \/ \E t \in Thread :
          \/ Request(t) \/ EnterGuard(t) \/ CancelGuard(t)
          \/ TakeFlock(t) \/ TimeOut(t) \/ Fail(t)
          \/ Unlock(t) \/ LeaveGuard(t) \/ Keep(t)
          \/ Probe(t) \/ EndProbe(t)
    \/ \E s \in Store : Die(s)

LockSpec == LockInit /\ [][LockNext]_lockVars

\* Code that runs goes on running: a poll ends in the lock or at the deadline,
\* a caller with the lock releases or keeps it, a release and a probe end. The
\* channel serves its waiting senders in turn. Nobody has to ask for the lock,
\* to cancel, or to release a lock that was kept.
Fairness ==
    \A t \in Thread :
        /\ SF_lockVars(EnterGuard(t))
        /\ WF_lockVars(TakeFlock(t) \/ TimeOut(t))
        /\ WF_lockVars(at[t] = "holding" /\ (Unlock(t) \/ Keep(t)))
        /\ WF_lockVars(LeaveGuard(t) \/ EndProbe(t))

FairLockSpec == LockSpec /\ Fairness

-----------------------------------------------------------------------------
(* Properties *)

\* A store's guard is held by exactly the thread that polls, holds or gives
\* back, and the flock by the one that holds or probes: no path out of the
\* acquisition, an error, a deadline or a cancellation, leaves one behind.
NothingLeaked ==
    /\ \A t \in Thread :
          local[StoreOf[t]] = t <=> at[t] \in {"polling", "holding", "kept", "unguarding"}
    /\ \A t \in Thread : flock = t <=> at[t] \in {"holding", "kept", "probing"}

\* If every transaction that keeps the lock gives it back at some time, every
\* waiter is served or told.
WaitsEndIfReleased ==
    (\A t \in Thread : (at[t] = "kept") ~> (at[t] # "kept"))
        => \A t \in Thread : (at[t] = "guarding") ~> (at[t] # "guarding")

\* acquireWriteLock "respects ctx cancellation and the configured timeout and
\* never blocks forever" (lock.go). The timeout covers the flock only: behind a
\* transaction of the same store that keeps the lock, a thread whose context
\* never ends waits for the guard for ever.
WaitsEnd == \A t \in Thread : (at[t] = "guarding") ~> (at[t] # "guarding")

=============================================================================
