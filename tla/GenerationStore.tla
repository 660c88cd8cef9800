--------------------------- MODULE GenerationStore ---------------------------
(***************************************************************************)
(* The generation transactions of internal/memory: an idempotency claim, a *)
(* transaction record, staging, the permanent input manifest, the          *)
(* published generation directory, the CURRENT pointer (the only commit    *)
(* point), the commit and abort records, and Recover.                      *)
(*                                                                         *)
(* A claim is created without overwrite and gives its idempotency key one  *)
(* random transaction id and one random generation id, so the key, the     *)
(* transaction and the generation are one value here, a member of Tx.      *)
(* Every durable write of the code is an action of its own: a process may  *)
(* die, and any other process may move, between two of them.               *)
(***************************************************************************)
CONSTANTS
    Tx,          \* idempotency keys, each with its transaction and generation
    Proc,        \* client processes, each driving one handle at a time
    Requests,    \* the pairs <<key, base>> that callers ask Begin for
    Okf,         \* the keys whose compiler writes views (wiki/, state/)
    Manifests,   \* manifest contents; a re-preparation may differ (created_at)
    Verified,    \* the manifests whose inputs verifyManifestInputs accepts
    None

Base == Tx \cup {None}

ASSUME StoreAssumption ==
    /\ None \notin Tx \cup Proc \cup Manifests
    /\ Requests \subseteq Tx \X Base
    /\ Okf \subseteq Tx
    /\ Verified \subseteq Manifests

VARIABLES
    (***********************************************************************)
    (* The store directory                                                 *)
    (***********************************************************************)
    claim,         \* idempotency/<key>.json: its status, or "none"
    request,       \* the base the claim's request hash and record are bound to
    record,        \* transactions/<tx>/prepared.json exists
    prepManifest,  \* transactions/<tx>/prepared-manifest.json
    views,         \* compiled views are present in <gen>.staging
    doc,           \* generation.json of <gen>.staging: what it pins
    manifestFact,  \* facts/generation-input-manifests/<gen>.json
    published,     \* generations/<gen>: what its generation.json pins
    current,       \* CURRENT
    commitRec,     \* transactions/<tx>/commit.json: the manifest it names
    abortRec,      \* transactions/<tx>/abort.json exists
    (***********************************************************************)
    (* The processes                                                       *)
    (***********************************************************************)
    lock,          \* the process that holds the scope write lock
    pc,            \* where each process is
    tx,            \* the transaction its handle (or its scan of CURRENT) names
    wants,         \* the base of the request it is making
    todo,          \* the claim completions its Recover has decided on
    (***********************************************************************)
    (* History                                                             *)
    (***********************************************************************)
    effective      \* the generations CURRENT has ever pointed at

recordVars == <<claim, request, record, prepManifest, commitRec, abortRec>>
stagingVars == <<views, doc>>
factVars == <<manifestFact, published>>
currentVars == <<current, effective>>
diskVars == <<recordVars, stagingVars, factVars, currentVars>>
procVars == <<tx, wants, todo>>
vars == <<diskVars, lock, pc, procVars>>

-----------------------------------------------------------------------------
(* Types *)

Status == {"none", "pending", "committed", "aborted"}

\* What a generation.json pins: no document, one with the empty compiled hash,
\* or one with the hash of the compiled views.
Docs == {"none", "bare", "full"}

\* A handle that a caller may use: between Begin and its end.
Open == {"open", "prepared", "compiled", "validated", "pending"}
Committing == {"manifesting", "publishing", "casing", "switching",
               "auditing", "claiming"}
Locked == Open \cup Committing
               \cup {"binding", "aborting", "completing", "restoring",
                     "filing", "syncing"}
PC == Locked \cup {"idle", "recording", "locking", "scanning", "recovering"}

TypeOK ==
    /\ claim \in [Tx -> Status]
    /\ request \in [Tx -> Base]
    /\ record \in [Tx -> BOOLEAN]
    /\ prepManifest \in [Tx -> Manifests \cup {None}]
    /\ views \in [Tx -> BOOLEAN]
    /\ doc \in [Tx -> Docs]
    /\ manifestFact \in [Tx -> Manifests \cup {None}]
    /\ published \in [Tx -> Docs]
    /\ current \in Base
    /\ commitRec \in [Tx -> Manifests \cup {None}]
    /\ abortRec \in [Tx -> BOOLEAN]
    /\ lock \in Proc \cup {None}
    /\ pc \in [Proc -> PC]
    /\ tx \in [Proc -> Base]
    /\ wants \in [Proc -> Base]
    /\ todo \in [Proc -> SUBSET (Tx \X {"committed", "aborted"})]
    /\ effective \subseteq Tx

Init ==
    /\ claim = [t \in Tx |-> "none"]
    /\ request = [t \in Tx |-> None]
    /\ record = [t \in Tx |-> FALSE]
    /\ prepManifest = [t \in Tx |-> None]
    /\ views = [t \in Tx |-> FALSE]
    /\ doc = [t \in Tx |-> "none"]
    /\ manifestFact = [t \in Tx |-> None]
    /\ published = [t \in Tx |-> "none"]
    /\ current = None
    /\ commitRec = [t \in Tx |-> None]
    /\ abortRec = [t \in Tx |-> FALSE]
    /\ lock = None
    /\ pc = [p \in Proc |-> "idle"]
    /\ tx = [p \in Proc |-> None]
    /\ wants = [p \in Proc |-> None]
    /\ todo = [p \in Proc |-> {}]
    /\ effective = {}

-----------------------------------------------------------------------------
(* Helpers *)

\* Process p moves on and keeps what it holds.
Goto(p, s) ==
    /\ pc' = [pc EXCEPT ![p] = s]
    /\ UNCHANGED <<lock, procVars>>

\* Process p returns to its caller: the handle is closed and the lock, if p
\* holds it, is handed back (tx.release, or the kernel's for a dead process).
Return(p) ==
    /\ pc' = [pc EXCEPT ![p] = "idle"]
    /\ tx' = [tx EXCEPT ![p] = None]
    /\ wants' = [wants EXCEPT ![p] = None]
    /\ todo' = [todo EXCEPT ![p] = {}]
    /\ lock' = IF lock = p THEN None ELSE lock


\* Mutant: a lock that somebody holds is not waited for.
TakeLock_Breaks(p, s, next) ==
    /\ pc[p] = s
    /\ lock' = p
    /\ pc' = [pc EXCEPT ![p] = next]
    /\ UNCHANGED <<procVars, diskVars>>

\* acquireWriteLock, waiting in state s: the lock is taken, or the wait times
\* out. The lock itself is specified in StoreLock.
TakeLock(p, s, next) ==
    /\ pc[p] = s
    /\ \/ /\ lock = None
          /\ lock' = p
          /\ pc' = [pc EXCEPT ![p] = next]
          /\ UNCHANGED procVars
       \/ /\ lock # None
          /\ Return(p)
    /\ UNCHANGED diskVars

Terminal(t) == commitRec[t] # None \/ abortRec[t]

\* compiledOutputHash over the staging directory decides what is pinned.
BuiltDoc(t) == IF views[t] THEN "full" ELSE "bare"

\* buildStaging never rebuilds: a document already there must agree.
CanBuild(t) == prepManifest[t] # None /\ doc[t] \in {"none", BuiltDoc(t)}

Build(t) == doc' = [doc EXCEPT ![t] = BuiltDoc(t)]

\* verifyCompiledOutputIntegrity of a published directory: an OKF compiler
\* always pins views, another one never does.
Intact(t) == published[t] = IF t \in Okf THEN "full" ELSE "bare"

-----------------------------------------------------------------------------
(* Begin *)

\* The claim is won (created without overwrite) or an existing one is read.
\* A base generation has a random id, so a caller can only name a base whose
\* claim exists.
Claim(p, t, b) ==
    /\ pc[p] = "idle"
    /\ <<t, b>> \in Requests
    /\ b # None => claim[b] # "none"
    /\ tx' = [tx EXCEPT ![p] = t]
    /\ wants' = [wants EXCEPT ![p] = b]
    /\ IF claim[t] = "none"
       THEN /\ claim' = [claim EXCEPT ![t] = "pending"]
            /\ request' = [request EXCEPT ![t] = b]
            /\ pc' = [pc EXCEPT ![p] = "recording"]
       ELSE /\ pc' = [pc EXCEPT ![p] = "locking"]
            /\ UNCHANGED <<claim, request>>
    /\ UNCHANGED <<record, prepManifest, commitRec, abortRec, stagingVars,
                   factVars, currentVars, lock, todo>>

\* The winner writes the transaction record outside the lock, or fails to.
CreateTxRecord(p) ==
    /\ pc[p] = "recording"
    /\ \/ /\ record' = [record EXCEPT ![tx[p]] = TRUE]
          /\ Goto(p, "locking")
       \/ /\ Return(p)
          /\ UNCHANGED record
    /\ UNCHANGED <<claim, request, prepManifest, commitRec, abortRec,
                   stagingVars, factVars, currentVars>>

BeginLock(p) == TakeLock(p, "locking", "binding")

\* finalizeBegin under the lock: another request on the same key is refused,
\* and so is a record that does not appear while waitTxRecord polls for it.
FinalizeBegin(p) ==
    /\ pc[p] = "binding"
    /\ \/ /\ request[tx[p]] = wants[p]
          /\ record[tx[p]]
          /\ Goto(p, "open")
       \/ /\ request[tx[p]] # wants[p] \/ ~record[tx[p]]
          /\ Return(p)
    /\ UNCHANGED diskVars

-----------------------------------------------------------------------------
(* Preparation. An operation that is refused changes nothing; its callers   *)
(* answer with Abort.                                                      *)

\* PrepareFact and PrepareManifest: refused on a terminal transaction; a
\* manifest prepared earlier is replaced.
PrepareManifest(p, m) ==
    /\ pc[p] = "open"
    /\ ~Terminal(tx[p])
    /\ prepManifest' = [prepManifest EXCEPT ![tx[p]] = m]
    /\ Goto(p, "prepared")
    /\ UNCHANGED <<claim, request, record, commitRec, abortRec, stagingVars,
                   factVars, currentVars>>

\* The compiler's views are written over whatever staging holds.
WriteCompiledOutput(p) ==
    /\ pc[p] = "prepared"
    /\ views' = [views EXCEPT ![tx[p]] = @ \/ tx[p] \in Okf]
    /\ Goto(p, "compiled")
    /\ UNCHANGED <<recordVars, doc, factVars, currentVars>>

ValidateStaging(p) ==
    /\ pc[p] = "compiled"
    /\ CanBuild(tx[p])
    /\ Build(tx[p])
    /\ Goto(p, "validated")
    /\ UNCHANGED <<recordVars, views, factVars, currentVars>>

-----------------------------------------------------------------------------
(* Commit *)

\* Callers commit a validated handle, one whose Commit is pending recovery, or
\* one that Begin reopened and that has nothing left to compile.
Committable(p) ==
    \/ pc[p] \in {"validated", "pending"}
    \/ pc[p] = "open" /\ (commitRec[tx[p]] # None \/ tx[p] \notin Okf)


\* Mutant: the abort record is not looked at.
StartCommit_AbortedToo(p) ==
    LET t == tx[p]
        Go == commitRec[t] = None /\ prepManifest[t] \in Verified /\ CanBuild(t)
    IN  /\ Committable(p)
        /\ \/ /\ Go
              /\ Build(t)
              /\ Goto(p, "manifesting")
           \/ /\ ~Go
              /\ Return(p)
              /\ UNCHANGED doc
        /\ UNCHANGED <<recordVars, views, factVars, currentVars>>

\* A commit record makes Commit a replay, which only syncs the claim (best
\* effort); an abort record, a manifest that does not verify and an
\* inconsistent staging directory are refused.
StartCommit(p) ==
    LET t == tx[p]
        Go == /\ commitRec[t] = None
              /\ ~abortRec[t]
              /\ prepManifest[t] \in Verified
              /\ CanBuild(t)
    IN  /\ Committable(p)
        /\ \/ /\ commitRec[t] # None
              /\ claim' \in {claim, [claim EXCEPT ![t] = "committed"]}
              /\ Return(p)
              /\ UNCHANGED doc
           \/ /\ Go
              /\ Build(t)
              /\ Goto(p, "manifesting")
              /\ UNCHANGED claim
           \/ /\ commitRec[t] = None
              /\ ~Go
              /\ Return(p)
              /\ UNCHANGED <<claim, doc>>
        /\ UNCHANGED <<request, record, prepManifest, commitRec, abortRec,
                       views, factVars, currentVars>>


\* Mutant: the manifest is only prepared; putLocked is left to Recover.
PutManifest_Skipped(p) ==
    /\ pc[p] = "manifesting"
    /\ Goto(p, "publishing")
    /\ UNCHANGED diskVars

\* putLocked: no overwrite, an identical manifest is a no-op and a different
\* one is an identity conflict. The write itself may fail.
PutManifest(p) ==
    LET t == tx[p]
    IN  /\ pc[p] = "manifesting"
        /\ \/ /\ manifestFact[t] \in {None, prepManifest[t]}
              /\ manifestFact' = [manifestFact EXCEPT ![t] = prepManifest[t]]
              /\ Goto(p, "publishing")
           \/ /\ Return(p)
              /\ UNCHANGED manifestFact
        /\ UNCHANGED <<recordVars, stagingVars, published, currentVars>>


\* Staging is renamed to the final directory; one that is already there is
\* verified instead. The rename may fail.
Publish(p) ==
    LET t == tx[p]
    IN  /\ pc[p] = "publishing"
        /\ \/ /\ published[t] = "none"
              /\ published' = [published EXCEPT ![t] = doc[t]]
              /\ doc' = [doc EXCEPT ![t] = "none"]
              /\ views' = [views EXCEPT ![t] = FALSE]
              /\ Goto(p, "casing")
           \/ /\ published[t] = doc[t]
              /\ Intact(t)
              /\ Goto(p, "casing")
              /\ UNCHANGED <<published, stagingVars>>
           \/ /\ published[t] = "none" \/ published[t] # doc[t] \/ ~Intact(t)
              /\ Return(p)
              /\ UNCHANGED <<published, stagingVars>>
        /\ UNCHANGED <<recordVars, manifestFact, currentVars>>


\* Mutant: CURRENT is not compared with the base again under the lock.
CheckBase_NoCAS(p) ==
    LET t == tx[p]
    IN  /\ pc[p] = "casing"
        /\ \/ current = t /\ Goto(p, "auditing")
           \/ current # t /\ Goto(p, "switching")
        /\ UNCHANGED diskVars

\* CURRENT is read again under the lock: it already names this generation, or
\* it must be the base, or Commit fails and leaves the generation an orphan.
CheckBase(p) ==
    LET t == tx[p]
    IN  /\ pc[p] = "casing"
        /\ \/ current = t /\ Goto(p, "auditing")
           \/ current # t /\ current = request[t] /\ Goto(p, "switching")
           \/ current # t /\ current # request[t] /\ Return(p)
        /\ UNCHANGED diskVars


\* Mutant: a failed write of CURRENT is not noticed.
SwitchCurrent_ErrorLost(p) ==
    /\ pc[p] = "switching"
    /\ \/ /\ current' = tx[p]
          /\ effective' = effective \cup {tx[p]}
       \/ UNCHANGED currentVars
    /\ Goto(p, "auditing")
    /\ UNCHANGED <<recordVars, stagingVars, factVars>>

\* The commit point: CURRENT is replaced atomically, or the write fails.
SwitchCurrent(p) ==
    /\ pc[p] = "switching"
    /\ \/ /\ current' = tx[p]
          /\ effective' = effective \cup {tx[p]}
          /\ Goto(p, "auditing")
       \/ /\ Return(p)
          /\ UNCHANGED currentVars
    /\ UNCHANGED <<recordVars, stagingVars, factVars>>


\* Mutant: a failed commit record is reported, but the claim is updated first.
WriteCommitRecord_ClaimFirst(p) ==
    LET t == tx[p]
    IN  /\ pc[p] = "auditing"
        /\ \/ /\ commitRec' = [commitRec EXCEPT ![t] = prepManifest[t]]
              /\ Goto(p, "claiming")
           \/ /\ Goto(p, "claiming")
              /\ UNCHANGED commitRec
        /\ UNCHANGED <<claim, request, record, prepManifest, abortRec,
                       stagingVars, factVars, currentVars>>

\* After the switch a failed write keeps the lock and reports
\* committed-recovery-pending.
WriteCommitRecord(p) ==
    LET t == tx[p]
    IN  /\ pc[p] = "auditing"
        /\ \/ /\ commitRec' = [commitRec EXCEPT ![t] = prepManifest[t]]
              /\ Goto(p, "claiming")
           \/ /\ Goto(p, "pending")
              /\ UNCHANGED commitRec
        /\ UNCHANGED <<claim, request, record, prepManifest, abortRec,
                       stagingVars, factVars, currentVars>>

UpdateClaimStatus(p) ==
    /\ pc[p] = "claiming"
    /\ \/ /\ claim' = [claim EXCEPT ![tx[p]] = "committed"]
          /\ Return(p)
       \/ /\ Goto(p, "pending")
          /\ UNCHANGED claim
    /\ UNCHANGED <<request, record, prepManifest, commitRec, abortRec,
                   stagingVars, factVars, currentVars>>

-----------------------------------------------------------------------------
(* Abort, Release and process death *)

\* Refused on a committed transaction (the lock goes back) and on the one
\* CURRENT points at (the lock stays with the handle, to be committed again).
Abort(p) ==
    LET t == tx[p]
    IN  /\ pc[p] \in Open
        /\ \/ /\ commitRec[t] # None
              /\ Return(p)
              /\ UNCHANGED abortRec
           \/ /\ commitRec[t] = None
              /\ current = t
              /\ Goto(p, "pending")
              /\ UNCHANGED abortRec
           \/ /\ commitRec[t] = None
              /\ current # t
              /\ abortRec' = [abortRec EXCEPT ![t] = TRUE]
              /\ Goto(p, "aborting")
        /\ UNCHANGED <<claim, request, record, prepManifest, commitRec,
                       stagingVars, factVars, currentVars>>

\* The claim follows the abort record, or its update fails.
AbortClaim(p) ==
    /\ pc[p] = "aborting"
    /\ claim' \in {claim, [claim EXCEPT ![tx[p]] = "aborted"]}
    /\ Return(p)
    /\ UNCHANGED <<request, record, prepManifest, commitRec, abortRec,
                   stagingVars, factVars, currentVars>>

Release(p) ==
    /\ pc[p] \in Open
    /\ Return(p)
    /\ UNCHANGED diskVars

\* The process dies between two writes; the kernel frees its flock.
Crash(p) ==
    /\ pc[p] # "idle"
    /\ Return(p)
    /\ UNCHANGED diskVars

-----------------------------------------------------------------------------
(* Recover *)

\* CURRENT is read first, without the lock.
StartRecover(p) ==
    /\ pc[p] = "idle"
    /\ tx' = [tx EXCEPT ![p] = current]
    /\ pc' = [pc EXCEPT ![p] = "scanning"]
    /\ UNCHANGED <<diskVars, lock, wants, todo>>


\* The claims that disagree with their transaction's terminal record.
Drifted ==
    {e \in Tx \X {"committed", "aborted"} :
        /\ claim[e[1]] \notin {"none", e[2]}
        /\ record[e[1]]
        /\ Terminal(e[1])
        /\ e[2] = IF commitRec[e[1]] # None THEN "committed" ELSE "aborted"}

\* Still without the lock: the claims, then the audit of the CURRENT that was
\* read. The handle keeps that generation only when its audit is to be filed.
ScanRecover(p) ==
    LET c == tx[p]
        audit == c # None /\ Intact(c) /\ commitRec[c] = None
    IN  /\ pc[p] = "scanning"
        /\ \/ /\ Drifted = {} /\ ~audit
              /\ Return(p)
           \/ /\ Drifted # {} \/ audit
              /\ todo' = [todo EXCEPT ![p] = Drifted]
              /\ tx' = [tx EXCEPT ![p] = IF audit THEN c ELSE None]
              /\ pc' = [pc EXCEPT ![p] = "recovering"]
              /\ UNCHANGED <<lock, wants>>
        /\ UNCHANGED diskVars

RecoverLock(p) == TakeLock(p, "recovering", "completing")

\* completeClaimStatus, with the status decided before the lock was taken; a
\* failed write is reported as blocked and the next completion follows.
CompleteClaim(p) ==
    /\ pc[p] = "completing"
    /\ \E e \in todo[p] :
          /\ claim' \in {claim, [claim EXCEPT ![e[1]] = e[2]]}
          /\ todo' = [todo EXCEPT ![p] = @ \ {e}]
    /\ UNCHANGED <<request, record, prepManifest, commitRec, abortRec,
                   stagingVars, factVars, currentVars, lock, pc, tx, wants>>

\* The claims are done: go on to completeCommitAudit, or return.
StartAudit(p) ==
    /\ pc[p] = "completing"
    /\ todo[p] = {}
    /\ \/ /\ tx[p] # None
          /\ record[tx[p]] /\ Intact(tx[p]) /\ prepManifest[tx[p]] # None
          /\ Goto(p, "restoring")
       \/ /\ tx[p] = None
          /\ Return(p)
    /\ UNCHANGED diskVars

\* A missing permanent manifest is restored from the prepared one.
RestoreManifest(p) ==
    LET t == tx[p]
    IN  /\ pc[p] = "restoring"
        /\ \/ /\ manifestFact' = [manifestFact EXCEPT ![t] =
                                    IF @ = None THEN prepManifest[t] ELSE @]
              /\ Goto(p, "filing")
           \/ /\ manifestFact[t] = None
              /\ Return(p)
              /\ UNCHANGED manifestFact
        /\ UNCHANGED <<recordVars, stagingVars, published, currentVars>>

FileCommitRecord(p) ==
    /\ pc[p] = "filing"
    /\ \/ /\ commitRec' = [commitRec EXCEPT ![tx[p]] = prepManifest[tx[p]]]
          /\ Goto(p, "syncing")
       \/ /\ Return(p)
          /\ UNCHANGED commitRec
    /\ UNCHANGED <<claim, request, record, prepManifest, abortRec,
                   stagingVars, factVars, currentVars>>

SyncClaim(p) ==
    /\ pc[p] = "syncing"
    /\ claim' \in {claim, [claim EXCEPT ![tx[p]] = "committed"]}
    /\ Return(p)
    /\ UNCHANGED <<request, record, prepManifest, commitRec, abortRec,
                   stagingVars, factVars, currentVars>>

-----------------------------------------------------------------------------

Begin(p) ==
    \/ \E t \in Tx, b \in Base : Claim(p, t, b)
    \/ CreateTxRecord(p) \/ BeginLock(p) \/ FinalizeBegin(p)

Prepare(p) ==
    \/ \E m \in Manifests : PrepareManifest(p, m)
    \/ WriteCompiledOutput(p) \/ ValidateStaging(p)

Commit(p) ==
    \/ StartCommit(p) \/ PutManifest(p) \/ Publish(p) \/ CheckBase(p)
    \/ SwitchCurrent(p) \/ WriteCommitRecord(p) \/ UpdateClaimStatus(p)

Recover(p) ==
    \/ StartRecover(p) \/ ScanRecover(p) \/ RecoverLock(p) \/ CompleteClaim(p)
    \/ StartAudit(p) \/ RestoreManifest(p) \/ FileCommitRecord(p)
    \/ SyncClaim(p)

Next ==
    \E p \in Proc :
        \/ Begin(p) \/ Prepare(p) \/ Commit(p) \/ Recover(p)
        \/ Abort(p) \/ AbortClaim(p) \/ Release(p) \/ Crash(p)

Spec == Init /\ [][Next]_vars

-----------------------------------------------------------------------------
(* Properties *)

\* What a reader of CURRENT finds is complete: the generation directory with
\* the views its compiler pins, the permanent manifest and the transaction
\* record were all written before CURRENT was switched (Commit's order).
CurrentIsBacked ==
    current # None =>
        /\ Intact(current)
        /\ manifestFact[current] # None
        /\ record[current]

\* No two generations ever became effective on the same base: of all the
\* transactions begun on one CURRENT, Commit's CAS lets a single one win, in
\* spite of crashes, retries and Recover.
OneSuccessor ==
    \A t, u \in effective : request[t] = request[u] => t = u

\* A commit record is only ever filed, by Commit or by Recover, for a
\* generation that CURRENT has pointed at.
CommitRecordEarned ==
    \A t \in Tx : commitRec[t] # None => t \in effective

\* The claim's status never runs ahead of the transaction's terminal record,
\* although Recover decides it outside the lock and writes it later.
ClaimFollowsRecord ==
    \A t \in Tx : /\ claim[t] = "committed" => commitRec[t] # None
                  /\ claim[t] = "aborted" => abortRec[t]

\* CURRENT only moves to the generation of a transaction that is not aborted,
\* and never twice to the same one: a replayed idempotency key has one effect.
EffectiveOnce ==
    [][current' # current => /\ current' \notin effective
                             /\ ~abortRec[current']]_vars

\* A published generation and a permanent manifest are never changed or
\* removed, whichever process publishes, retries or restores them.
PublishedForGood ==
    [][\A t \in Tx :
          /\ published[t] # "none" => published'[t] = published[t]
          /\ manifestFact[t] # None => manifestFact'[t] = manifestFact[t]]_vars

-----------------------------------------------------------------------------
(* The store implements CommitPoint: every write but the creation of a claim *)
(* and the switch of CURRENT is a step that CommitPoint does not see.        *)

BoundKeys == {t \in Tx : claim[t] # "none"}

CP == INSTANCE CommitPoint WITH Key <- Tx, bound <- BoundKeys, base <- request

\* Each behaviour of the store, with its crashes, retries and recoveries, is a
\* behaviour of CommitPoint.
ImplementsCommitPoint == CP!Spec

-----------------------------------------------------------------------------
(* What comments and tests promise and the code does not keep. Each is      *)
(* checked by a run that finds the counterexample.                          *)

\* Abort's comment and its test: an effective transaction must not be aborted.
\* Abort asks CURRENT, which a later transaction may already have moved on.
EffectiveNotAborted ==
    \A t \in effective : ~abortRec[t]

\* Commit's comment: the lock is kept "so a retried Commit can
\* deterministically complete the remaining steps". The retry rebuilds staging,
\* which the publish has emptied, and compares it with what was published.
RetryCompletes ==
    \A p \in Proc : pc[p] = "publishing" /\ tx[p] \in effective
                        => published[tx[p]] = doc[tx[p]]

=============================================================================
